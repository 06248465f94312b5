------------------------ MODULE ArchitectureDiagram ------------------------
(***************************************************************************)
(* The animated topology (components/ArchitectureDiagram.tsx): seven       *)
(* stages, advanced by a chain of timeouts that can be paused, resumed and *)
(* redirected, and a drawing whose every text, colour and flow is derived  *)
(* from the stage.                                                         *)
(*                                                                         *)
(* The timeout in timerRef can be cleared; one whose reference has been    *)
(* overwritten cannot, and goes on by itself.  Durations are left out: any *)
(* pending timeout may fire next.  Texts are abstracted to what they       *)
(* claim; theme, layout and the shapes of the charts are left out.         *)
(***************************************************************************)
EXTENDS Integers, FiniteSets

CONSTANT MaxPresses   (* bound on the visitor's actions                    *)

ASSUME DiagramAssumption == MaxPresses \in Nat

VARIABLES
  stage,       (* currentState                                             *)
  paused,      (* isPaused: "yes" or "no"                                  *)
  details,     (* showDetails: "yes" or "no"                               *)
  refTimer,    (* what the timeout in timerRef will advance from, or Idle  *)
  lostTimers,  (* pending timeouts no reference leads to, by that stage    *)
  presses, resumes

timerVars == <<refTimer, lostTimers>>
diagramVars == <<stage, paused, details, timerVars, presses, resumes>>

Stages == 0..6
Idle == -1

Following(s) == (s + 1) % 7

Lost(timers, s) == [timers EXCEPT ![s] = @ + 1]

(* Assigning timerRef loses the timeout it held, if that is still pending. *)
Arm(s) ==
  /\ refTimer' = s
  /\ lostTimers' = IF refTimer = Idle THEN lostTimers ELSE Lost(lostTimers, refTimer)

DiagramInit ==
  /\ stage = 0 /\ paused = "no" /\ details = "no"
  /\ refTimer = 0 /\ lostTimers = [s \in Stages |-> 0]
  /\ presses = 0 /\ resumes = 0

-----------------------------------------------------------------------------
(* advanceRef holds the callback of the last render, so a timeout armed    *)
(* before a pause finds the diagram paused, and its chain ends.            *)
RefTimerFires ==
  /\ refTimer # Idle
  /\ IF paused = "yes"
     THEN refTimer' = Idle /\ UNCHANGED stage
     ELSE stage' = Following(refTimer) /\ refTimer' = Following(refTimer)
  /\ UNCHANGED <<paused, details, lostTimers, presses, resumes>>

FaultyLostTimerFires(s) ==
  /\ lostTimers[s] > 0
  /\ stage' = Following(s) /\ refTimer' = Following(s)
  /\ lostTimers' = [lostTimers EXCEPT ![s] = @ - 1]
  /\ UNCHANGED <<paused, details, presses, resumes>>

LostTimerFires(s) ==
  /\ lostTimers[s] > 0
  /\ LET others == [lostTimers EXCEPT ![s] = @ - 1] IN
     IF paused = "yes"
     THEN lostTimers' = others /\ UNCHANGED <<stage, refTimer>>
     ELSE /\ stage' = Following(s) /\ refTimer' = Following(s)
          /\ lostTimers' = IF refTimer = Idle THEN others ELSE Lost(others, refTimer)
  /\ UNCHANGED <<paused, details, presses, resumes>>

Press == presses < MaxPresses /\ presses' = presses + 1

FaultySelectStage(s) ==
  /\ Press
  /\ stage' = s
  /\ IF paused = "no" THEN Arm(s) ELSE UNCHANGED timerVars
  /\ UNCHANGED <<paused, details, resumes>>

SelectStage(s) ==
  /\ Press
  /\ stage' = s
  /\ refTimer' = IF paused = "no" THEN s ELSE Idle
  /\ UNCHANGED <<paused, details, lostTimers, resumes>>

TriggerLatencySpike == SelectStage(1)

StageButtons == \E s \in Stages : SelectStage(s)

Pause ==
  /\ Press /\ paused = "no"
  /\ paused' = "yes"
  /\ refTimer' = Idle
  /\ UNCHANGED <<stage, details, lostTimers, resumes>>

(* The click arms a timeout from the present stage, and the effect of the  *)
(* render it causes arms another, from stage 0, in the same reference: the *)
(* first is lost at once.                                                  *)
FaultyResume ==
  /\ Press /\ paused = "yes"
  /\ paused' = "no" /\ resumes' = resumes + 1
  /\ UNCHANGED <<stage, details, timerVars>>

Resume ==
  /\ Press /\ paused = "yes"
  /\ paused' = "no" /\ resumes' = resumes + 1
  /\ refTimer' = 0
  /\ lostTimers' = Lost(lostTimers, stage)
  /\ UNCHANGED <<stage, details>>

ToggleDetails ==
  /\ Press
  /\ details' = IF details = "yes" THEN "no" ELSE "yes"
  /\ UNCHANGED <<stage, paused, timerVars, resumes>>

Timeouts == RefTimerFires \/ \E s \in Stages : LostTimerFires(s)

DiagramNext ==
  \/ Timeouts \/ StageButtons \/ TriggerLatencySpike
  \/ Pause \/ Resume \/ ToggleDetails

-----------------------------------------------------------------------------
(* What the drawing shows of a stage.                                      *)

FaultyScaled(s) == s \in {4, 5, 6}

Scaled(s) == s \in {5, 6}
Degraded(s) == s \in 2..4
Strained(s) == s \in 1..4

StageColor(s) ==
  CASE s \in {0, 5, 6} -> "green" [] s = 1 -> "amber" [] s = 2 -> "rose"
    [] s = 3 -> "blue" [] s = 4 -> "emerald"

StatePing(s) ==
  CASE s = 0 -> "green" [] s = 1 -> "amber" [] s = 2 -> "rose" [] s = 3 -> "blue"
    [] s = 4 -> "emerald" [] OTHER -> "green"

TopReplicas(s) == IF Scaled(s) THEN 9 ELSE 3

Health(s) == IF Degraded(s) THEN "rose" ELSE "green"

(* What each metric pill claims: "nominal" or what it found.               *)
LatencyMetric(s) == IF s \in {0, 6} THEN "nominal" ELSE "spike"
ErrorMetric(s) == IF Degraded(s) THEN "critical" ELSE "nominal"

DecTrigger(s) ==
  CASE s = 0 -> "normal" [] s = 1 -> "evaluating" [] s = 2 -> "alert"
    [] s \in 3..5 -> "matched" [] s = 6 -> "within bounds"

ScalerFactor(s) == IF s \in 0..2 THEN "idle" ELSE "unlocked"

KubeRequest(s) == IF s \in 4..6 THEN 9 ELSE 0    (* replicas patched, if any *)
KubeStatus(s) == IF s \in 4..6 THEN "accepted" ELSE "ok"

Allocation(s) == IF s \in {5, 6} THEN 9 ELSE 3
Feedback(s) == IF s = 5 THEN "syncing" ELSE "healthy"

WidgetThreat(s) == IF Degraded(s) THEN 1 ELSE 0

(* The nodes, each with what it claims of the stage; a compact node leaves *)
(* out the figures that only the details show.                             *)
Node(name, claim, detail) ==
  [name |-> name, claim |-> claim, detail |-> IF details = "yes" THEN detail ELSE 0]

Workloads(s) ==
  {Node("frontend", Health(s), TopReplicas(s)), Node("api", Health(s), TopReplicas(s)),
   Node("worker", "green", 5), Node("db", "primary", 42)}

LogSources(s) ==
  {Node("container-logs", "steady", 0), Node("security-events", "quiet", 0),
   Node("ingress-logs", IF s \in {0, 6} THEN "steady" ELSE "surge", 0),
   Node("app-events", IF Degraded(s) THEN "surge" ELSE "steady", 0)}

Detectors ==
  {Node(n, "fixed", 0) : n \in {"pattern", "latency-det", "error-det", "anomaly", "threat"}}

Metrics(s) ==
  {Node("throughput", "fixed", 0), Node("saturation", "fixed", 0),
   Node("latency-metric", LatencyMetric(s), 0), Node("error-metric", ErrorMetric(s), 0)}

ControlPlane(s) ==
  {Node("dec-engine", DecTrigger(s), 0), Node("autoscaler", ScalerFactor(s), 0),
   Node("kube-api", KubeStatus(s), KubeRequest(s)), Node("feedback", Feedback(s), Allocation(s))}

(* The connections, as drawn.                                              *)
WorkloadEdges ==
  {<<"frontend", "container-logs">>, <<"frontend", "ingress-logs">>,
   <<"api", "container-logs">>, <<"api", "security-events">>,
   <<"worker", "container-logs">>, <<"worker", "app-events">>,
   <<"db", "container-logs">>, <<"db", "app-events">>}

AnalysisEdges ==
  {<<"container-logs", "pattern">>, <<"container-logs", "latency-det">>,
   <<"ingress-logs", "latency-det">>, <<"ingress-logs", "error-det">>,
   <<"security-events", "anomaly">>, <<"security-events", "threat">>,
   <<"app-events", "error-det">>, <<"app-events", "anomaly">>}

MetricEdges ==
  {<<"pattern", "throughput">>, <<"latency-det", "latency-metric">>,
   <<"error-det", "error-metric">>, <<"anomaly", "saturation">>, <<"threat", "saturation">>}

ControlEdges ==
  {<<"throughput", "dec-engine">>, <<"error-metric", "dec-engine">>,
   <<"latency-metric", "autoscaler">>, <<"saturation", "autoscaler">>,
   <<"dec-engine", "autoscaler">>, <<"autoscaler", "kube-api">>,
   <<"kube-api", "feedback">>, <<"feedback", "frontend">>}

Edges == WorkloadEdges \cup AnalysisEdges \cup MetricEdges \cup ControlEdges

SignalDots ==
  {<<"frontend", "ingress-logs">>, <<"api", "security-events">>,
   <<"container-logs", "latency-det">>, <<"ingress-logs", "error-det">>,
   <<"latency-det", "latency-metric">>, <<"saturation", "autoscaler">>,
   <<"autoscaler", "kube-api">>, <<"feedback", "frontend">>}

(* The edges highlighted in a stage, by colour.                            *)
Flow(s, color) ==
  CASE color = "amber" /\ Strained(s) ->
         {<<"frontend", "ingress-logs">>, <<"container-logs", "latency-det">>,
          <<"ingress-logs", "latency-det">>, <<"latency-det", "latency-metric">>,
          <<"latency-metric", "autoscaler">>}
    [] color = "rose" /\ Degraded(s) ->
         {<<"api", "container-logs">>, <<"app-events", "error-det">>,
          <<"error-det", "error-metric">>, <<"saturation", "autoscaler">>}
    [] color = "emerald" ->
         {e \in ControlEdges :
            \/ e = <<"dec-engine", "autoscaler">> /\ s \in {3, 4}
            \/ e = <<"autoscaler", "kube-api">> /\ s = 4
            \/ e \in {<<"kube-api", "feedback">>, <<"feedback", "frontend">>} /\ s = 5}
    [] OTHER -> {}

Pulsing(s, color) ==
  CASE color = "amber" /\ Strained(s) -> {"latency-det", "latency-metric"}
    [] color = "rose" /\ Degraded(s)  -> {"error-det", "error-metric"}
    [] color = "emerald" ->
         (IF s \in {3, 4} THEN {"dec-engine", "autoscaler"} ELSE {})
           \cup (IF s = 4 THEN {"kube-api"} ELSE {}) \cup (IF s = 5 THEN {"feedback"} ELSE {})
           \cup (IF s = 6 THEN {"frontend", "api"} ELSE {})
    [] OTHER -> {}

Drawing(s) == Workloads(s) \cup LogSources(s) \cup Detectors \cup Metrics(s) \cup ControlPlane(s)

-----------------------------------------------------------------------------
DiagramTypeOK ==
  /\ stage \in Stages /\ paused \in {"yes", "no"} /\ details \in {"yes", "no"}
  /\ refTimer \in Stages \cup {Idle}
  /\ lostTimers \in [Stages -> Nat]
  /\ presses \in 0..MaxPresses /\ resumes \in 0..MaxPresses

(* Only a resume, which arms two timeouts, loses one: every other action   *)
(* leaves a single chain, so no more chains than resumes run beside the    *)
(* one that can be cleared (lines 54-80).                                  *)
ChainsBounded ==
  lostTimers[0] + lostTimers[1] + lostTimers[2] + lostTimers[3] + lostTimers[4]
    + lostTimers[5] + lostTimers[6] <= resumes

(* As long as nobody has resumed it, the animation by itself only ever     *)
(* moves to the next stage, wherever it was sent; two chains take turns    *)
(* and tear the story apart (lines 32-60).                                 *)
InOrderUntilResumed ==
  [][resumes = 0 /\ presses' = presses /\ stage' # stage
       => stage' = Following(stage)]_diagramVars

(* Paused means still: no timeout that was pending moves the diagram, also *)
(* none that a pause could not clear (lines 33, 50-52).                    *)
PausedIsStill ==
  [][paused = "yes" /\ presses' = presses => stage' = stage]_diagramVars

(* Left running, the diagram tells its story to the end again and again.   *)
LoopGoesOn == <>[](paused = "no") => []<>(stage = 6)

(* In each stage all parts of the drawing say the same: the ping has the   *)
(* colour of the stage bar, every figure for the replicas is the one in    *)
(* the header and none is up before the patch, the services are unhealthy  *)
(* exactly while errors are critical, a threat is shown and errors flow,   *)
(* and a pulsing node lies on a flow of its colour (lines 87-309).         *)
TellsOneStory ==
  /\ StatePing(stage) = StageColor(stage)
  /\ \A n \in Drawing(stage) :
       n.detail # 0 /\ n.name \in {"frontend", "api", "feedback"}
         => n.detail = TopReplicas(stage)
  /\ TopReplicas(stage) > 3 => KubeRequest(stage) = TopReplicas(stage)
  /\ (Health(stage) = "rose") = (ErrorMetric(stage) = "critical")
  /\ (Health(stage) = "rose") = (WidgetThreat(stage) = 1)
  /\ (Health(stage) = "rose") = (Flow(stage, "rose") # {})
  /\ \A color \in {"amber", "rose", "emerald"} :
       /\ Flow(stage, color) \subseteq Edges
       /\ stage # 6 =>
            \A n \in Pulsing(stage, color) :
              \E e \in Flow(stage, color) : n \in {e[1], e[2]}
  /\ SignalDots \subseteq Edges
=============================================================================
