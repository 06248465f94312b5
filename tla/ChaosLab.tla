------------------------------ MODULE ChaosLab ------------------------------
(***************************************************************************)
(* The simulator of the dashboard page (app/dashboard/page.tsx): traffic,  *)
(* injected faults, anomalies, the scenario runner, alerts and the pod     *)
(* autoscaler, driven by a one-second tick, by the visitor's clicks and by *)
(* the payloads of the daemon stream.                                      *)
(*                                                                         *)
(* Click handlers and the tick read the values of the render they belong   *)
(* to (seen), while the tick, the pods' interval and the stream may have   *)
(* queued newer ones; what they change they change in the newest.  Every   *)
(* commit with other pods clears the tick's interval and arms a new one,   *)
(* and the pods' interval makes another array of them every second: the    *)
(* tick fires if it is sooner than the next commit.  An update is assumed  *)
(* to be committed within a second, so no interval fires twice before it.  *)
(*                                                                         *)
(* Abstracted: disk, network and the request counter (nothing depends on   *)
(* them), the text of timeline and console, CPU to the four ranges the     *)
(* code compares it with, memory to HeapSteps steps up to the OOM kill,    *)
(* the second at which a scenario changes to its rank.                     *)
(***************************************************************************)
EXTENDS Integers, FiniteSets

CONSTANTS
  MaxPods,     (* 12 in the code                                           *)
  Baseline,    (* 3: the pods among which a target load is one             *)
  HeapSteps,   (* leaking ticks from rest to the OOM kill                  *)
  LiveCounts,  (* replica counts the stream's payloads carry, 0 included   *)
  Templates,   (* configurations found in localStorage                     *)
  MaxClicks    (* bound on the visitor's actions                           *)

ASSUME LabAssumption ==
  /\ MaxPods \in Nat /\ Baseline \in 1..MaxPods /\ 2 <= MaxPods
  /\ HeapSteps \in Nat \ {0, 1}
  /\ LiveCounts \subseteq Nat
  /\ MaxClicks \in Nat

VARIABLES
  mode, rate,      (* trafficMode and requestRate                          *)
  faults,          (* the injected failures that are on                    *)
  autoScaling,     (* autoScalingEnabled: "on" or "off"                    *)
  cpuSlider,       (* the range of sliderCpu, "auto" unless overridden     *)
  heapSlider,      (* sliderMemory in steps, Unset unless overridden       *)
  heap,            (* memory in steps                                      *)
  running, starting, (* containers: every starting pod is behind the rest  *)
  anomaly,         (* activeAnomaly                                        *)
  alerts,          (* messages of activeAlerts                             *)
  scenario, scenarioTimer,
  prevCpu,         (* prevCpuRef: the range of the last tick's finalCpu    *)
  seen,            (* what the rendered handlers see: pods and faults      *)
  fired,           (* which of the two intervals, "tick" and "pods", have  *)
                   (* fired since the last commit                          *)
  clicks,          (* actions of the visitor so far                        *)
  touched,         (* history: the visitor acted since the scenario began  *)
  lastLive         (* history: the count of the last payload applied       *)

trafficVars == <<mode, rate>>
sliderVars == <<cpuSlider, heapSlider, heap>>
podVars == <<running, starting>>
scenarioVars == <<scenario, scenarioTimer>>

labVars == <<trafficVars, faults, autoScaling, sliderVars, podVars, anomaly,
             alerts, scenarioVars, prevCpu, seen, fired, clicks, touched,
             lastLive>>

Modes == {"normal", "high", "viral", "ddos"}
Faults == {"db", "api", "auth", "timeout", "crash"}
Anomalies == {"none", "spike", "leak", "storm", "outage"}
Scenarios == {"black_friday", "db_outage", "viral_post", "ddos_attack"}
Unset == -1

RateOf(m) == CASE m = "normal" -> 100  [] m = "high" -> 1000
               [] m = "viral"  -> 5000 [] m = "ddos" -> 10000

CpuTarget(m) == CASE m = "normal" -> 25 [] m = "high" -> 50
                  [] m = "viral"  -> 85 [] m = "ddos" -> 98

HeapTarget(m) == CASE m = "normal" -> 32 [] m = "high" -> 55
                   [] m = "viral"  -> 80 [] m = "ddos" -> 92

(* The ranges of a CPU percentage: the code compares it with 30, 80, 90.   *)
CpuRange(percent) ==
  CASE percent < 30      -> "idle" [] percent \in 30..80 -> "busy"
    [] percent \in 81..89 -> "high" [] percent > 89       -> "hot"

CpuRanges == {"idle", "busy", "high", "hot"}

Pods == running + starting

(* handleSaveTemplate: the configuration of the moment.                    *)
Configurations ==
  [mode : Modes, rate : {RateOf(m) : m \in Modes}, faults : SUBSET Faults,
   autoScaling : {"on", "off"}, anomaly : Anomalies, cpuSlider : CpuRanges \cup {"auto"},
   heapSlider : Unset..HeapSteps, heap : 0..HeapSteps]

ASSUME TemplatesAssumption == Templates \subseteq Configurations

-----------------------------------------------------------------------------
LabInit ==
  /\ mode = "normal" /\ rate = 100
  /\ faults = {} /\ autoScaling = "on"
  /\ cpuSlider = "auto" /\ heapSlider = Unset /\ heap = 0
  /\ running = Baseline /\ starting = 0
  /\ anomaly = "none" /\ alerts = {}
  /\ scenario = "none" /\ scenarioTimer = 0
  /\ prevCpu = "idle"
  /\ seen = [pods |-> Baseline, running |-> Baseline, faults |-> {}]
  /\ fired = {}
  /\ clicks = 0 /\ touched = "no" /\ lastLive = Baseline

(* triggerAlert and resolveAlert: one entry to a message.                  *)
Trigger(messages) == alerts' = alerts \cup messages
Resolve(messages) == alerts' = alerts \ messages

(* setContainers: the first n of the array are kept, new ones are starting.*)
ResizePods(n) ==
  /\ running' = IF n < running THEN n ELSE running
  /\ starting' = n - running'

(* React commits: handlers see the present values, and the tick's interval *)
(* starts over.                                                            *)
Commit ==
  /\ seen' = [pods |-> running' + starting', running |-> running',
              faults |-> faults']
  /\ fired' = {}

(* A click is committed before the next event is handled.                  *)
Click ==
  /\ clicks < MaxClicks /\ clicks' = clicks + 1
  /\ touched' = "yes"
  /\ Commit
  /\ UNCHANGED <<prevCpu, lastLive>>

-----------------------------------------------------------------------------
(* The visitor's actions.                                                  *)

(* handleTrafficChange: what is not overridden moves to the mode's target. *)
HandleTrafficChange(m) ==
  /\ mode' = m /\ rate' = RateOf(m)
  /\ scenario' = "none"
  /\ heap' = IF heapSlider = Unset THEN 0 ELSE heap
  /\ UNCHANGED <<faults, autoScaling, cpuSlider, heapSlider, podVars, anomaly,
                 alerts, scenarioTimer>>

TrafficButtons == \E m \in Modes : HandleTrafficChange(m) /\ Click

(* Faults, overrides and anomaly are reset; of the traffic always the mode,*)
(* the rate only for Black Friday; pods and alerts stay as they are.       *)
RunScenario(s) ==
  /\ scenario' = s /\ scenarioTimer' = 0
  /\ faults' = {}
  /\ cpuSlider' = "auto" /\ heapSlider' = Unset
  /\ anomaly' = "none"
  /\ mode' = "normal"
  /\ rate' = IF s = "black_friday" THEN 100 ELSE rate
  /\ UNCHANGED <<autoScaling, heap, podVars, alerts>>

ScenarioButtons ==
  /\ \E s \in Scenarios : RunScenario(s)
  /\ clicks < MaxClicks /\ clicks' = clicks + 1
  /\ touched' = "no"
  /\ Commit
  /\ UNCHANGED <<prevCpu, lastLive>>

AbortButton ==
  /\ scenario # "none"
  /\ scenario' = "none"
  /\ UNCHANGED <<trafficVars, faults, autoScaling, sliderVars, podVars,
                 anomaly, alerts, scenarioTimer>>
  /\ Click

TriggerAnomaly(type) ==
  /\ anomaly' = type /\ scenario' = "none"
  /\ Trigger({type})
  /\ IF type = "spike" THEN mode' = "viral" /\ rate' = 5000
                       ELSE UNCHANGED trafficVars
  /\ cpuSlider' = IF type = "spike" /\ cpuSlider # "auto" THEN "hot" ELSE cpuSlider
  /\ faults' = faults \cup
       (CASE type = "storm"  -> {"api", "auth", "timeout"}
          [] type = "outage" -> {"db", "crash"}
          [] OTHER           -> {})
  /\ IF type = "outage" THEN ResizePods(0) ELSE UNCHANGED podVars
  /\ UNCHANGED <<autoScaling, heapSlider, heap, scenarioTimer>>

AnomalyButtons == \E type \in Anomalies \ {"none"} : TriggerAnomaly(type) /\ Click

ClearAnomaly ==
  /\ anomaly # "none"
  /\ anomaly' = "none"
  /\ faults' = {}
  /\ Resolve(Anomalies)
  /\ IF seen.pods = 0 THEN running' = 1 /\ starting' = 0 ELSE UNCHANGED podVars
  /\ UNCHANGED <<trafficVars, autoScaling, sliderVars, scenarioVars>>
  /\ Click

(* The alert of an injected fault carries the fault's own name here.       *)
ChaosToggle(f) ==
  LET on == f \notin seen.faults IN
  /\ faults' = IF on THEN faults \cup {f} ELSE faults \ {f}
  /\ IF on THEN Trigger({f}) ELSE Resolve({f})
  /\ IF f # "crash" THEN UNCHANGED podVars
     ELSE running' = (IF on THEN 0 ELSE 1) /\ starting' = 0
  /\ UNCHANGED <<trafficVars, autoScaling, sliderVars, anomaly, scenarioVars>>

ChaosToggles == \E f \in Faults : ChaosToggle(f) /\ Click

ClearFaults ==
  /\ seen.faults # {}
  /\ faults' = {}
  /\ Resolve(Faults)
  /\ UNCHANGED <<trafficVars, autoScaling, sliderVars, podVars, anomaly, scenarioVars>>
  /\ Click

(* The guard is the rendered count's, the update the current array's.      *)
HandleAddContainer ==
  /\ seen.pods < MaxPods
  /\ starting' = starting + 1
  /\ UNCHANGED <<trafficVars, faults, autoScaling, sliderVars, running,
                 anomaly, alerts, scenarioVars>>
  /\ Click

HandleRemoveContainer ==
  /\ seen.pods > 1
  /\ ResizePods(IF Pods > 0 THEN Pods - 1 ELSE 0)
  /\ UNCHANGED <<trafficVars, faults, autoScaling, sliderVars, anomaly,
                 alerts, scenarioVars>>
  /\ Click

AutoScalingButtons ==
  /\ autoScaling' \in {"on", "off"}
  /\ UNCHANGED <<trafficVars, faults, sliderVars, podVars, anomaly, alerts,
                 scenarioVars>>
  /\ Click

Sliders ==
  /\ \/ cpuSlider' \in CpuRanges /\ UNCHANGED <<heapSlider, heap>>
     \/ /\ heapSlider' \in 0..HeapSteps /\ heap' = heapSlider'
        /\ UNCHANGED cpuSlider
  /\ UNCHANGED <<trafficVars, faults, autoScaling, podVars, anomaly, alerts,
                 scenarioVars>>
  /\ Click

ResetAuto ==
  /\ cpuSlider # "auto" \/ heapSlider # Unset
  /\ cpuSlider' = "auto" /\ heapSlider' = Unset
  /\ anomaly' = "none"
  /\ UNCHANGED <<trafficVars, faults, autoScaling, heap, podVars, alerts, scenarioVars>>
  /\ Click

(* handleLoadTemplate: the whole configuration, but neither pods nor alerts.*)
HandleLoadTemplate(t) ==
  /\ mode' = t.mode /\ rate' = t.rate /\ faults' = t.faults
  /\ autoScaling' = t.autoScaling /\ anomaly' = t.anomaly
  /\ cpuSlider' = t.cpuSlider /\ heapSlider' = t.heapSlider /\ heap' = t.heap
  /\ scenario' = "none"
  /\ UNCHANGED <<podVars, alerts, scenarioTimer>>

TemplateButtons == \E t \in Templates : HandleLoadTemplate(t) /\ Click

Visitor ==
  \/ TrafficButtons \/ ScenarioButtons \/ AbortButton \/ AnomalyButtons
  \/ ClearAnomaly \/ ChaosToggles \/ ClearFaults \/ HandleAddContainer
  \/ HandleRemoveContainer \/ AutoScalingButtons \/ Sliders \/ ResetAuto
  \/ TemplateButtons

-----------------------------------------------------------------------------
(* The scenario's timer as this tick advances it.                          *)
FaultyElapsed == 1

Elapsed == scenarioTimer + 1

(* The timeline of a scenario: what it does as its timer reaches a rank.   *)
Quiet(m, r, fs, as) ==
  [mode |-> m, rate |-> r, faults |-> fs, alerts |-> as, next |-> scenario]

Unchanged == Quiet(mode, rate, faults, alerts)

Traffic(m) == [Unchanged EXCEPT !.mode = m, !.rate = RateOf(m)]

Over == [Unchanged EXCEPT !.next = "none"]

BlackFriday(at) ==
  CASE at = 1 -> Traffic("high") [] at = 2 -> Traffic("viral")
    [] at = 3 -> Traffic("normal") [] at >= 4 -> Over [] OTHER -> Unchanged

DbOutage(at) ==
  CASE at = 1 -> Quiet(mode, rate, faults \cup {"db"}, alerts \cup {"db"})
    [] at = 2 -> Quiet(mode, rate, faults \ {"db"}, alerts \ {"db"})
    [] at >= 3 -> Over [] OTHER -> Unchanged

ViralPost(at) ==
  CASE at = 1 -> Traffic("viral") [] at = 2 -> Traffic("normal")
    [] at >= 3 -> Over [] OTHER -> Unchanged

FaultyDdosAttack(at) ==
  CASE at = 1 -> Quiet("ddos", 10000, faults \cup {"auth", "timeout"}, alerts \cup {"ddos"})
    [] at = 2 -> Unchanged
    [] at = 3 -> Quiet("normal", 100, faults, alerts \ {"ddos"})
    [] at >= 4 -> Over [] OTHER -> Unchanged

DdosAttack(at) ==
  CASE at = 1 -> Quiet("ddos", 10000, faults \cup {"auth", "timeout"}, alerts \cup {"ddos"})
    [] at = 2 -> Quiet(mode, rate, faults \ {"auth", "timeout"}, alerts)
    [] at = 3 -> Quiet("normal", 100, faults, alerts \ {"ddos"})
    [] at >= 4 -> Over [] OTHER -> Unchanged

ScenarioStage(at) ==
  CASE scenario = "none"         -> Unchanged
    [] scenario = "black_friday" -> BlackFriday(at)
    [] scenario = "db_outage"    -> DbOutage(at)
    [] scenario = "viral_post"   -> ViralPost(at)
    [] scenario = "ddos_attack"  -> DdosAttack(at)

(* A target among the running pods, in percent, clamped to 100.            *)
Spread(target) ==
  LET pods == IF seen.running = 0 THEN 1 ELSE seen.running
      load == (2 * target * Baseline + pods) \div (2 * pods)
  IN  IF load > 100 THEN 100 ELSE load

FinalCpu == IF cpuSlider # "auto" THEN cpuSlider ELSE CpuRange(Spread(CpuTarget(mode)))

(* Memory at rest is below the OOM limit, unless its target spreads over   *)
(* too few pods.                                                           *)
FinalHeap == IF heapSlider # Unset THEN heapSlider
             ELSE IF Spread(HeapTarget(mode)) >= 98 THEN HeapSteps ELSE 0

Leaking == anomaly = "leak"

FaultyLeaked == heap + 1

Leaked == IF heap < HeapSteps THEN heap + 1 ELSE HeapSteps

OutOfMemory == Leaking /\ Leaked = HeapSteps

Recovered == "crash" \in faults /\ seen.pods > 0

(* Error percentages, in tenths: 100 points make an elevated rate.         *)
ErrorRate ==
  IF "crash" \in faults \/ seen.pods = 0 THEN 1000
  ELSE 2 + (IF "db" \in faults THEN 750 ELSE 0) + (IF "api" \in faults THEN 180 ELSE 0)
         + (IF "auth" \in faults THEN 95 ELSE 0) + (IF "timeout" \in faults THEN 120 ELSE 0)

(* The jitter moves the rate by a tenth of a point at most either way.     *)
ErrorsElevated == ErrorRate >= 100 /\ faults \cap {"db", "crash"} = {}

FaultyTickAlerts(now) ==
  ((now \ (IF Recovered THEN {"oom", "outage"} ELSE {}))
      \cup (IF OutOfMemory THEN {"oom"} ELSE {})
      \cup (IF FinalCpu = "hot" THEN {"cpu"} ELSE {})
      \cup (IF ErrorsElevated THEN {"errors"} ELSE {}))

TickAlerts(now) ==
  ((now \ ({"cpu", "errors"} \cup (IF Recovered THEN {"oom", "outage"} ELSE {})))
      \cup (IF OutOfMemory THEN {"oom"} ELSE {})
      \cup (IF FinalCpu = "hot" THEN {"cpu"} ELSE {})
      \cup (IF ErrorsElevated THEN {"errors"} ELSE {}))

FaultyAutoscaled == IF FinalCpu \in {"high", "hot"} \/ rate > 4000 THEN Pods + 1 ELSE Pods

(* The rendered count decides, the newest array is added to or cut.        *)
Autoscaled ==
  IF autoScaling = "off" \/ "crash" \in faults \/ seen.pods = 0 THEN Pods
  ELSE IF FinalCpu \in {"high", "hot"} \/ rate > 4000
       THEN IF seen.pods < MaxPods THEN Pods + 1 ELSE Pods
  ELSE IF FinalCpu = "idle" /\ rate < 1500 /\ seen.pods > 2 /\ Pods > 0
       THEN Pods - 1 ELSE Pods

(* The one-second interval, in the closure of the last commit: the pods it *)
(* counts are the rendered ones, all else it reads has not changed since.  *)
(* Everything but the scenario's own changes is computed from the values   *)
(* before it, and an OOM kill empties the pods after the autoscaler's      *)
(* change.                                                                 *)
LabTick ==
  /\ "tick" \notin fired /\ fired' = fired \cup {"tick"}
  /\ LET s == ScenarioStage(Elapsed) IN
     /\ scenarioTimer' = IF scenario = "none" THEN scenarioTimer ELSE Elapsed
     /\ scenario' = s.next /\ mode' = s.mode /\ rate' = s.rate
     /\ faults' = (s.faults \ (IF Recovered THEN {"crash"} ELSE {}))
                     \cup (IF OutOfMemory THEN {"crash"} ELSE {})
     /\ alerts' = TickAlerts(s.alerts)
  /\ heap' = IF OutOfMemory THEN 0 ELSE IF Leaking THEN Leaked ELSE FinalHeap
  /\ heapSlider' = IF Leaking /\ heapSlider # Unset THEN Leaked ELSE heapSlider
  /\ prevCpu' = FinalCpu
  /\ ResizePods(IF OutOfMemory THEN 0 ELSE Autoscaled)
  /\ UNCHANGED <<autoScaling, cpuSlider, anomaly, seen, clicks, touched, lastLive>>

(* The interval that lets pods finish starting, the oldest first.  Whether *)
(* or not any is old enough, it makes another array of them.               *)
PodsInterval ==
  /\ "pods" \notin fired /\ fired' = fired \cup {"pods"}
  /\ \E n \in 0..starting : running' = running + n /\ starting' = starting - n
  /\ UNCHANGED <<trafficVars, faults, autoScaling, sliderVars, anomaly, alerts,
                 scenarioVars, prevCpu, seen, clicks, touched, lastLive>>

(* onMessage: the pod list takes the length the payload names.             *)
FaultyOnPayload ==
  \E n \in LiveCounts \ {0} :
    /\ Pods > 0
    /\ ResizePods(n) /\ lastLive' = n
    /\ UNCHANGED <<trafficVars, faults, autoScaling, sliderVars, anomaly,
                   alerts, scenarioVars, prevCpu, seen, fired, clicks, touched>>

OnPayload ==
  \E n \in LiveCounts \ {0} :
    /\ ResizePods(n) /\ lastLive' = n
    /\ UNCHANGED <<trafficVars, faults, autoScaling, sliderVars, anomaly,
                   alerts, scenarioVars, prevCpu, seen, fired, clicks, touched>>

Render ==
  /\ UNCHANGED <<trafficVars, faults, autoScaling, sliderVars, podVars, anomaly,
                 alerts, scenarioVars, prevCpu, clicks, touched, lastLive>>
  /\ Commit
  /\ <<seen', fired'>> # <<seen, fired>>

LabNext == Visitor \/ LabTick \/ PodsInterval \/ OnPayload \/ Render

-----------------------------------------------------------------------------
LabTypeOK ==
  /\ mode \in Modes /\ rate \in {RateOf(m) : m \in Modes}
  /\ faults \subseteq Faults /\ autoScaling \in {"on", "off"}
  /\ cpuSlider \in CpuRanges \cup {"auto"}
  /\ heapSlider \in Unset..HeapSteps /\ heap \in 0..HeapSteps
  /\ running \in Nat /\ starting \in Nat
  /\ anomaly \in Anomalies
  /\ alerts \subseteq Faults \cup Anomalies \cup {"oom", "ddos", "cpu", "errors"}
  /\ scenario \in Scenarios \cup {"none"} /\ scenarioTimer \in Nat
  /\ prevCpu \in CpuRanges
  /\ seen.pods \in Nat /\ seen.running \in Nat /\ seen.faults \subseteq Faults
  /\ fired \subseteq {"tick", "pods"}
  /\ clicks \in 0..MaxClicks /\ touched \in {"yes", "no"} /\ lastLive \in Nat

(* "({containers.length} / 12)" (line 1397): the limit is tested on what   *)
(* was rendered, by the tick and by the button, and a payload, which is    *)
(* not limited, may name any count.  On a render that shows room after a   *)
(* payload filled the array the tick adds a pod and a click another one:   *)
(* two are the most there are too many, since either fires at most once on *)
(* a render (lines 270-287, 529-532, 812-824).                             *)
PodsBounded ==
  Pods <= (IF lastLive > MaxPods THEN lastLive ELSE MaxPods) + 2

(* The High-CPU alert is there exactly while the last measured CPU was at  *)
(* 90% or more, whatever mode, template, slider or pod count made it so    *)
(* (lines 783-787, 804).                                                   *)
CpuAlertIsCurrent == "cpu" \in alerts <=> prevCpu = "hot"

(* A scenario left alone ends in the state it came to demonstrate recovery *)
(* of: normal traffic, no fault, and the alerts it raised resolved; only   *)
(* an outage run after other traffic keeps that traffic's rate.            *)
ScenarioRestores ==
  [][scenario # "none" /\ scenario' = "none" /\ touched' = "no"
       => /\ mode' = "normal" /\ faults' = {}
          /\ scenario # "db_outage" => rate' = 100
          /\ scenario = "db_outage" => "db" \notin alerts'
          /\ scenario = "ddos_attack" => "ddos" \notin alerts']_labVars

(* Every scenario ends: completed, aborted or replaced (lines 589-684).    *)
ScenarioEnds == scenario # "none" ~> scenario = "none"

(* However it was emptied or crashed (anomaly, toggle, OOM kill, a click   *)
(* or a tick that outran a payload), the cluster comes back by itself: the *)
(* next payload brings pods, the next tick on a render of them then clears *)
(* the crash, also where a reset left it empty and not crashed, which the  *)
(* autoscaler never repairs (lines 270-287, 737-742, 812).  A leak kills   *)
(* it again.                                                               *)
ClusterRevives ==
  Pods = 0 \/ "crash" \in faults
    ~> (Pods > 0 /\ "crash" \notin faults) \/ anomaly = "leak"

(* What both need: the commits leave the tick its time again and again.    *)
TickGoesOn == []<>("tick" \in fired)
=============================================================================
