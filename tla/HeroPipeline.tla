----------------------------- MODULE HeroPipeline -----------------------------
(***************************************************************************)
(* The pipeline of the landing page (components/flow/HeroPipelineFlow.tsx, *)
(* PipelineNode.tsx): four scenarios shown in turn by an effect that arms  *)
(* a timeout for the next one, tabs that pick one and stop, a play button, *)
(* and a drawing of five nodes and four beams derived from the scenario.   *)
(*                                                                         *)
(* React runs a pending effect before it handles the next event, so the    *)
(* effect belongs to the action that causes it.  Texts are abstracted to   *)
(* what they claim, the colours of the beams to warm, cool and grey; the   *)
(* pipeline is given no selection handler, so no node is drawn selected.   *)
(***************************************************************************)
EXTENDS Integers, FiniteSets

CONSTANT MaxHeroClicks   (* bound on the visitor's actions                 *)

ASSUME HeroAssumption == MaxHeroClicks \in Nat

VARIABLES
  scenarioIndex,
  isPlaying,       (* "yes" or "no"                                        *)
  heroTimeouts,    (* pending timeouts                                     *)
  selectedNodeId,
  heroSnapshot,    (* the telemetry last copied                            *)
  heroClicks

heroVars == <<scenarioIndex, isPlaying, heroTimeouts, selectedNodeId,
              heroSnapshot, heroClicks>>

(* SCENARIOS: what each claims.  replicas counts the pods that serve; goal *)
(* is a target announced beside them.                                      *)
Telemetry ==
  <<[badge |-> "stable", accent |-> "green", replicas |-> 3, goal |-> 3,
     load |-> 48, slow |-> "no", attackers |-> 0],
    [badge |-> "spike", accent |-> "amber", replicas |-> 3, goal |-> 9,
     load |-> 1400, slow |-> "yes", attackers |-> 0],
    [badge |-> "mitigated", accent |-> "rose", replicas |-> 3, goal |-> 3,
     load |-> 2800, slow |-> "yes", attackers |-> 1],
    [badge |-> "mutated", accent |-> "cyan", replicas |-> 9, goal |-> 9,
     load |-> 1400, slow |-> "no", attackers |-> 0]>>

ScenarioIds == 0..3
Current == Telemetry[scenarioIndex + 1]
HeroNodes == {"pods", "socket", "engine", "metrics", "threat"}

HeroInit ==
  /\ scenarioIndex = 0 /\ isPlaying = "yes" /\ heroTimeouts = 1
  /\ selectedNodeId = "none" /\ heroSnapshot = "none" /\ heroClicks = 0

(* The effect of [scenarioIndex, isPlaying]: clear what the last run armed,*)
(* arm a new timeout if the sequence plays.                                *)
FaultyAutoCycle(index, playing) ==
  heroTimeouts' = heroTimeouts + (IF playing = "yes" THEN 1 ELSE 0)

AutoCycle(index, playing) ==
  heroTimeouts' =
    IF <<index, playing>> = <<scenarioIndex, isPlaying>> THEN heroTimeouts
    ELSE IF playing = "yes" THEN 1 ELSE 0

FaultyTimeoutFires ==
  /\ heroTimeouts > 0
  /\ scenarioIndex' = (scenarioIndex + 1) % 3
  /\ heroTimeouts' = 1
  /\ UNCHANGED <<isPlaying, selectedNodeId, heroSnapshot, heroClicks>>

(* The timeout is spent before the effect runs again.                      *)
TimeoutFires ==
  /\ heroTimeouts > 0
  /\ scenarioIndex' = (scenarioIndex + 1) % 4
  /\ heroTimeouts' = IF isPlaying = "yes" THEN 1 ELSE 0
  /\ UNCHANGED <<isPlaying, selectedNodeId, heroSnapshot, heroClicks>>

HeroClick == heroClicks < MaxHeroClicks /\ heroClicks' = heroClicks + 1

SelectTab(id) ==
  /\ HeroClick
  /\ scenarioIndex' = id /\ isPlaying' = "no"
  /\ AutoCycle(id, "no")
  /\ UNCHANGED <<selectedNodeId, heroSnapshot>>

TogglePlay ==
  /\ HeroClick
  /\ isPlaying' = IF isPlaying = "yes" THEN "no" ELSE "yes"
  /\ AutoCycle(scenarioIndex, isPlaying')
  /\ UNCHANGED <<scenarioIndex, selectedNodeId, heroSnapshot>>

OnNodeClick(node) ==
  /\ HeroClick
  /\ selectedNodeId' = IF selectedNodeId = node THEN "none" ELSE node
  /\ UNCHANGED <<scenarioIndex, isPlaying, heroTimeouts, heroSnapshot>>

HandleCopyTelemetry ==
  /\ HeroClick
  /\ heroSnapshot' = Current.badge
  /\ UNCHANGED <<scenarioIndex, isPlaying, heroTimeouts, selectedNodeId>>

HeroNext ==
  \/ TimeoutFires \/ TogglePlay \/ HandleCopyTelemetry
  \/ \E id \in ScenarioIds : SelectTab(id)
  \/ \E node \in HeroNodes : OnNodeClick(node)

-----------------------------------------------------------------------------
(* The nodes: their status dot, whether they pulse or alert, what they say.*)
PlainNode(dot, says) == [dot |-> dot, pulse |-> "no", alert |-> "no", says |-> says]

Pulse(node, on) == [node EXCEPT !.pulse = IF on THEN "yes" ELSE "no"]
Alert(node, on) == [node EXCEPT !.alert = IF on THEN "yes" ELSE "no"]

Spiking == scenarioIndex = 1
Attacked == scenarioIndex = 2

DrawnNodes ==
  [pods    |-> PlainNode(IF Spiking THEN "amber" ELSE "green", Current.replicas),
   socket  |-> PlainNode("sky", Current.load),
   engine  |-> Alert(Pulse(PlainNode(Current.accent, Current.badge), Spiking), Attacked),
   metrics |-> Pulse(PlainNode(IF Spiking THEN "amber" ELSE "green", Current.slow), Spiking),
   threat  |-> Alert(PlainNode(IF Attacked THEN "rose" ELSE "grey", Current.attackers), Attacked)]

(* PipelineNode: an alert outranks a pulse.                                *)
Look(node) == IF node.alert = "yes" THEN "rose"
              ELSE IF node.pulse = "yes" THEN "amber" ELSE "plain"

(* The beams: where each leads, its colour, its period in tenths of a      *)
(* second.                                                                 *)
Beam(source, target, colour, period) ==
  [from |-> source, to |-> target, colour |-> colour, period |-> period]

Chain(colour, first, second) ==
  {Beam("pods", "socket", colour, first), Beam("socket", "engine", colour, second)}

SteadyBeams ==
  Chain("cool", 28, 24) \cup
    {Beam("engine", "metrics", "cool", 30), Beam("engine", "threat", "cool", 32)}

FaultySpikeBeams ==
  Chain("warm", 12, 10) \cup
    {Beam("engine", "metrics", "grey", 35), Beam("engine", "threat", "warm", 11)}

SpikeBeams ==
  Chain("warm", 12, 10) \cup
    {Beam("engine", "metrics", "warm", 11), Beam("engine", "threat", "grey", 35)}

AttackBeams ==
  Chain("warm", 12, 10) \cup
    {Beam("engine", "metrics", "grey", 35), Beam("engine", "threat", "warm", 9)}

MutatedBeams ==
  Chain("cool", 20, 18) \cup
    {Beam("engine", "metrics", "cool", 22), Beam("engine", "threat", "cool", 25)}

DrawnBeams ==
  CASE scenarioIndex = 0 -> SteadyBeams  [] scenarioIndex = 1 -> SpikeBeams
    [] scenarioIndex = 2 -> AttackBeams  [] scenarioIndex = 3 -> MutatedBeams

-----------------------------------------------------------------------------
HeroTypeOK ==
  /\ scenarioIndex \in ScenarioIds /\ isPlaying \in {"yes", "no"}
  /\ heroTimeouts \in Nat
  /\ selectedNodeId \in HeroNodes \cup {"none"}
  /\ heroSnapshot \in {t.badge : t \in {Telemetry[k] : k \in 1..4}} \cup {"none"}
  /\ heroClicks \in 0..MaxHeroClicks

(* However tabs, play and the timeout interleave there is exactly one      *)
(* pending timeout while the sequence plays and none while it does not, so *)
(* it never runs double and a picked scenario stays (lines 105-112).       *)
OneTimeoutWhilePlaying == heroTimeouts = IF isPlaying = "yes" THEN 1 ELSE 0

(* Left playing, the sequence shows every scenario again and again.        *)
CycleVisitsAll ==
  <>[](isPlaying = "yes") => \A id \in ScenarioIds : []<>(scenarioIndex = id)

(* The drawing of a scenario is one story: a node stands out exactly when  *)
(* the badge says so and in the scenario's colour, the beam to it is warm  *)
(* and the fastest that leaves the engine, a grey beam leads to a node     *)
(* that does not stand out, more load never has slower beams, and a threat *)
(* is counted exactly while the shield alerts (lines 41-424).              *)
PipelineTellsOneStory ==
  LET Stands(n) == Look(DrawnNodes[n]) # "plain" IN
  /\ Stands("engine") = (Current.badge \in {"spike", "mitigated"})
  /\ \A n \in HeroNodes : Stands(n) => Look(DrawnNodes[n]) = Current.accent
  /\ \A b \in DrawnBeams :
       /\ b.colour = "grey" => ~Stands(b.to)
       /\ Stands(b.to) /\ b.from = "engine" =>
            /\ b.colour = "warm"
            /\ \A c \in DrawnBeams : c.from = "engine" => b.period <= c.period
       /\ \A s \in SteadyBeams :
            s.from = b.from /\ s.to = b.to /\ b.colour # "grey" => b.period <= s.period
  /\ (Look(DrawnNodes["threat"]) = "rose") = (Current.attackers > 0)
=============================================================================
