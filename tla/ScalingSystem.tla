---------------------------- MODULE ScalingSystem ----------------------------
(***************************************************************************)
(* Daemon and controller together.  Each owns a DecisionEngine: the daemon *)
(* (server.go) evaluates its own count against the short window, and the   *)
(* controller (controller.go) evaluates the count THE DAEMON REPORTS       *)
(* against the status window, then patches the workload.  The daemon's     *)
(* count is no measurement of the workload: nothing ever feeds the one     *)
(* back into the other.                                                    *)
(*                                                                         *)
(* The daemon's evaluation is one step, as ScalingLoop has it.  The        *)
(* controller takes two: the daemon's answer, and the Step that acts on it *)
(* later, between which the daemon may evaluate, the threat change, time   *)
(* pass and either process restart.  The daemon answers its polls, so the  *)
(* breaker, which Controller models, stays CLOSED.  The workload is        *)
(* external: it has the count it was last patched to.                      *)
(***************************************************************************)
EXTENDS Naturals

CONSTANTS
  DaemonMin, DaemonMax, DaemonPodCapacity,             (* daemon flags     *)
  ControllerMin, ControllerMax, ControllerPodCapacity, (* defaultSpec      *)
  HeadroomNum, HeadroomDen, ScaleUpCooldown, ScaleDownCooldown,
  Loads (* request rates a window can show *)

ASSUME SystemAssumption ==
  /\ {DaemonMin, DaemonMax, DaemonPodCapacity, ControllerMin, ControllerMax,
      ControllerPodCapacity, HeadroomNum, ScaleUpCooldown, ScaleDownCooldown}
       \subseteq Nat
  /\ HeadroomDen \in Nat \ {0}
  /\ DaemonMin <= DaemonMax /\ ControllerMin <= ControllerMax
  /\ Loads \subseteq Nat

VARIABLES
  daemonType, daemonAge, (* the daemon's engine                             *)
  currentReplicas,       (* the daemon's count, reported to the controller  *)
  ctrlType, ctrlAge,     (* the controller's engine                         *)
  activeReplicas,        (* the controller's memory of its last patch       *)
  loop, report,          (* the controller's loop, and the answer it holds  *)
  workload,              (* external: replicas of the target Deployment     *)
  shortLoad, statusLoad, (* rate in the daemon's and the status window      *)
  lock,                  (* "held" while IsScaleDownLocked() answers true   *)
  patchAge,              (* history: ticks since the workload's last patch  *)
  patchedBy              (* history: whether the controller that sent it    *)
                         (* still runs, "this", or was restarted, "former"  *)

daemonVars == <<daemonType, daemonAge, currentReplicas>>
ctrlVars == <<ctrlType, ctrlAge, activeReplicas>>
pollVars == <<loop, report>>
workloadVars == <<workload, patchAge, patchedBy>>
trafficVars == <<shortLoad, statusLoad, lock>>

vars == <<daemonVars, ctrlVars, pollVars, workloadVars, trafficVars>>

Daemon == INSTANCE DecisionEngine WITH
  MinReplicas <- DaemonMin, MaxReplicas <- DaemonMax,
  PodCapacity <- DaemonPodCapacity,
  lastScaleType <- daemonType, scaleAge <- daemonAge

Ctrl == INSTANCE DecisionEngine WITH
  MinReplicas <- ControllerMin, MaxReplicas <- ControllerMax,
  PodCapacity <- ControllerPodCapacity,
  lastScaleType <- ctrlType, scaleAge <- ctrlAge

NoReport == [count |-> 0, load |-> 0, lock |-> "free"]

Init ==
  /\ Daemon!EngineInit /\ currentReplicas = DaemonMin
  /\ Ctrl!EngineInit /\ activeReplicas = ControllerMin
  /\ loop = "wait" /\ report = NoReport
  /\ workload = ControllerMin
  /\ patchAge = Ctrl!LongestCooldown /\ patchedBy = "this"
  /\ shortLoad \in Loads /\ statusLoad = shortLoad
  /\ lock = "free"

-----------------------------------------------------------------------------
(* The daemon's evaluation tick.                                           *)
DaemonEvaluates ==
  LET d == Daemon!Decide(currentReplicas, shortLoad, lock = "held") IN
  /\ Daemon!Remember(d)
  /\ currentReplicas' = IF Daemon!Scales(d) THEN d.desired ELSE currentReplicas
  /\ UNCHANGED <<ctrlVars, pollVars, workloadVars, trafficVars>>

(* The daemon's answer to a poll, composed under its read lock.            *)
FetchTelemetry ==
  /\ loop = "wait"
  /\ loop' = "step"
  /\ report' = [count |-> currentReplicas, load |-> statusLoad, lock |-> lock]
  /\ UNCHANGED <<daemonVars, ctrlVars, workloadVars, trafficVars>>

(* The count a Step compares with the demand: the reported one if there is *)
(* one, else that of the last patch.                                       *)
Current == IF report.count > 0 THEN report.count ELSE activeReplicas

LockBlindDecision == Ctrl!Decide(Current, report.load, FALSE)

StepDecision == Ctrl!Decide(Current, report.load, report.lock = "held")

(* A dispatched patch sets the workload's count.                           *)
Patch(d) ==
  IF Ctrl!Scales(d)
  THEN /\ workload' = d.desired /\ activeReplicas' = d.desired
       /\ patchAge' = 0 /\ patchedBy' = "this"
  ELSE UNCHANGED <<activeReplicas, workloadVars>>

Step ==
  /\ loop = "step"
  /\ LET d == StepDecision IN Ctrl!Remember(d) /\ Patch(d)
  /\ loop' = "wait" /\ report' = NoReport
  /\ UNCHANGED <<daemonVars, trafficVars>>

(* The traffic or the threat changes.                                      *)
TrafficChanges ==
  /\ shortLoad' \in Loads
  /\ lock' \in {"held", "free"}
  /\ UNCHANGED <<daemonVars, ctrlVars, pollVars, workloadVars, statusLoad>>

(* The longer window catches up with the shorter one.                      *)
WindowSlides ==
  /\ statusLoad' = shortLoad
  /\ UNCHANGED <<daemonVars, ctrlVars, pollVars, workloadVars, shortLoad, lock>>

(* Nothing is persisted: a restarted process forgets count and cooldown,   *)
(* a restarted daemon its windows and the threat as well, and a restarted  *)
(* controller the answer it was about to act on.                           *)
DaemonRestarts ==
  /\ daemonType' = "none" /\ daemonAge' = Daemon!LongestCooldown
  /\ currentReplicas' = DaemonMin
  /\ shortLoad' = 0 /\ statusLoad' = 0
  /\ lock' = "free"
  /\ UNCHANGED <<ctrlVars, pollVars, workloadVars>>

CtrlRestarts ==
  /\ ctrlType' = "none" /\ ctrlAge' = Ctrl!LongestCooldown
  /\ activeReplicas' = ControllerMin
  /\ loop' = "wait" /\ report' = NoReport
  /\ patchedBy' = "former"
  /\ UNCHANGED <<daemonVars, workload, patchAge, trafficVars>>

Tick ==
  /\ Daemon!AgeEngine /\ Ctrl!AgeEngine
  /\ patchAge' = IF patchAge < Ctrl!LongestCooldown THEN patchAge + 1 ELSE patchAge
  /\ UNCHANGED <<currentReplicas, activeReplicas, pollVars, workload, patchedBy,
                 trafficVars>>

Restart == DaemonRestarts \/ CtrlRestarts

(* What happens while both processes live.                                 *)
CalmNext ==
  \/ DaemonEvaluates \/ FetchTelemetry \/ Step \/ Tick
  \/ TrafficChanges \/ WindowSlides

Next == CalmNext \/ Restart

(* Both tickers fire and time passes for as long as the processes run.     *)
Fairness ==
  /\ WF_vars(DaemonEvaluates) /\ WF_vars(FetchTelemetry) /\ WF_vars(Step)
  /\ WF_vars(Tick)

Spec == Init /\ [][Next]_vars

FairSpec == Spec /\ Fairness

CalmSpec == Init /\ [][CalmNext]_vars /\ Fairness

-----------------------------------------------------------------------------
TypeOK ==
  /\ Daemon!EngineTypeOK /\ Ctrl!EngineTypeOK
  /\ currentReplicas \in DaemonMin..DaemonMax
  /\ activeReplicas \in ControllerMin..ControllerMax
  /\ workload \in ControllerMin..ControllerMax
  /\ loop \in {"wait", "step"}
  /\ report \in [count : DaemonMin..DaemonMax \cup {0}, load : Loads \cup {0},
                 lock : {"held", "free"}]
  /\ patchAge \in 0..Ctrl!LongestCooldown /\ patchedBy \in {"this", "former"}
  /\ {shortLoad, statusLoad} \subseteq Loads \cup {0}
  /\ lock \in {"held", "free"}

(* Both windows show load l for good, with no threat and no restart.       *)
Steady(l) ==
  /\ <>[](shortLoad = l /\ statusLoad = l /\ lock = "free")
  /\ <>[][~Restart]_vars

(* Under a steady load on which the two engines disagree, the workload     *)
(* ends at what the controller's policy asks for, wherever restarts, locks *)
(* and cooldowns had left the two counts.                                  *)
FollowsWhereEnginesDiffer ==
  \A l \in {m \in Loads : Daemon!Desired(m) # Ctrl!Desired(m)} :
    Steady(l) => <>[](workload = Ctrl!Desired(l))

(* A patch that takes replicas away under a held lock keeps more than the  *)
(* daemon has at that moment: neither cooldowns nor restarts of either     *)
(* process let the controller cut beneath its count (scaler.go:106-111).   *)
(* Only an answer that is out of date when Step acts on it can: the daemon *)
(* raised its count, or the lock engaged, after it was composed            *)
(* (controller.go:266, 281).                                               *)
LockKeepsReportedCount ==
  [][lock = "held" /\ workload' < workload
       => \/ workload' > currentReplicas
          \/ currentReplicas > report.count
          \/ report.lock = "free"]_vars

(* A cut of the workload comes a whole down cooldown after its last patch. *)
(* Two things pass by it: the first patch of a restarted controller, which *)
(* has forgotten the one before, and a raise of the count the daemon       *)
(* reports that lies below what the workload has (scaler.go:88-118,        *)
(* reconciler.go:27-35).  One restart allows one early cut and no more.    *)
CutsSpaced ==
  [][workload' < workload
       => \/ patchAge >= ScaleDownCooldown
          \/ patchedBy = "former"
          \/ workload' > report.count]_vars

(* "Go reconciler loop evaluating current vs. desired replicas"            *)
(* (ROADMAP.md:70): under a steady load the workload ends at the desired   *)
(* count.  The "current" the code evaluates is the daemon's own count, and *)
(* once that agrees with the controller's demand no patch is sent.         *)
WorkloadFollowsLoad ==
  \A l \in Loads : Steady(l) => <>[](workload = Ctrl!Desired(l))

=============================================================================
