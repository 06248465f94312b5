------------------------ MODULE ScalingSystemProofs ------------------------
(***************************************************************************)
(* Daemon and controller together, for every pair of policies, every set   *)
(* of loads and every pair of cooldowns: the types and bounds of the three *)
(* counts, what a patch under the lock may cut, and how cuts are spaced.   *)
(***************************************************************************)
EXTENDS ScalingSystem, TLAPS

(* What is proved of any engine, about the daemon's and the controller's.  *)
DaemonFacts == INSTANCE DecisionEngineProofs WITH
  MinReplicas <- DaemonMin, MaxReplicas <- DaemonMax,
  PodCapacity <- DaemonPodCapacity,
  lastScaleType <- daemonType, scaleAge <- daemonAge

CtrlFacts == INSTANCE DecisionEngineProofs WITH
  MinReplicas <- ControllerMin, MaxReplicas <- ControllerMax,
  PodCapacity <- ControllerPodCapacity,
  lastScaleType <- ctrlType, scaleAge <- ctrlAge

LEMMA PoliciesHold ==
  DaemonFacts!PolicyAssumption /\ CtrlFacts!PolicyAssumption
BY SystemAssumption DEF DaemonFacts!PolicyAssumption, CtrlFacts!PolicyAssumption

-----------------------------------------------------------------------------
(* A decision that scales asks for a count within the engine's bounds,     *)
(* which is above the present one unless there is no lock.                 *)
LEMMA DaemonScales ==
  ASSUME NEW c \in Nat, NEW l \in Nat, NEW locked \in BOOLEAN,
         Daemon!Scales(Daemon!Decide(c, l, locked))
  PROVE  Daemon!Decide(c, l, locked).desired \in DaemonMin..DaemonMax
<1> DEFINE d == DaemonFacts!Decide(c, l, locked)
<1>1. Daemon!Decide(c, l, locked) = d
  BY DEF Daemon!Decide, Daemon!Decision, Daemon!Desired, Daemon!Clamp,
         Daemon!RawDesired, Daemon!UpCoolingDown, Daemon!DownCoolingDown,
         DaemonFacts!Decide, DaemonFacts!Decision, DaemonFacts!Desired,
         DaemonFacts!Clamp, DaemonFacts!RawDesired,
         DaemonFacts!UpCoolingDown, DaemonFacts!DownCoolingDown
<1>2. DaemonFacts!Desired(l) \in DaemonMin..DaemonMax
  BY PoliciesHold, SystemAssumption, DaemonFacts!DesiredInBounds
<1>3. \/ d = DaemonFacts!Decision("SCALE_UP", DaemonFacts!Desired(l))
      \/ d = DaemonFacts!Decision("SCALE_DOWN", DaemonFacts!Desired(l))
      \/ d = DaemonFacts!Decision("MAINTAIN", c)
      \/ d = DaemonFacts!Decision("LOCKED", c)
  <2> HIDE DEF d
  <2>1. d = DaemonFacts!Decide(c, l, locked)
    BY DEF d
  <2> QED
    BY <2>1, PoliciesHold, SystemAssumption, DaemonFacts!DecisionShape
<1> HIDE DEF d
<1>4. d.action \in {"SCALE_UP", "SCALE_DOWN"}
  BY <1>1 DEF Daemon!Scales
<1> QED
  BY <1>1, <1>2, <1>3, <1>4 DEF DaemonFacts!Decision

LEMMA CtrlScales ==
  ASSUME NEW c \in Nat, NEW l \in Nat, NEW locked \in BOOLEAN,
         Ctrl!Scales(Ctrl!Decide(c, l, locked))
  PROVE  /\ Ctrl!Decide(c, l, locked).desired \in ControllerMin..ControllerMax
         /\ \/ Ctrl!Decide(c, l, locked).desired > c
            \/ ~locked /\ ~Ctrl!DownCoolingDown
<1> DEFINE d == CtrlFacts!Decide(c, l, locked)
<1>1. Ctrl!Decide(c, l, locked) = d
  BY DEF Ctrl!Decide, Ctrl!Decision, Ctrl!Desired, Ctrl!Clamp,
         Ctrl!RawDesired, Ctrl!UpCoolingDown, Ctrl!DownCoolingDown,
         CtrlFacts!Decide, CtrlFacts!Decision, CtrlFacts!Desired,
         CtrlFacts!Clamp, CtrlFacts!RawDesired,
         CtrlFacts!UpCoolingDown, CtrlFacts!DownCoolingDown
<1>2. CtrlFacts!Desired(l) \in ControllerMin..ControllerMax
  BY PoliciesHold, SystemAssumption, CtrlFacts!DesiredInBounds
<1>3. \/ /\ d = CtrlFacts!Decision("SCALE_UP", CtrlFacts!Desired(l))
         /\ CtrlFacts!Desired(l) > c
      \/ /\ d = CtrlFacts!Decision("SCALE_DOWN", CtrlFacts!Desired(l))
         /\ ~locked /\ ~CtrlFacts!DownCoolingDown
      \/ d = CtrlFacts!Decision("MAINTAIN", c)
      \/ d = CtrlFacts!Decision("LOCKED", c)
  <2> HIDE DEF d
  <2>1. d = CtrlFacts!Decide(c, l, locked)
    BY DEF d
  <2> QED
    BY <2>1, PoliciesHold, SystemAssumption, CtrlFacts!DecisionShape
<1> HIDE DEF d
<1>4. d.action \in {"SCALE_UP", "SCALE_DOWN"}
  BY <1>1 DEF Ctrl!Scales
<1>5. CtrlFacts!DownCoolingDown <=> Ctrl!DownCoolingDown
  BY DEF CtrlFacts!DownCoolingDown, Ctrl!DownCoolingDown
<1> QED
  BY <1>1, <1>2, <1>3, <1>4, <1>5 DEF CtrlFacts!Decision

-----------------------------------------------------------------------------
LEMMA CooldownIsNat ==
  Daemon!LongestCooldown \in Nat /\ Ctrl!LongestCooldown \in Nat
BY SystemAssumption DEF Daemon!LongestCooldown, Ctrl!LongestCooldown

LEMMA TypeInit == Init => TypeOK
BY SystemAssumption, CooldownIsNat
   DEF Init, TypeOK, NoReport, Ctrl!LongestCooldown, Daemon!EngineInit, Ctrl!EngineInit,
       Daemon!EngineTypeOK, Ctrl!EngineTypeOK

LEMMA DaemonRemembers ==
  ASSUME NEW d, Daemon!EngineTypeOK, Daemon!Remember(d)
  PROVE  Daemon!EngineTypeOK'
<1>1. \/ daemonType' \in {"UP", "DOWN"} /\ daemonAge' = 0
      \/ UNCHANGED <<daemonType, daemonAge>>
  BY DEF Daemon!Remember, Daemon!engineVars
<1> QED
  BY <1>1, CooldownIsNat DEF Daemon!EngineTypeOK, Daemon!LongestCooldown

LEMMA CtrlRemembers ==
  ASSUME NEW d, Ctrl!EngineTypeOK, Ctrl!Remember(d)
  PROVE  Ctrl!EngineTypeOK'
<1>1. \/ ctrlType' \in {"UP", "DOWN"} /\ ctrlAge' = 0
      \/ UNCHANGED <<ctrlType, ctrlAge>>
  BY DEF Ctrl!Remember, Ctrl!engineVars
<1> QED
  BY <1>1, CooldownIsNat DEF Ctrl!EngineTypeOK, Ctrl!LongestCooldown

(* The counts and loads a decision is taken on are natural numbers.        *)
LEMMA DecidedOnNumbers ==
  ASSUME TypeOK
  PROVE  /\ currentReplicas \in Nat /\ shortLoad \in Nat
         /\ report.count \in Nat /\ report.load \in Nat
         /\ Current \in Nat /\ Current >= report.count
<1>1. currentReplicas \in DaemonMin..DaemonMax
      /\ activeReplicas \in ControllerMin..ControllerMax
  BY DEF TypeOK
<1>2. /\ shortLoad \in Loads \cup {0} /\ report.load \in Loads \cup {0}
      /\ report.count \in DaemonMin..DaemonMax \cup {0}
  BY DEF TypeOK
<1>3. currentReplicas \in Nat /\ activeReplicas \in Nat
  BY <1>1, SystemAssumption
<1>4. report.count \in Nat /\ Current \in Nat /\ Current >= report.count
  BY <1>2, <1>3, SystemAssumption DEF Current
<1>5. Loads \subseteq Nat
  BY SystemAssumption
<1>6. \A l \in Loads \cup {0} : l \in Nat
  BY <1>5
<1>7. shortLoad \in Nat /\ report.load \in Nat
  BY <1>2, <1>6, Zenon
<1> QED
  BY <1>3, <1>4, <1>7

(* A patch is within the controller's bounds.  It goes above the reported  *)
(* count, or no lock was reported and the down cooldown is over.           *)
LEMMA PatchShape ==
  ASSUME TypeOK, Step
  PROVE  \/ UNCHANGED <<activeReplicas, workloadVars>>
         \/ /\ workload' \in ControllerMin..ControllerMax
            /\ activeReplicas' = workload'
            /\ patchAge' = 0 /\ patchedBy' = "this"
            /\ \/ workload' > report.count
               \/ report.lock # "held" /\ ~Ctrl!DownCoolingDown
<1> DEFINE d == Ctrl!Decide(Current, report.load, report.lock = "held")
<1>1. CASE Ctrl!Scales(d)
  <2>1. /\ workload' = d.desired /\ activeReplicas' = d.desired
        /\ patchAge' = 0 /\ patchedBy' = "this"
    BY <1>1 DEF Step, StepDecision, Patch
  <2>2. /\ d.desired \in ControllerMin..ControllerMax
        /\ \/ d.desired > Current
           \/ report.lock # "held" /\ ~Ctrl!DownCoolingDown
    BY <1>1, DecidedOnNumbers, CtrlScales
  <2> HIDE DEF d
  <2> QED
    BY <2>1, <2>2, DecidedOnNumbers, SystemAssumption
<1>2. CASE ~Ctrl!Scales(d)
  BY <1>2 DEF Step, StepDecision, Patch
<1> QED
  BY <1>1, <1>2

LEMMA TypeStep == TypeOK /\ [Next]_vars => TypeOK'
<1> SUFFICES ASSUME TypeOK, [Next]_vars
             PROVE  TypeOK'
  OBVIOUS
<1>1. CASE DaemonEvaluates
  <2> DEFINE d == Daemon!Decide(currentReplicas, shortLoad, lock = "held")
  <2>1. Daemon!EngineTypeOK'
    BY <1>1, DaemonRemembers DEF DaemonEvaluates, TypeOK
  <2>2. currentReplicas' \in DaemonMin..DaemonMax
    <3>1. CASE Daemon!Scales(d)
      BY <1>1, <3>1, DecidedOnNumbers, DaemonScales DEF DaemonEvaluates
    <3>2. CASE ~Daemon!Scales(d)
      BY <1>1, <3>2 DEF DaemonEvaluates, TypeOK
    <3> QED
      BY <3>1, <3>2
  <2>3. UNCHANGED <<ctrlVars, pollVars, workloadVars, trafficVars>>
    BY <1>1 DEF DaemonEvaluates
  <2> QED
    BY <2>1, <2>2, <2>3
       DEF TypeOK, ctrlVars, pollVars, workloadVars, trafficVars,
           Ctrl!EngineTypeOK, Ctrl!LongestCooldown
<1>2. CASE Step
  <2>1. Ctrl!EngineTypeOK'
    BY <1>2, CtrlRemembers DEF Step, TypeOK
  <2>2. /\ workload' \in ControllerMin..ControllerMax
        /\ activeReplicas' \in ControllerMin..ControllerMax
        /\ patchAge' \in 0..Ctrl!LongestCooldown
        /\ patchedBy' \in {"this", "former"}
    BY <1>2, PatchShape, CooldownIsNat DEF TypeOK, workloadVars, Ctrl!LongestCooldown
  <2>3. UNCHANGED <<daemonVars, trafficVars>>
    BY <1>2 DEF Step
  <2>4. loop' = "wait" /\ report' = NoReport
    BY <1>2 DEF Step
  <2> QED
    BY <2>1, <2>2, <2>3, <2>4
       DEF TypeOK, NoReport, daemonVars, trafficVars, Daemon!EngineTypeOK,
           Daemon!LongestCooldown, Ctrl!LongestCooldown
<1>6. CASE FetchTelemetry
  BY <1>6 DEF FetchTelemetry, TypeOK, daemonVars, ctrlVars, workloadVars,
     trafficVars, Daemon!EngineTypeOK, Ctrl!EngineTypeOK,
     Daemon!LongestCooldown, Ctrl!LongestCooldown
<1>3. CASE TrafficChanges \/ WindowSlides \/ UNCHANGED vars
  BY <1>3 DEF TrafficChanges, WindowSlides, vars, TypeOK, daemonVars, ctrlVars,
     pollVars, workloadVars, trafficVars, Daemon!EngineTypeOK, Ctrl!EngineTypeOK,
     Daemon!LongestCooldown, Ctrl!LongestCooldown
<1>4. CASE Restart
  BY <1>4, CooldownIsNat, SystemAssumption
     DEF Restart, DaemonRestarts, CtrlRestarts, TypeOK, NoReport, daemonVars,
         ctrlVars, pollVars, workloadVars, trafficVars, Daemon!EngineTypeOK, Ctrl!EngineTypeOK,
         Daemon!LongestCooldown, Ctrl!LongestCooldown
<1>5. CASE Tick
  <2>1. Daemon!EngineTypeOK' /\ Ctrl!EngineTypeOK'
    BY <1>5, CooldownIsNat
       DEF Tick, TypeOK, Daemon!AgeEngine, Ctrl!AgeEngine,
           Daemon!EngineTypeOK, Ctrl!EngineTypeOK,
           Daemon!LongestCooldown, Ctrl!LongestCooldown
  <2>2. patchAge' \in 0..Ctrl!LongestCooldown
    BY <1>5, CooldownIsNat DEF Tick, TypeOK, Ctrl!LongestCooldown
  <2> QED
    BY <1>5, <2>1, <2>2 DEF Tick, TypeOK, pollVars, trafficVars, Ctrl!LongestCooldown
<1> QED
  BY <1>1, <1>2, <1>3, <1>4, <1>5, <1>6 DEF Next, CalmNext

(* The daemon's count stays within its flags, what the controller          *)
(* remembers and the workload within the controller's spec, through every  *)
(* restart of either process (scaler.go:73-78, controller.go:196-209).     *)
THEOREM SystemTypeOK == Spec => []TypeOK
BY TypeInit, TypeStep, PTL DEF Spec

-----------------------------------------------------------------------------
(* Only a Step moves the workload.                                         *)
LEMMA OnlyStepPatches ==
  ASSUME [Next]_vars, workload' # workload
  PROVE  Step
BY DEF Next, CalmNext, Restart, DaemonEvaluates, FetchTelemetry, Tick,
       TrafficChanges, WindowSlides, DaemonRestarts, CtrlRestarts, vars,
       workloadVars

(* The counts a patch is compared with are numbers, and so is the cut.     *)
LEMMA CutIsPatch ==
  ASSUME TypeOK, [Next]_vars, workload' < workload
  PROVE  /\ Step /\ workload' \in Nat
         /\ \/ workload' > report.count
            \/ report.lock # "held" /\ ~Ctrl!DownCoolingDown
<1>1. workload \in Nat
  BY SystemAssumption DEF TypeOK
<1>2. workload' # workload
  BY <1>1
<1>3. Step
  BY <1>2, OnlyStepPatches
<1> QED
  BY <1>2, <1>3, PatchShape, SystemAssumption DEF workloadVars

(* Whoever cuts the workload under a held lock keeps more than the daemon  *)
(* has, unless the daemon raised its count or engaged the lock after the   *)
(* answer the controller acts on (scaler.go:106-111, controller.go:266,    *)
(* 281).                                                                   *)
THEOREM SystemLockKeepsReportedCount == Spec => LockKeepsReportedCount
<1>1. TypeOK /\ [Next]_vars
        => [lock = "held" /\ workload' < workload
              => \/ workload' > currentReplicas
                 \/ currentReplicas > report.count
                 \/ report.lock = "free"]_vars
  <2> SUFFICES ASSUME TypeOK, [Next]_vars, workload' < workload,
                      report.lock # "free", ~(currentReplicas > report.count)
               PROVE  workload' > currentReplicas
    OBVIOUS
  <2>1. report.lock = "held"
    BY DEF TypeOK
  <2>2. workload' \in Nat /\ workload' > report.count
    BY <2>1, CutIsPatch
  <2> QED
    BY <2>2, DecidedOnNumbers
<1> QED
  BY <1>1, SystemTypeOK, PTL DEF Spec, LockKeepsReportedCount

(* While the controller that sent the last patch runs, its engine is no    *)
(* older than that patch: it scaled then, and may not have scaled since.   *)
EngineRemembersPatch == patchedBy = "this" => ctrlAge <= patchAge

LEMMA EngineRemembersPatchStep ==
  TypeOK /\ EngineRemembersPatch /\ [Next]_vars => EngineRemembersPatch'
<1> SUFFICES ASSUME TypeOK, EngineRemembersPatch, [Next]_vars
             PROVE  EngineRemembersPatch'
  OBVIOUS
<1> USE DEF EngineRemembersPatch
<1>1. ctrlAge \in Nat /\ patchAge \in Nat
  BY CooldownIsNat DEF TypeOK, Ctrl!EngineTypeOK, Ctrl!LongestCooldown
<1>2. CASE Step
  <2> DEFINE d == StepDecision
  <2>1. CASE Ctrl!Scales(d)
    BY <1>2, <2>1 DEF Step, Patch, Ctrl!Remember
  <2>2. CASE ~Ctrl!Scales(d)
    BY <1>2, <2>2 DEF Step, Patch, Ctrl!Remember, Ctrl!engineVars, workloadVars
  <2> QED
    BY <2>1, <2>2
<1>3. CASE Tick
  <2>1. /\ patchedBy' = patchedBy
        /\ ctrlAge' = IF ctrlAge < Ctrl!LongestCooldown THEN ctrlAge + 1 ELSE ctrlAge
        /\ patchAge' = IF patchAge < Ctrl!LongestCooldown
                       THEN patchAge + 1 ELSE patchAge
    BY <1>3 DEF Tick, Ctrl!AgeEngine, Ctrl!LongestCooldown
  <2>2. patchAge \in 0..Ctrl!LongestCooldown
    BY DEF TypeOK
  <2> QED
    BY <1>1, <2>1, <2>2, CooldownIsNat
<1>4. CASE CtrlRestarts
  BY <1>4 DEF CtrlRestarts
<1>5. CASE \/ DaemonEvaluates \/ FetchTelemetry \/ TrafficChanges
           \/ WindowSlides \/ DaemonRestarts \/ UNCHANGED vars
  BY <1>5 DEF DaemonEvaluates, FetchTelemetry, TrafficChanges, WindowSlides,
     DaemonRestarts, vars, ctrlVars, workloadVars
<1> QED
  BY <1>2, <1>3, <1>4, <1>5 DEF Next, CalmNext, Restart

(* A cut comes a whole down cooldown after the workload's last patch,      *)
(* unless the controller that sent that was restarted, once per restart,   *)
(* or the reported count lies below the cut (scaler.go:88-118,             *)
(* reconciler.go:27-35).                                                   *)
THEOREM SystemCutsSpaced == Spec => CutsSpaced
<1>1. Init => EngineRemembersPatch
  BY CooldownIsNat DEF Init, EngineRemembersPatch, Ctrl!EngineInit,
     Ctrl!LongestCooldown
<1>2. TypeOK /\ EngineRemembersPatch /\ [Next]_vars
        => [workload' < workload
              => \/ patchAge >= ScaleDownCooldown
                 \/ patchedBy = "former"
                 \/ workload' > report.count]_vars
  <2> SUFFICES ASSUME TypeOK, EngineRemembersPatch, [Next]_vars,
                      workload' < workload, patchedBy # "former",
                      ~(workload' > report.count)
               PROVE  patchAge >= ScaleDownCooldown
    OBVIOUS
  <2>1. ~(ctrlAge < ScaleDownCooldown)
    BY CutIsPatch DEF Ctrl!DownCoolingDown
  <2>2. patchedBy = "this"
    BY DEF TypeOK
  <2>3. ctrlAge \in Nat /\ patchAge \in Nat
    BY CooldownIsNat DEF TypeOK, Ctrl!EngineTypeOK, Ctrl!LongestCooldown
  <2> QED
    BY <2>1, <2>2, <2>3, SystemAssumption DEF EngineRemembersPatch
<1> QED
  BY <1>1, <1>2, EngineRemembersPatchStep, SystemTypeOK, PTL DEF Spec, CutsSpaced
=============================================================================
