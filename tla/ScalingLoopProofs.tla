------------------------- MODULE ScalingLoopProofs -------------------------
(***************************************************************************)
(* The invariants and the spacing properties of the daemon's scaling loop, *)
(* for every policy, every set of loads and every pair of cooldowns.       *)
(***************************************************************************)
EXTENDS ScalingLoop, DecisionEngineProofs

-----------------------------------------------------------------------------
(* What the engine's one timestamp and one tag know of the two histories:  *)
(* nothing scaled since before scaleAge; the direction it remembers is     *)
(* that of the last move; and a lowering came a whole ScaleDownCooldown    *)
(* after the raise whose tag it overwrote.                                 *)
Memory ==
  /\ scaleAge <= sinceUp
  /\ scaleAge <= sinceDown
  /\ lastScaleType = "none" => scaleAge = LongestCooldown
  /\ lastScaleType = "DOWN" => sinceUp >= ScaleDownCooldown

LoopInv == TypeOK /\ ReplicasInBounds /\ ReportedTargetIsCurrent /\ Memory

LEMMA LongestCooldownBounds ==
  /\ LongestCooldown \in Nat
  /\ ScaleUpCooldown <= LongestCooldown
  /\ LongestCooldown = ScaleDownCooldown
BY PolicyAssumption, LoadsAssumption DEF LongestCooldown

LEMMA LoopInit == Init => LoopInv
<1> SUFFICES ASSUME Init PROVE LoopInv
    OBVIOUS
<1>1. NoDecision \in Decisions
  BY PolicyAssumption DEF NoDecision, Decision, Decisions
<1>2. QED
  BY <1>1, PolicyAssumption, LoadsAssumption, LongestCooldownBounds
     DEF Init, EngineInit, LoopInv, TypeOK, EngineTypeOK, ReplicasInBounds,
         ReportedTargetIsCurrent, Memory

(* What one evaluation does, decision by decision.                         *)
LEMMA EvaluateShape ==
  ASSUME LoopInv, Evaluate
  PROVE  \/ /\ currentReplicas' = Desired(load)
            /\ currentReplicas' > currentReplicas
            /\ lastDecision' = Decision("SCALE_UP", currentReplicas')
            /\ ~UpCoolingDown
            /\ lastScaleType' = "UP" /\ scaleAge' = 0
            /\ sinceUp' = 0 /\ sinceDown' = sinceDown
         \/ /\ currentReplicas' = Desired(load)
            /\ currentReplicas' < currentReplicas
            /\ lastDecision' = Decision("SCALE_DOWN", currentReplicas')
            /\ lock # "held" /\ ~DownCoolingDown
            /\ lastScaleType' = "DOWN" /\ scaleAge' = 0
            /\ sinceUp' = sinceUp /\ sinceDown' = 0
         \/ /\ currentReplicas' = currentReplicas
            /\ lastDecision' \in {Decision("MAINTAIN", currentReplicas),
                                  Decision("LOCKED", currentReplicas)}
            /\ UNCHANGED <<lastScaleType, scaleAge, sinceUp, sinceDown>>
<1> DEFINE d == Decide(currentReplicas, load, lock = "held")
<1>1. /\ currentReplicas \in Nat /\ load \in Nat /\ (lock = "held") \in BOOLEAN
      /\ MinReplicas <= MaxReplicas
  BY LoadsAssumption, PolicyAssumption DEF LoopInv, TypeOK
<1>2. Desired(load) \in Nat
  BY <1>1, DesiredInBounds, PolicyAssumption
<1>3. CASE d = Decision("SCALE_UP", Desired(load)) /\ Desired(load) > currentReplicas
           /\ ~UpCoolingDown
  BY <1>1, <1>2, <1>3 DEF Evaluate, Remember, Applied, Scales, Decision
<1>4. CASE d = Decision("SCALE_DOWN", Desired(load)) /\ Desired(load) < currentReplicas
           /\ lock # "held" /\ ~DownCoolingDown
  BY <1>1, <1>2, <1>4 DEF Evaluate, Remember, Applied, Scales, Decision
<1>5. CASE d \in {Decision("MAINTAIN", currentReplicas),
                 Decision("LOCKED", currentReplicas)}
  BY <1>1, <1>5 DEF Evaluate, Remember, Applied, Scales, Decision, engineVars
<1>6. QED
  BY <1>1, <1>3, <1>4, <1>5, DecisionShape

LEMMA LoopStep == LoopInv /\ [Next]_loopVars => LoopInv'
<1> SUFFICES ASSUME LoopInv, [Next]_loopVars
             PROVE  LoopInv'
    OBVIOUS
<1>0. /\ LongestCooldown \in Nat
      /\ MinReplicas \in Nat /\ MaxReplicas \in Nat
      /\ ScaleDownCooldown \in Nat /\ ScaleDownCooldown <= LongestCooldown
  BY PolicyAssumption, LongestCooldownBounds
<1>1. CASE Evaluate
  <2>1. Desired(load) \in MinReplicas..MaxReplicas
    BY DesiredInBounds, LoadsAssumption DEF LoopInv, TypeOK
  <2>2. load' \in Loads /\ lock' \in LockStates
    BY <1>1 DEF Evaluate, LoopInv, TypeOK
  <2>3. ReplicasInBounds'
    BY <1>1, <2>1, EvaluateShape DEF LoopInv, ReplicasInBounds
  <2>4. ReportedTargetIsCurrent'
    BY <1>1, EvaluateShape DEF ReportedTargetIsCurrent, Decision
  <2>5. Memory'
    BY <1>0, <1>1, EvaluateShape
       DEF LoopInv, TypeOK, EngineTypeOK, Memory, DownCoolingDown
  <2>6. TypeOK'
    <3>1. currentReplicas' \in 0..MaxReplicas
      BY <1>0, <2>3 DEF ReplicasInBounds
    <3>2. lastDecision' \in Decisions
      <4>1. \E a \in Actions : lastDecision' = Decision(a, currentReplicas')
        BY <1>1, EvaluateShape DEF Actions
      <4>2. QED
        BY <3>1, <4>1 DEF Decision, Decisions
    <3>3. /\ EngineTypeOK'
          /\ sinceUp' \in 0..LongestCooldown /\ sinceDown' \in 0..LongestCooldown
      BY <1>0, <1>1, EvaluateShape DEF LoopInv, TypeOK, EngineTypeOK
    <3>4. QED
      BY <2>2, <3>1, <3>2, <3>3 DEF TypeOK
  <2>7. QED
    BY <2>3, <2>4, <2>5, <2>6 DEF LoopInv
<1>2. CASE Tick
  BY <1>0, <1>2
     DEF Tick, AgeEngine, Later, LoopInv, TypeOK, EngineTypeOK,
         ReplicasInBounds, ReportedTargetIsCurrent, Memory
<1>3. CASE Environment
  BY <1>3 DEF Environment, LoopInv, TypeOK, EngineTypeOK, ReplicasInBounds,
              ReportedTargetIsCurrent, Memory
<1>4. CASE UNCHANGED loopVars
  BY <1>4 DEF loopVars, LoopInv, TypeOK, EngineTypeOK, ReplicasInBounds,
              ReportedTargetIsCurrent, Memory
<1>5. QED
  BY <1>1, <1>2, <1>3, <1>4 DEF Next

LEMMA LoopInvariant == Spec => []LoopInv
BY LoopInit, LoopStep, PTL DEF Spec

(* The loop's variables keep their types.                                  *)
THEOREM LoopTypeOK == Spec => []TypeOK
<1>1. LoopInv => TypeOK
  BY DEF LoopInv
<1>2. QED
  BY <1>1, LoopInvariant, PTL

(* The replica count stays within the bounds of every policy, under every  *)
(* history of loads, locks and cooldowns.                                  *)
THEOREM LoopReplicasInBounds == Spec => []ReplicasInBounds
<1>1. LoopInv => ReplicasInBounds
  BY DEF LoopInv
<1>2. QED
  BY <1>1, LoopInvariant, PTL

(* The reported target never differs from the reported current count.      *)
THEOREM LoopReportedTarget == Spec => []ReportedTargetIsCurrent
<1>1. LoopInv => ReportedTargetIsCurrent
  BY DEF LoopInv
<1>2. QED
  BY <1>1, LoopInvariant, PTL

-----------------------------------------------------------------------------
LEMMA OnlyEvaluateScales ==
  ASSUME LoopInv, [Next]_loopVars, ~Evaluate
  PROVE  currentReplicas' = currentReplicas
BY DEF Next, loopVars, Tick, Environment

(* A lowering waits a whole ScaleDownCooldown after any move.              *)
THEOREM LoopDownsSpaced == Spec => DownsSpaced
<1>1. LoopInv /\ [Next]_loopVars =>
        [currentReplicas' < currentReplicas =>
           sinceUp >= ScaleDownCooldown /\ sinceDown >= ScaleDownCooldown]_loopVars
  <2> SUFFICES ASSUME LoopInv, [Next]_loopVars, currentReplicas' < currentReplicas
               PROVE  sinceUp >= ScaleDownCooldown /\ sinceDown >= ScaleDownCooldown
      OBVIOUS
  <2>1. /\ currentReplicas \in Nat /\ ScaleDownCooldown \in Nat
        /\ LongestCooldown \in Nat /\ MaxReplicas \in Nat
    BY PolicyAssumption, LongestCooldownBounds DEF LoopInv, TypeOK
  <2>2. Evaluate
    BY <2>1, OnlyEvaluateScales
  <2>3. ~DownCoolingDown
    <3>1. currentReplicas' \in Nat
      BY <2>1, LoopStep DEF LoopInv, TypeOK
    <3>2. QED
      BY <2>1, <2>2, <3>1, EvaluateShape
  <2>4. QED
    BY <2>1, <2>3 DEF DownCoolingDown, LoopInv, Memory, TypeOK, EngineTypeOK
<1>2. QED
  BY <1>1, LoopInvariant, PTL DEF Spec, DownsSpaced

(* Two raises are a ScaleUpCooldown apart, through any lowering between.   *)
THEOREM LoopUpsSpaced == Spec => UpsSpaced
<1>1. LoopInv /\ [Next]_loopVars =>
        [currentReplicas' > currentReplicas => sinceUp >= ScaleUpCooldown]_loopVars
  <2> SUFFICES ASSUME LoopInv, [Next]_loopVars, currentReplicas' > currentReplicas
               PROVE  sinceUp >= ScaleUpCooldown
      OBVIOUS
  <2>1. /\ currentReplicas \in Nat /\ ScaleUpCooldown \in Nat
        /\ ScaleDownCooldown \in Nat /\ LongestCooldown \in Nat
        /\ MaxReplicas \in Nat
        /\ ScaleUpCooldown <= LongestCooldown
        /\ ScaleUpCooldown <= ScaleDownCooldown
    BY PolicyAssumption, LoadsAssumption, LongestCooldownBounds DEF LoopInv, TypeOK
  <2>2. Evaluate
    BY <2>1, OnlyEvaluateScales
  <2>3. ~UpCoolingDown
    <3>1. currentReplicas' \in Nat
      BY <2>1, LoopStep DEF LoopInv, TypeOK
    <3>2. QED
      BY <2>1, <2>2, <3>1, EvaluateShape
  <2>4. QED
    BY <2>1, <2>3 DEF UpCoolingDown, LoopInv, Memory, TypeOK, EngineTypeOK
<1>2. QED
  BY <1>1, LoopInvariant, PTL DEF Spec, UpsSpaced

-----------------------------------------------------------------------------
(* What Daemon.tla, which leaves the engine out, lets its loop decide: any *)
(* count within the bounds, and none below the present one under a lock.   *)
CountPermitted ==
  /\ currentReplicas' \in MinReplicas..MaxReplicas
  /\ lock = "held" => currentReplicas' >= currentReplicas

(* The engine decides nothing that Daemon.tla does not allow for, so what  *)
(* is shown there of any decision holds of the code's (server.go:125-129,  *)
(* scaler.go:73-78, 105-112).                                              *)
THEOREM LoopCountsPermitted == Spec => [][CountPermitted]_loopVars
<1>1. LoopInv /\ LoopInv' /\ [Next]_loopVars => [CountPermitted]_loopVars
  <2> SUFFICES ASSUME LoopInv, ReplicasInBounds', [Next]_loopVars
               PROVE  CountPermitted
    BY DEF LoopInv
  <2>1. currentReplicas \in Nat /\ currentReplicas' \in MinReplicas..MaxReplicas
        /\ MinReplicas \in Nat
    BY PolicyAssumption DEF LoopInv, TypeOK, ReplicasInBounds
  <2>2. CASE ~Evaluate
    BY <2>1, <2>2, OnlyEvaluateScales DEF CountPermitted
  <2>3. CASE Evaluate
    BY <2>1, <2>3, EvaluateShape DEF CountPermitted
  <2> QED
    BY <2>2, <2>3
<1> QED
  BY <1>1, LoopInvariant, PTL DEF Spec

=============================================================================
