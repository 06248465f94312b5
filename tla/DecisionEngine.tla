--------------------------- MODULE DecisionEngine ---------------------------
(***************************************************************************)
(* DecisionEngine (pkg/scaler/scaler.go): the replica decision taken from  *)
(* the load of a window, the replicas there are, the threat lock and the   *)
(* time of the last scaling.  The daemon owns one engine and the           *)
(* controller another, each with its own policy.                           *)
(*                                                                         *)
(* Load is the number of requests in the evaluation window, so that        *)
(*   ceil(rps / TargetRPSPerPod * HeadroomFactor)                          *)
(* is a division of whole numbers: PodCapacity requests per window and pod *)
(* and a headroom of HeadroomNum / HeadroomDen.  lastScaleTime is kept as  *)
(* its age; its zero value is older than any cooldown.                     *)
(***************************************************************************)
EXTENDS Naturals

CONSTANTS
  MinReplicas, MaxReplicas,
  PodCapacity,              (* TargetRPSPerPod times the window; may be 0  *)
  HeadroomNum, HeadroomDen,
  ScaleUpCooldown, ScaleDownCooldown

ASSUME PolicyAssumption ==
  /\ MinReplicas \in Nat
  /\ MaxReplicas \in Nat
  /\ PodCapacity \in Nat
  /\ HeadroomNum \in Nat
  /\ HeadroomDen \in Nat \ {0}
  /\ ScaleUpCooldown \in Nat
  /\ ScaleDownCooldown \in Nat

VARIABLES
  lastScaleType, (* "none", "UP" or "DOWN"                        *)
  scaleAge       (* age of lastScaleTime, up to LongestCooldown *)

engineVars == <<lastScaleType, scaleAge>>

LongestCooldown ==
  IF ScaleUpCooldown > ScaleDownCooldown THEN ScaleUpCooldown
                                         ELSE ScaleDownCooldown

EngineInit ==
  /\ lastScaleType = "none"
  /\ scaleAge = LongestCooldown

-----------------------------------------------------------------------------
(* Pods needed for a load, headroom included, before any bound.            *)
RawDesired(load) ==
  IF PodCapacity > 0
  THEN LET demand == load * HeadroomNum
           supply == PodCapacity * HeadroomDen
       IN  (demand + supply - 1) \div supply
  ELSE 0

(* The lower bound is applied first, so MaxReplicas wins over MinReplicas. *)
FaultyClamp(n) == IF n < MinReplicas THEN MinReplicas ELSE n

Clamp(n) ==
  LET raised == IF n < MinReplicas THEN MinReplicas ELSE n
  IN  IF raised > MaxReplicas THEN MaxReplicas ELSE raised

Desired(load) == Clamp(RawDesired(load))

FaultyUpCoolingDown == FALSE

UpCoolingDown == lastScaleType = "UP" /\ scaleAge < ScaleUpCooldown

DownCoolingDown == scaleAge < ScaleDownCooldown

Actions == {"SCALE_UP", "SCALE_DOWN", "MAINTAIN", "LOCKED"}

Decision(action, desired) == [action |-> action, desired |-> desired]

(* The decision Evaluate returns in the engine's present state: any        *)
(* decision that does not scale reports the current count as desired.      *)
Decide(current, load, locked) ==
  LET desired == Desired(load) IN
  CASE desired > current /\ UpCoolingDown    -> Decision("MAINTAIN", current)
    [] desired > current /\ ~UpCoolingDown   -> Decision("SCALE_UP", desired)
    [] desired < current /\ locked           -> Decision("LOCKED", current)
    [] desired < current /\ ~locked /\ DownCoolingDown
                                             -> Decision("MAINTAIN", current)
    [] desired < current /\ ~locked /\ ~DownCoolingDown
                                             -> Decision("SCALE_DOWN", desired)
    [] desired = current                     -> Decision("MAINTAIN", desired)

Scales(d) == d.action \in {"SCALE_UP", "SCALE_DOWN"}

(* What Evaluate leaves behind in the engine after deciding d.             *)
FaultyRemember(d) ==
  IF d.action = "SCALE_UP"
  THEN lastScaleType' = "UP" /\ scaleAge' = 0
  ELSE UNCHANGED engineVars

RestlessRemember(d) ==
  /\ lastScaleType' = CASE d.action = "SCALE_UP"   -> "UP"
                        [] d.action = "SCALE_DOWN" -> "DOWN"
                        [] OTHER                   -> lastScaleType
  /\ scaleAge' = 0

Remember(d) ==
  IF Scales(d)
  THEN /\ lastScaleType' = (IF d.action = "SCALE_UP" THEN "UP" ELSE "DOWN")
       /\ scaleAge' = 0
  ELSE UNCHANGED engineVars

AgeEngine ==
  /\ scaleAge' = IF scaleAge < LongestCooldown THEN scaleAge + 1 ELSE scaleAge
  /\ UNCHANGED lastScaleType

EngineTypeOK ==
  /\ lastScaleType \in {"none", "UP", "DOWN"}
  /\ scaleAge \in 0..LongestCooldown

=============================================================================
