------------------------------- MODULE Admission -------------------------------
(***************************************************************************)
(* What the cluster does with a policy: the mutating and the validating    *)
(* webhook (pkg/admission/admission.go) and the required fields and bounds *)
(* of the two custom resource definitions (deploy/crds).                   *)
(*                                                                         *)
(* The spec of a manifest is a record of the fields it has; a field that   *)
(* is missing is not in its DOMAIN, and reads as Go's zero value.  Factors *)
(* are in hundredths; names are "ok", "edge" (a hyphen at an end: no DNS   *)
(* label) or "blank".  Counts are in halves, since what types them (1.5)   *)
(* may be no whole number, which is all that anything here asks of them    *)
(* beside their order.                                                     *)
(***************************************************************************)
EXTENDS Integers

Read(spec, field, zero) == IF field \in DOMAIN spec THEN spec[field] ELSE zero

Halves(n) == 2 * n

Whole(count) == count % 2 = 0

Defaults ==
  [minReplicas |-> Halves(1), maxReplicas |-> Halves(10), targetRPSPerPod |-> 100,
   headroomFactor |-> 120, security |-> "locked"]

(* mutate: one JSON patch for each default whose field is missing; a field *)
(* that is there keeps its value, also a zero.                             *)
Mutate(spec) ==
  [field \in DOMAIN spec \cup DOMAIN Defaults |-> Read(spec, field, Defaults[field])]

(* validate: json.Unmarshal refuses a fraction for an int.                 *)
Validate(spec) ==
  LET min == Read(spec, "minReplicas", 0)
      max == Read(spec, "maxReplicas", 0)
      headroom == Read(spec, "headroomFactor", 0)
  IN
  /\ Whole(min) /\ Whole(max)
  /\ Read(spec, "name", "blank") # "blank"
  /\ Read(spec, "kind", "none") \in {"Deployment", "StatefulSet", "Rollout"}
  /\ min >= Halves(1) /\ max >= min
  /\ Read(spec, "targetRPSPerPod", 0) > 0
  /\ headroom \in 100..500

(* logautoscalerpolicy-crd.yaml.                                           *)
AutoscalerSchema(spec) ==
  /\ {"kind", "name", "minReplicas", "maxReplicas"} \subseteq DOMAIN spec
  /\ Whole(spec.minReplicas) /\ spec.minReplicas >= Halves(1)
  /\ Whole(spec.maxReplicas) /\ spec.maxReplicas >= Halves(1)

(* logthreatpolicy-crd.yaml.                                               *)
ThreatSchema(spec) ==
  /\ {"targetIngressRef", "threatMetrics"} \subseteq DOMAIN spec
  /\ Whole(Read(spec, "lockMinReplicas", 0))

Admitted(spec) == AutoscalerSchema(Mutate(spec)) /\ Validate(Mutate(spec))

(* lockMinReplicas, lockdownMinimumReplicas.                               *)
LockFloor(min) == IF min > Halves(6) THEN min ELSE Halves(6)

(* Math.round of a product with a factor in hundredths.                    *)
Rounded(n, hundredths) == (n * hundredths + 50) \div 100
=============================================================================
