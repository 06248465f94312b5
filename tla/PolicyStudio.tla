----------------------------- MODULE PolicyStudio -----------------------------
(***************************************************************************)
(* The landing page's policy editor (components/PolicyStudio.tsx): presets *)
(* and free edits of one set of parameters, from which the manifests of    *)
(* three tabs, one of them for four rate-limit backends, are derived.      *)
(*                                                                         *)
(* The name field keeps [a-z0-9-] of what is typed, so it may end up blank *)
(* or with a hyphen at its edge; the number fields accept any number, a    *)
(* fraction too, whatever their min and max attributes say.                *)
(***************************************************************************)
EXTENDS Admission

CONSTANTS
  StudioRates,     (* positions of the slider 20..500                      *)
  StudioHeadrooms, (* positions of the slider 1.00..2.00, in hundredths    *)
  StudioCounts,    (* numbers typed for the replica bounds, in halves      *)
  MaxStudioEdits   (* bound on the edits                                   *)

ASSUME StudioAssumption ==
  /\ StudioRates \subseteq 20..500 /\ StudioHeadrooms \subseteq 100..200
  /\ StudioCounts \subseteq Int /\ MaxStudioEdits \in Nat

VARIABLES
  activeTab,          (* "autoscaler", "threat" or "ratelimit"             *)
  rateLimitBackend,
  policy,             (* the parameters                                    *)
  studioClipboard,    (* the manifest last copied or downloaded            *)
  studioEdits

studioVars == <<activeTab, rateLimitBackend, policy, studioClipboard, studioEdits>>

StudioTabs == {"autoscaler", "threat", "ratelimit"}
StudioBackends == {"nginx", "envoy", "traefik", "cilium"}
StudioNames == {"ok", "edge", "blank"}

Presets ==
  {[name |-> "ok", rps |-> 220, headroom |-> 135, min |-> Halves(4), max |-> Halves(35), lock |-> "yes", block |-> "yes"],
   [name |-> "ok", rps |-> 45,  headroom |-> 150, min |-> Halves(2), max |-> Halves(20), lock |-> "yes", block |-> "yes"],
   [name |-> "ok", rps |-> 120, headroom |-> 120, min |-> Halves(3), max |-> Halves(25), lock |-> "yes", block |-> "yes"]}

-----------------------------------------------------------------------------
(* The manifests.                                                          *)

FaultyAutoscalerManifest(p) ==
  [name |-> p.name, kind |-> "Deployment", minReplicas |-> p.min,
   maxReplicas |-> p.max, targetRPSPerPod |-> p.rps,
   headroomFactor |-> p.headroom - 100, security |-> "locked"]

AutoscalerManifest(p) ==
  [name |-> p.name, kind |-> "Deployment", minReplicas |-> p.min,
   maxReplicas |-> p.max, targetRPSPerPod |-> p.rps,
   headroomFactor |-> p.headroom,
   security |-> IF p.lock = "yes" THEN "locked" ELSE "unlocked"]

(* Neither flag of the defence section reaches this manifest.              *)
ThreatManifest(p) ==
  [targetIngressRef |-> p.name, threatMetrics |-> {"IPBlocklist", "ScalingModifierLock"},
   lockMinReplicas |-> LockFloor(p.min)]

(* rate: requests a second of one client; burst: what may come at once.    *)
FaultyRateLimitManifest(p, backend) ==
  CASE backend = "nginx"   -> [rate |-> p.rps, burst |-> p.rps * Rounded(2, p.headroom)]
    [] backend = "envoy"   -> [rate |-> p.rps, burst |-> p.rps]
    [] backend = "traefik" -> [rate |-> p.rps, burst |-> Rounded(p.rps, p.headroom - 100)]
    [] backend = "cilium"  -> [rate |-> 0, burst |-> 0]

RateLimitManifest(p, backend) ==
  CASE backend = "nginx"   -> [rate |-> p.rps, burst |-> p.rps * Rounded(2, p.headroom)]
    [] backend = "envoy"   -> [rate |-> p.rps, burst |-> p.rps]
    [] backend = "traefik" -> [rate |-> p.rps, burst |-> Rounded(p.rps, p.headroom)]
    [] backend = "cilium"  -> [rate |-> 0, burst |-> 0]   (* static denies *)

CurrentManifest ==
  CASE activeTab = "autoscaler" -> AutoscalerManifest(policy)
    [] activeTab = "threat"     -> ThreatManifest(policy)
    [] activeTab = "ratelimit"  -> RateLimitManifest(policy, rateLimitBackend)

-----------------------------------------------------------------------------
StudioInit ==
  /\ activeTab = "autoscaler" /\ rateLimitBackend = "nginx"
  /\ policy = [name |-> "ok", rps |-> 120, headroom |-> 125, min |-> Halves(3),
               max |-> Halves(25), lock |-> "yes", block |-> "yes"]
  /\ studioClipboard = [tab |-> "none", of |-> policy] /\ studioEdits = 0

Edit == studioEdits < MaxStudioEdits /\ studioEdits' = studioEdits + 1

(* Every parameter is replaced, so nothing typed before survives.          *)
FaultyApplyPreset(preset) ==
  /\ Edit
  /\ policy' = [preset EXCEPT !.name = policy.name]
  /\ UNCHANGED <<activeTab, rateLimitBackend, studioClipboard>>

ApplyPreset(preset) ==
  /\ Edit
  /\ policy' = preset
  /\ UNCHANGED <<activeTab, rateLimitBackend, studioClipboard>>

EditName ==
  /\ Edit
  /\ \E name \in StudioNames : policy' = [policy EXCEPT !.name = name]
  /\ UNCHANGED <<activeTab, rateLimitBackend, studioClipboard>>

MoveSlider ==
  /\ Edit
  /\ \/ \E rps \in StudioRates : policy' = [policy EXCEPT !.rps = rps]
     \/ \E headroom \in StudioHeadrooms : policy' = [policy EXCEPT !.headroom = headroom]
  /\ UNCHANGED <<activeTab, rateLimitBackend, studioClipboard>>

EditBound ==
  /\ Edit
  /\ \E n \in StudioCounts :
       policy' \in {[policy EXCEPT !.min = n], [policy EXCEPT !.max = n]}
  /\ UNCHANGED <<activeTab, rateLimitBackend, studioClipboard>>

Opposite(flag) == IF flag = "yes" THEN "no" ELSE "yes"

ToggleFlag ==
  /\ Edit
  /\ policy' \in {[policy EXCEPT !.lock = Opposite(@)], [policy EXCEPT !.block = Opposite(@)]}
  /\ UNCHANGED <<activeTab, rateLimitBackend, studioClipboard>>

SelectStudioTab ==
  /\ activeTab' \in StudioTabs
  /\ UNCHANGED <<rateLimitBackend, policy, studioClipboard, studioEdits>>

SelectBackend ==
  /\ activeTab = "ratelimit"
  /\ rateLimitBackend' \in StudioBackends
  /\ UNCHANGED <<activeTab, policy, studioClipboard, studioEdits>>

(* Copy YAML, copy kubectl and download: the manifest as it stands.        *)
CopyManifest ==
  /\ studioClipboard' = [tab |-> activeTab, of |-> policy]
  /\ UNCHANGED <<activeTab, rateLimitBackend, policy, studioEdits>>

StudioNext ==
  \/ \E preset \in Presets : ApplyPreset(preset)
  \/ EditName \/ MoveSlider \/ EditBound \/ ToggleFlag
  \/ SelectStudioTab \/ SelectBackend \/ CopyManifest

-----------------------------------------------------------------------------
PolicyTypeOK(p) ==
  /\ p.name \in StudioNames /\ p.rps \in 20..500 /\ p.headroom \in 100..200
  /\ p.min \in Int /\ p.max \in Int
  /\ p.lock \in {"yes", "no"} /\ p.block \in {"yes", "no"}

StudioTypeOK ==
  /\ activeTab \in StudioTabs /\ rateLimitBackend \in StudioBackends
  /\ PolicyTypeOK(policy) /\ PolicyTypeOK(studioClipboard.of)
  /\ studioClipboard.tab \in StudioTabs \cup {"none"}
  /\ studioEdits \in 0..MaxStudioEdits

(* "CRD VALIDATED" (PolicyStudio.tsx:484-489) is shown over every policy;  *)
(* it is true of the autoscaler unless the name was emptied or the bounds  *)
(* were typed out of order or as fractions, and of the threat manifest     *)
(* unless a fraction is its lock floor too: no preset, slider or flag, in  *)
(* any combination, makes a policy that the webhooks and the definitions   *)
(* reject.                                                                 *)
BadgeIsEarned ==
  /\ ThreatSchema(ThreatManifest(policy)) <=>
       policy.min <= Halves(6) \/ Whole(policy.min)
  /\ Admitted(AutoscalerManifest(policy)) <=>
       /\ policy.name # "blank"
       /\ Halves(1) <= policy.min /\ policy.min <= policy.max
       /\ Whole(policy.min) /\ Whole(policy.max)

(* Nothing but a preset changes several parameters at once, and then it    *)
(* repairs whatever was typed before: the policy it leaves is admitted and *)
(* its attack lock is a floor its maximum allows (lines 66-74, 127).       *)
PresetRepairs ==
  [][(\E f, g \in DOMAIN policy :
        f # g /\ policy'[f] # policy[f] /\ policy'[g] # policy[g])
       => /\ Admitted(AutoscalerManifest(policy'))
          /\ ThreatManifest(policy').lockMinReplicas <= policy'.max]_studioVars

(* Whichever backend a policy is exported for, the ones that limit at all  *)
(* allow the same rate and never a burst below it (lines 132-205).         *)
BackendsAgree ==
  \A backend \in StudioBackends \ {"cilium"} :
    LET limit == RateLimitManifest(policy, backend) IN
    limit.rate = policy.rps /\ limit.burst >= limit.rate
=============================================================================
