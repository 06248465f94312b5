----------------------------- MODULE CrdPlayground -----------------------------
(***************************************************************************)
(* The documentation's policy builder (components/CrdPlayground.tsx): one  *)
(* form, a validator of its own that opens and shuts the export buttons,   *)
(* and three manifests derived from the form.  Nothing ties the validator  *)
(* to the webhooks that decide in the cluster (module Admission): the two  *)
(* are written twice, in two languages.                                    *)
(*                                                                         *)
(* The names and the numbers are taken as typed: their min and max         *)
(* attributes stop the arrows of a number field and not the keyboard, a    *)
(* fraction is a number, and an emptied field is 0.                        *)
(***************************************************************************)
EXTENDS Admission

CONSTANTS
  FormRates,      (* positions of the slider 20..500                       *)
  FormHeadrooms,  (* positions of the slider 1.00..2.50, in hundredths     *)
  FormCounts,     (* numbers typed for the replica bounds and cooldowns,   *)
                  (* in halves                                             *)
  MaxFormEdits    (* bound on the edits                                    *)

ASSUME FormAssumption ==
  /\ FormRates \subseteq 20..500 /\ FormHeadrooms \subseteq 100..250
  /\ FormCounts \subseteq Int /\ MaxFormEdits \in Nat

VARIABLES
  policyType,     (* the tab                                               *)
  form,           (* the fields of the form                                *)
  exported,       (* the form and tab last copied or downloaded            *)
  formEdits

formVars == <<policyType, form, exported, formEdits>>

PolicyTypes == {"autoscaler", "threat", "ratelimit"}
FormNames == {"ok", "edge", "blank"}
Flags == {"yes", "no"}

-----------------------------------------------------------------------------
(* validation: the errors listed under the form.  A fraction is none.      *)
FaultyValidationErrors(f) ==
  {error \in {"name", "namespace", "min", "headroom", "rps"} :
     CASE error = "name"      -> f.name # "ok"
       [] error = "namespace" -> f.namespace # "ok"
       [] error = "min"       -> f.min < Halves(1)
       [] error = "headroom"  -> f.headroom < 100
       [] error = "rps"       -> f.rps < 1}

ValidationErrors(f) ==
  {error \in {"name", "namespace", "min", "order", "headroom", "rps"} :
     CASE error = "name"      -> f.name # "ok"
       [] error = "namespace" -> f.namespace # "ok"
       [] error = "min"       -> f.min < Halves(1)
       [] error = "order"     -> f.min > f.max
       [] error = "headroom"  -> f.headroom < 100
       [] error = "rps"       -> f.rps < 1}

Valid(f) == ValidationErrors(f) = {}

(* generatedYaml, one manifest for each tab; the threshold is in halves.   *)
AutoscalerYaml(f) ==
  [name |-> f.name, kind |-> "Deployment", minReplicas |-> f.min,
   maxReplicas |-> f.max, targetRPSPerPod |-> f.rps, headroomFactor |-> f.headroom,
   cooldown |-> f.cooldown, threshold |-> f.rps * f.min,
   security |-> IF f.lock = "yes" THEN "locked" ELSE "unlocked",
   networkPolicy |-> f.quarantine]

ThreatYaml(f) ==
  [targetDeploymentRef |-> <<f.name, f.namespace>>, threatTriggers |-> "quarantine_ip",
   lockdownMinimumReplicas |-> LockFloor(f.min), generateNetworkPolicy |-> f.quarantine]

RateLimitYaml(f) == [rate |-> Rounded(f.rps, 120), burst |-> Rounded(f.rps, 40)]

-----------------------------------------------------------------------------
FormInit ==
  /\ policyType = "autoscaler"
  /\ form = [name |-> "ok", namespace |-> "ok", min |-> Halves(3), max |-> Halves(30), rps |-> 120,
             headroom |-> 125, cooldown |-> [up |-> Halves(15), down |-> Halves(90)],
             lock |-> "yes", quarantine |-> "yes"]
  /\ exported = [type |-> "none", of |-> form]
  /\ formEdits = 0

(* The two names are above the tabs' fields, everything else is part of    *)
(* the autoscaler's tab.                                                   *)
FormEdit(edited) ==
  /\ formEdits < MaxFormEdits /\ formEdits' = formEdits + 1
  /\ form' \in edited
  /\ UNCHANGED <<policyType, exported>>

TypeFormName ==
  FormEdit({[form EXCEPT !.name = n] : n \in FormNames}
           \cup {[form EXCEPT !.namespace = n] : n \in FormNames})

TypeBound ==
  policyType = "autoscaler" /\
  FormEdit({[form EXCEPT !.min = n] : n \in FormCounts}
           \cup {[form EXCEPT !.max = n] : n \in FormCounts})

TypeCooldown ==
  policyType = "autoscaler" /\
  FormEdit({[form EXCEPT !.cooldown.up = n] : n \in FormCounts}
           \cup {[form EXCEPT !.cooldown.down = n] : n \in FormCounts})

MoveFormSlider ==
  policyType = "autoscaler" /\
  FormEdit({[form EXCEPT !.rps = r] : r \in FormRates}
           \cup {[form EXCEPT !.headroom = h] : h \in FormHeadrooms})

TickFormFlag ==
  policyType = "autoscaler" /\
  FormEdit({[form EXCEPT !.lock = b] : b \in Flags}
           \cup {[form EXCEPT !.quarantine = b] : b \in Flags})

SelectPolicyType ==
  /\ policyType' \in PolicyTypes
  /\ UNCHANGED <<form, exported, formEdits>>

(* handleCopy and handleDownload, behind disabled={!validation.valid}.     *)
FaultyExport ==
  /\ exported' = [type |-> policyType, of |-> form]
  /\ UNCHANGED <<policyType, form, formEdits>>

Export ==
  /\ Valid(form)
  /\ exported' = [type |-> policyType, of |-> form]
  /\ UNCHANGED <<policyType, form, formEdits>>

FormNext ==
  \/ TypeFormName \/ TypeBound \/ TypeCooldown \/ MoveFormSlider \/ TickFormFlag
  \/ SelectPolicyType \/ Export

-----------------------------------------------------------------------------
FormTypeOK ==
  /\ policyType \in PolicyTypes /\ exported.type \in PolicyTypes \cup {"none"}
  /\ \A f \in {form, exported.of} :
       /\ f.name \in FormNames /\ f.namespace \in FormNames
       /\ f.min \in Int /\ f.max \in Int /\ f.rps \in 20..500 /\ f.headroom \in 100..250
       /\ f.cooldown.up \in Int /\ f.cooldown.down \in Int
       /\ f.lock \in Flags /\ f.quarantine \in Flags
  /\ formEdits \in 0..MaxFormEdits

(* Of every form whose names are proper the validator (lines 27-55) and    *)
(* the cluster (admission.go, deploy/crds) think the same, but for the     *)
(* fractions the number fields let through (lines 268, 281): a form the    *)
(* page calls SCHEMA: VALID is rejected exactly for those.                 *)
ValidatorAgreesWithWebhook ==
  form.name = "ok" /\ form.namespace = "ok"
    => (Admitted(AutoscalerYaml(form)) <=>
          Valid(form) /\ Whole(form.min) /\ Whole(form.max))

(* What left the page, whichever tab it left from and whatever was typed   *)
(* since: an autoscaler is admitted exactly if its bounds are whole; a     *)
(* threat policy locks at no less than the form's minimum, but lacks what  *)
(* the definition of its kind requires, "SCHEMA: VALID" or not; a rate     *)
(* limit lets the target rate through (lines 91-138, 395-411).             *)
ExportsAreSound ==
  LET f == exported.of IN
  CASE exported.type = "autoscaler" ->
         Admitted(AutoscalerYaml(f)) <=> Whole(f.min) /\ Whole(f.max)
    [] exported.type = "threat" ->
         /\ ThreatYaml(f).lockdownMinimumReplicas >= f.min
         /\ ~ThreatSchema(ThreatYaml(f))
    [] exported.type = "ratelimit" -> RateLimitYaml(f).rate >= f.rps
    [] OTHER -> TRUE
=============================================================================
