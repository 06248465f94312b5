---------------------------- MODULE ScalingLoop ----------------------------
(***************************************************************************)
(* The daemon's scaling tick (cmd/logstrata-daemon/server.go, the critical *)
(* section of StartEvaluationLoop): evaluate the decision engine on the    *)
(* daemon's own replica count and apply the decision to it.  The load and  *)
(* the threat lock are the environment's and change at any moment.         *)
(***************************************************************************)
EXTENDS DecisionEngine

CONSTANT Loads (* the loads a window can show *)

ASSUME LoadsAssumption ==
  /\ Loads \subseteq Nat
  /\ MinReplicas <= MaxReplicas
  /\ ScaleUpCooldown <= ScaleDownCooldown

VARIABLES
  currentReplicas,
  lastDecision,
  load,      (* requests in the short window                        *)
  lock,      (* "held" while IsScaleDownLocked() answers true       *)
  sinceUp,   (* history: ticks since the count last rose            *)
  sinceDown  (* history: ticks since the count last fell            *)

loopVars ==
  <<lastScaleType, scaleAge, currentReplicas, lastDecision, load, lock,
    sinceUp, sinceDown>>

LockStates == {"held", "free"}

NoDecision == Decision("none", 0)

Decisions == [action : Actions \cup {"none"}, desired : 0..MaxReplicas]

Init ==
  /\ EngineInit
  /\ currentReplicas = MinReplicas
  /\ lastDecision = NoDecision
  /\ load \in Loads
  /\ lock \in LockStates
  /\ sinceUp = LongestCooldown
  /\ sinceDown = LongestCooldown

(* The applied count: only a scaling decision moves it.                    *)
FaultyApplied(d) == IF d.action = "SCALE_UP" THEN d.desired ELSE currentReplicas

Applied(d) == IF Scales(d) THEN d.desired ELSE currentReplicas

(* One tick of the evaluation loop, from Lock to Unlock.                   *)
Evaluate ==
  LET d == Decide(currentReplicas, load, lock = "held") IN
  /\ Remember(d)
  /\ currentReplicas' = Applied(d)
  /\ lastDecision' = d
  /\ sinceUp'   = IF currentReplicas' > currentReplicas THEN 0 ELSE sinceUp
  /\ sinceDown' = IF currentReplicas' < currentReplicas THEN 0 ELSE sinceDown
  /\ UNCHANGED <<load, lock>>

Later(age) == IF age < LongestCooldown THEN age + 1 ELSE age

Tick ==
  /\ AgeEngine
  /\ sinceUp' = Later(sinceUp)
  /\ sinceDown' = Later(sinceDown)
  /\ UNCHANGED <<currentReplicas, lastDecision, load, lock>>

(* The traffic or the threat status changes under the loop's feet.         *)
Environment ==
  /\ load' \in Loads
  /\ lock' \in LockStates
  /\ UNCHANGED <<lastScaleType, scaleAge, currentReplicas, lastDecision,
                 sinceUp, sinceDown>>

Next == Evaluate \/ Tick \/ Environment

(* The ticker fires for as long as the daemon runs, and time passes.       *)
Fairness == WF_loopVars(Evaluate) /\ WF_loopVars(Tick)

Spec == Init /\ [][Next]_loopVars

FairSpec == Spec /\ Fairness

-----------------------------------------------------------------------------
TypeOK ==
  /\ EngineTypeOK
  /\ currentReplicas \in 0..MaxReplicas
  /\ lastDecision \in Decisions
  /\ load \in Loads
  /\ lock \in LockStates
  /\ sinceUp \in 0..LongestCooldown
  /\ sinceDown \in 0..LongestCooldown

(* No history of loads, locks and cooldowns takes the replica count out of *)
(* the policy's bounds (scaler.go:73-78 with server.go:128-129).           *)
ReplicasInBounds == currentReplicas \in MinReplicas..MaxReplicas

(* The "target_replicas" that /api/v1/status reports next to               *)
(* "current_replicas" (server.go:224-225) always equals it once a decision *)
(* was taken: a wanted but suppressed count is never visible there.        *)
ReportedTargetIsCurrent ==
  lastDecision # NoDecision => lastDecision.desired = currentReplicas

(* Capacity is taken away only when the count has been still for a whole   *)
(* ScaleDownCooldown, in both directions: lastScaleTime is shared by ups   *)
(* and downs (scaler.go:99, 114, 123).                                     *)
DownsSpaced ==
  [][currentReplicas' < currentReplicas =>
       sinceUp >= ScaleDownCooldown /\ sinceDown >= ScaleDownCooldown]_loopVars

(* Two raises are a ScaleUpCooldown apart even when a lowering came in     *)
(* between and overwrote lastScaleType, the only memory of the raise that  *)
(* scaler.go:90 consults: the lowering itself had to wait longer.          *)
UpsSpaced ==
  [][currentReplicas' > currentReplicas => sinceUp >= ScaleUpCooldown]_loopVars

(* Once the load stays put and no threat holds the lock, the count settles *)
(* on what that load needs, whatever cooldown it was caught in.            *)
Settles ==
  \A l \in Loads :
    <>[](load = l /\ lock = "free") => <>[](currentReplicas = Desired(l))

=============================================================================
