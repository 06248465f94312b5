----------------------------- MODULE Controller -----------------------------
(***************************************************************************)
(* The operator process (cmd/logstrata-controller/controller.go): a loop   *)
(* that polls the daemon's status on a ticker, feeds the circuit breaker,  *)
(* and runs a reconciliation Step on every accepted answer, beside an HTTP *)
(* handler that consults the breaker's timers at any moment.               *)
(*                                                                         *)
(* The scaling engine is DecisionEngine; the breaker is Watchdog.  Step is *)
(* one critical section of cs.mu, each of the breaker's methods one of the *)
(* watchdog's own mutex, and time may pass between any two of them.  A     *)
(* daemon that is "down" makes the HTTP client fail at some moment before  *)
(* its timeout, one that is "up" answers within it.                        *)
(*                                                                         *)
(* Left out: the text of manifests and log lines, the capped history of    *)
(* results, and the process's end (ScalingSystem models restarts).         *)
(***************************************************************************)
EXTENDS DecisionEngine

CONSTANTS
  MaxConsecutiveFailures, HeartbeatTimeout, CooloffDuration,
  ReconcileInterval, (* ticks between two fires of the loop's ticker      *)
  ClientTimeout,     (* ticks after which the HTTP client gives up        *)
  Stalls,            (* what the longest stall between an answer and its  *)
                     (* Step may be, in ticks: cs.mu held by a handler,   *)
                     (* or a paused process                               *)
  Loads,             (* loads the telemetry can report                    *)
  Counts,            (* replica counts it can report; 0 is "absent"       *)
  IPs,               (* addresses it can report as blocked                *)
  Webhook            (* "set" or "unset": cfg.WebhookURL                  *)

ASSUME ControllerAssumption ==
  /\ MinReplicas <= MaxReplicas
  /\ MaxConsecutiveFailures \in Nat \ {0}
  /\ HeartbeatTimeout \in Nat /\ CooloffDuration \in Nat
  /\ ReconcileInterval \in Nat \ {0}
  /\ ClientTimeout \in Nat
  /\ Stalls \subseteq Nat
  /\ Loads \subseteq Nat
  /\ Counts \subseteq Nat
  /\ Webhook \in {"set", "unset"}

VARIABLES
  state, consecutiveFailures, consecutiveSuccesses, heartbeatAge, stateAge,
  pc,             (* where the loop is                                    *)
  phase,          (* ticks since the ticker last fired                    *)
  tickDue,        (* fires in the ticker's channel, which holds one       *)
  waited,         (* ticks in the present fetch, or in the present stall  *)
  telemetry,      (* the answer the loop holds                            *)
  activeReplicas, (* cs.activeReplicas[target]                            *)
  mitigated,      (* cs.latestMitigations.BlockedIPs                      *)
  notices,        (* notifier goroutines not yet done                     *)
  stopCh,         (* "open", or "closed" by Stop                          *)
  stall,          (* external: the longest stall of this behaviour        *)
  daemon,         (* external: the daemon is "up" or "down"               *)
  daemonFor       (* history: ticks it has been so, up to StatusHorizon   *)

watchdogVars ==
  <<state, consecutiveFailures, consecutiveSuccesses, heartbeatAge, stateAge>>
clockVars == <<phase, tickDue>>
stepVars == <<lastScaleType, scaleAge, activeReplicas, mitigated>>
environmentVars == <<stall, daemon, daemonFor>>

vars == <<watchdogVars, pc, clockVars, waited, telemetry, stepVars, notices,
          stopCh, environmentVars>>

Circuit == INSTANCE Watchdog

Telemetries ==
  [load : Loads, current : Counts, threat : {"none", "active"},
   blocked : SUBSET IPs]

NoTelemetry == [load |-> 0, current |-> 0, threat |-> "none", blocked |-> {}]

Larger(m, n) == IF m > n THEN m ELSE n

(* The longest a dead daemon goes unnoticed: what is left of the period in *)
(* which it died, then a full budget of failing polls.                     *)
DetectionBound ==
  stall + (MaxConsecutiveFailures + 1) * Larger(ReconcileInterval, ClientTimeout)

StatusHorizon == DetectionBound + 1

Init ==
  /\ stall \in Stalls
  /\ Circuit!Init
  /\ EngineInit
  /\ pc = "wait" /\ phase = 0 /\ tickDue = 0 /\ waited = 0
  /\ telemetry = NoTelemetry
  /\ activeReplicas = MinReplicas
  /\ mitigated = {}
  /\ notices = {}
  /\ stopCh = "open"
  /\ daemon = "up" /\ daemonFor = StatusHorizon

-----------------------------------------------------------------------------
(* The loop of StartReconciliationLoop.                                    *)

Goto(place) == pc' = place /\ waited' = 0

(* The select takes the ticker's fire, and the client sends its request.   *)
(* A closed stopCh does not prevent it: select picks any ready case.       *)
BeginFetch ==
  /\ pc = "wait" /\ tickDue = 1
  /\ Goto("fetch")
  /\ tickDue' = 0
  /\ UNCHANGED <<phase, telemetry, watchdogVars, stepVars, notices, stopCh,
                 environmentVars>>

(* The request fails: refused, not 200, not JSON, or timed out.            *)
MuteFetchFailed ==
  /\ pc = "fetch" /\ daemon = "down"
  /\ Goto("wait")
  /\ UNCHANGED <<watchdogVars, clockVars, telemetry, stepVars, notices, stopCh,
                 environmentVars>>

FaultyFetchFailed ==
  /\ pc = "fetch" /\ daemon = "down"
  /\ Circuit!RecordFailure
  /\ Goto("step")
  /\ UNCHANGED <<clockVars, telemetry, stepVars, notices, stopCh,
                 environmentVars>>

FetchFailed ==
  /\ pc = "fetch" /\ daemon = "down"
  /\ Circuit!RecordFailure
  /\ Goto("wait")
  /\ UNCHANGED <<clockVars, telemetry, stepVars, notices, stopCh,
                 environmentVars>>

(* Any 200 answer that parses is a heartbeat, whatever status it reports.  *)
FaultyFetchSucceeded ==
  /\ pc = "fetch" /\ daemon = "up"
  /\ telemetry' \in Telemetries
  /\ Goto("heard")
  /\ UNCHANGED <<watchdogVars, clockVars, stepVars, notices, stopCh,
                 environmentVars>>

FetchSucceeded ==
  /\ pc = "fetch" /\ daemon = "up"
  /\ telemetry' \in Telemetries
  /\ Circuit!RecordHeartbeat
  /\ Goto("heard")
  /\ UNCHANGED <<clockVars, stepVars, notices, stopCh, environmentVars>>

(* The breaker is asked in a critical section of its own.                  *)
Accept ==
  /\ pc = "heard" /\ ~Circuit!ShouldYieldToHPA
  /\ pc' = "step"
  /\ UNCHANGED <<clockVars, waited, telemetry, watchdogVars, stepVars,
                 notices, stopCh, environmentVars>>

Yield ==
  /\ pc = "heard" /\ Circuit!ShouldYieldToHPA
  /\ Goto("wait")
  /\ telemetry' = NoTelemetry
  /\ UNCHANGED <<clockVars, watchdogVars, stepVars, notices, stopCh,
                 environmentVars>>

(* The count a Step starts from: the daemon's own count if it reports one. *)
Current == IF telemetry.current > 0 THEN telemetry.current ELSE activeReplicas

StepDecision == Decide(Current, telemetry.load, telemetry.threat = "active")

Notice(d) == [type |-> d.action, replicas |-> d.desired]

(* A report of no blocked address leaves the last manifests standing.      *)
Mitigations == IF telemetry.blocked # {} THEN telemetry.blocked ELSE mitigated

(* Reconcile under cs.mu; a dispatched patch also starts a notifier.       *)
Step ==
  /\ pc = "step"
  /\ LET d == StepDecision IN
     /\ Remember(d)
     /\ activeReplicas' = IF Scales(d) THEN d.desired ELSE activeReplicas
     /\ notices' = IF Scales(d) /\ Webhook = "set" THEN notices \cup {Notice(d)}
                                                   ELSE notices
  /\ mitigated' = Mitigations
  /\ telemetry' = NoTelemetry
  /\ Goto("wait")
  /\ UNCHANGED <<clockVars, watchdogVars, stopCh, environmentVars>>

Exit ==
  /\ pc = "wait" /\ stopCh = "closed"
  /\ Goto("stopped")
  /\ UNCHANGED <<clockVars, telemetry, watchdogVars, stepVars, notices,
                 stopCh, environmentVars>>

Loop == \/ BeginFetch \/ FetchFailed \/ FetchSucceeded
        \/ Accept \/ Yield \/ Step \/ Exit

-----------------------------------------------------------------------------
(* What runs beside the loop.                                              *)

(* GET /api/v1/reconciliations: reading the audit log moves the breaker.   *)
GetReconciliations ==
  /\ Circuit!CheckLiveness
  /\ UNCHANGED <<pc, clockVars, waited, telemetry, stepVars, notices, stopCh,
                 environmentVars>>

(* A notifier goroutine posts and ends: any of them first, and none twice. *)
Notify ==
  \E n \in notices :
    /\ notices' = notices \ {n}
    /\ UNCHANGED <<watchdogVars, pc, clockVars, waited, telemetry, stepVars,
                   stopCh, environmentVars>>

Stop ==
  /\ stopCh' = "closed"
  /\ UNCHANGED <<watchdogVars, pc, clockVars, waited, telemetry, stepVars,
                 notices, environmentVars>>

(* External: the daemon dies, or comes back.                               *)
DaemonChanges ==
  /\ daemon' = IF daemon = "up" THEN "down" ELSE "up"
  /\ daemonFor' = 0
  /\ UNCHANGED <<watchdogVars, pc, clockVars, waited, telemetry, stepVars,
                 notices, stopCh, stall>>

(* Time may pass unless the loop is due: it does not dawdle at its select, *)
(* the client gives up at its timeout, a stall ends when it must.          *)
MayWait ==
  CASE pc = "wait"              -> tickDue = 0 /\ stopCh = "open"
    [] pc = "fetch"             -> waited < ClientTimeout
    [] pc \in {"heard", "step"} -> waited < stall
    [] pc = "stopped"           -> TRUE

Tick ==
  /\ MayWait
  /\ Circuit!Age
  /\ AgeEngine
  /\ phase' = (phase + 1) % ReconcileInterval
  /\ tickDue' = IF phase' = 0 /\ pc # "stopped" THEN 1 ELSE tickDue
  /\ waited' = IF pc \in {"fetch", "heard", "step"} THEN waited + 1 ELSE 0
  /\ daemonFor' = IF daemonFor < StatusHorizon THEN daemonFor + 1 ELSE daemonFor
  /\ UNCHANGED <<pc, telemetry, activeReplicas, mitigated, notices, stopCh,
                 stall, daemon>>

Next ==
  Loop \/ GetReconciliations \/ Notify \/ Stop \/ DaemonChanges \/ Tick

(* The goroutine is scheduled whenever it can run, and time passes.        *)
Fairness == WF_vars(Loop) /\ WF_vars(Tick)

Spec == Init /\ [][Next]_vars

FairSpec == Spec /\ Fairness

-----------------------------------------------------------------------------
TypeOK ==
  /\ Circuit!TypeOK
  /\ EngineTypeOK
  /\ pc \in {"wait", "fetch", "heard", "step", "stopped"}
  /\ phase \in 0..(ReconcileInterval - 1)
  /\ tickDue \in 0..1
  /\ waited \in 0..Larger(ClientTimeout, stall)
  /\ telemetry \in Telemetries \cup {NoTelemetry}
  /\ mitigated \subseteq IPs
  /\ \A n \in notices : n.type \in {"SCALE_UP", "SCALE_DOWN"}
  /\ stopCh \in {"open", "closed"}
  /\ stall \in Stalls /\ daemon \in {"up", "down"}
  /\ daemonFor \in 0..StatusHorizon

(* Whatever counts and loads the daemon reports, including counts outside  *)
(* this controller's own policy, the count patched into the workload stays *)
(* within the policy (controller.go:163-167, 193-194, scaler.go:73-78).    *)
PatchesInBounds == activeReplicas \in MinReplicas..MaxReplicas

(* A daemon that stays dead longer than DetectionBound always finds the    *)
(* circuit out of CLOSED while the loop runs, wherever in its period it    *)
(* died and however the handler interferes (controller.go:266-273).        *)
FailsafeEngages ==
  daemon = "down" /\ daemonFor > DetectionBound /\ stopCh = "open"
    => state # Circuit!Closed

(* The longest two heartbeats of a healthy daemon are apart.               *)
HeartbeatGap == Larger(ReconcileInterval, stall) + ClientTimeout

(* With a heartbeat timeout that covers this gap the circuit trips only on *)
(* a daemon that was down within the last one, and nothing the handler     *)
(* does trips it on a healthy one (failover.go:107, 129;                   *)
(* controller.go:275).  A loop that stalls longer trips it by itself.      *)
NoSpuriousTrip ==
  [][HeartbeatGap <= HeartbeatTimeout /\ state = Circuit!Closed /\ state' = Circuit!Open
       /\ stopCh = "open"
       => daemon = "down" \/ daemonFor <= ReconcileInterval + HeartbeatGap]_vars

(* No patch is applied while the circuit is OPEN: "true if the controller  *)
(* must suspend replica mutations" (failover.go:144).  The question is     *)
(* asked in one critical section and the Step taken in a later one, so one *)
(* thing can defeat it: a loop that lost more than the heartbeat timeout   *)
(* between its answer and its Step (controller.go:275-281).                *)
NoPatchWhileOpen ==
  [][activeReplicas' # activeReplicas
       => state # Circuit!Open \/ waited > HeartbeatTimeout]_vars

(* Once the daemon stays up, control returns to LogStrata for good, if the *)
(* heartbeat timeout covers the gap between heartbeats.                    *)
Recovers ==
  HeartbeatGap <= HeartbeatTimeout /\ <>[](daemon = "up" /\ stopCh = "open")
    => <>[](state = Circuit!Closed)

(* "Blocked IPs are managed with automatic TTL expiration [...] ensuring   *)
(* clean recovery once the attack subsides" (DocsClientPage.tsx:464): when *)
(* the daemon answers forever and never again reports a blocked address,   *)
(* the controller's manifests drop them.  Step never clears them.          *)
MitigationsExpire ==
  <>[](daemon = "up" /\ stopCh = "open" /\ telemetry.blocked = {})
    => <>[](mitigated = {})

=============================================================================
