----------------------------- MODULE MCWatchdog -----------------------------
(***************************************************************************)
(* The watchdog with a history variable: the heartbeats recorded since the *)
(* circuit last left CLOSED, which the tests and comments of               *)
(* pkg/controller speak about and the code does not keep.                  *)
(***************************************************************************)
EXTENDS Watchdog

VARIABLE probes

mcVars == <<watchdogVars, probes>>

MCInit == Init /\ probes = 0

Probed ==
  probes' = IF state = Closed THEN 0 ELSE OneMore(probes, ProbesToClose)

Heartbeat == RecordHeartbeat /\ Probed
Failure   == RecordFailure   /\ UNCHANGED probes
Liveness  == CheckLiveness   /\ UNCHANGED probes
Tick      == Age             /\ UNCHANGED probes

MCNext == Heartbeat \/ Failure \/ Liveness \/ Tick

MCSpec == MCInit /\ [][MCNext]_mcVars

-----------------------------------------------------------------------------
(* What failover_test.go:105-114 says of recovery: "expected still         *)
(* HALF_OPEN after 1 success", and only the second successful probe closes *)
(* the circuit.  The code keeps consecutiveSuccesses across a trip that    *)
(* CheckLiveness performs, so one probe can be enough.                     *)
RecoveryNeedsTwoProbes ==
  [][state = HalfOpen /\ state' = Closed => probes' >= ProbesToClose]_mcVars

=============================================================================
