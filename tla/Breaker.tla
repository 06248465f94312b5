------------------------------ MODULE Breaker ------------------------------
(***************************************************************************)
(* What a three-state circuit breaker promises its caller, whatever the    *)
(* counters and timers that drive it: the states and transitions that      *)
(* CHANGELOG.md names for pkg/controller/failover.go, as the code performs *)
(* them.  Watchdog.tla is shown to implement this specification.           *)
(*                                                                         *)
(*   - the circuit closes only on a good signal, and only from HALF_OPEN;  *)
(*   - a bad signal never leaves the circuit HALF_OPEN;                    *)
(*   - silence alone may open a closed circuit, and may let an open one    *)
(*     be probed, but it never closes anything.                            *)
(***************************************************************************)

Closed   == "CLOSED"
HalfOpen == "HALF_OPEN"
Open     == "OPEN"

CircuitState == {Closed, HalfOpen, Open}

(* What the most recent signal about the daemon was.                       *)
Evidence == {"none", "good", "bad"}

VARIABLES circuit, evidence

breakerVars == <<circuit, evidence>>

Init ==
  /\ circuit = Closed
  /\ evidence = "none"

GoodSignal ==
  /\ evidence' = "good"
  /\ \/ circuit = Closed   /\ circuit' = Closed
     \/ circuit = HalfOpen /\ circuit' \in {HalfOpen, Closed}
     \/ circuit = Open     /\ circuit' = HalfOpen

BadSignal ==
  /\ evidence' = "bad"
  /\ \/ circuit = Closed             /\ circuit' \in {Closed, Open}
     \/ circuit \in {HalfOpen, Open} /\ circuit' = Open

Silence ==
  /\ \/ circuit = Closed /\ circuit' = Open
     \/ circuit = Open   /\ circuit' = HalfOpen
  /\ UNCHANGED evidence

Next == GoodSignal \/ BadSignal \/ Silence

Spec == Init /\ [][Next]_breakerVars

=============================================================================
