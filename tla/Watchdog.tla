------------------------------ MODULE Watchdog ------------------------------
(***************************************************************************)
(* CircuitBreakerWatchdog (pkg/controller/failover.go): the controller's   *)
(* circuit breaker over the daemon's telemetry.  Every method runs under   *)
(* w.mu, so each is one action.                                            *)
(*                                                                         *)
(* A timestamp is kept as the AGE it has now, in ticks.  The code only     *)
(* ever tests "now - t > D", so an age beyond D is not told apart from     *)
(* D + 1 and the ages stay finite without a bound on time.  The counters   *)
(* are only tested with ">= limit" and saturate at that limit likewise.    *)
(* lastFailure is reported and never tested: it is left out.               *)
(***************************************************************************)
EXTENDS Naturals

CONSTANTS
  MaxConsecutiveFailures, (* failures in a row that trip a closed circuit *)
  HeartbeatTimeout,       (* ticks without a heartbeat that trip it       *)
  CooloffDuration         (* ticks OPEN before CheckLiveness probes       *)

ASSUME WatchdogAssumption ==
  /\ MaxConsecutiveFailures \in Nat \ {0}
  /\ HeartbeatTimeout \in Nat
  /\ CooloffDuration \in Nat

Closed   == "CLOSED"
HalfOpen == "HALF_OPEN"
Open     == "OPEN"

(* Heartbeats in a row that close a half-open circuit.                     *)
ProbesToClose == 2

VARIABLES
  state,
  consecutiveFailures,
  consecutiveSuccesses,
  heartbeatAge, (* age of lastHeartbeat   *)
  stateAge      (* age of stateChangeTime *)

watchdogVars ==
  <<state, consecutiveFailures, consecutiveSuccesses, heartbeatAge, stateAge>>

(* One more of a quantity that nothing tells apart beyond its limit.       *)
OneMore(n, limit) == IF n < limit THEN n + 1 ELSE limit

Init ==
  /\ state = Closed
  /\ consecutiveFailures = 0
  /\ consecutiveSuccesses = 0
  /\ heartbeatAge = 0
  /\ stateAge = 0

(* Enter circuit state s: the code stamps stateChangeTime with it.         *)
Enter(s) ==
  /\ state' = s
  /\ stateAge' = 0

Remain == UNCHANGED <<state, stateAge>>

-----------------------------------------------------------------------------
(* The body of RecordHeartbeat, leaving the failure count at `failures'.   *)
HeartbeatLeaving(failures) ==
  /\ heartbeatAge' = 0
  /\ consecutiveFailures' = failures
  /\ LET streak == OneMore(consecutiveSuccesses, ProbesToClose) IN
     \/ /\ state = HalfOpen /\ streak >= ProbesToClose
        /\ Enter(Closed)
        /\ consecutiveSuccesses' = streak
     \/ /\ state = Open
        /\ Enter(HalfOpen)
        /\ consecutiveSuccesses' = 1
     \/ /\ state = Closed \/ (state = HalfOpen /\ streak < ProbesToClose)
        /\ Remain
        /\ consecutiveSuccesses' = streak

(* A telemetry pull succeeded.                                             *)
FaultyRecordHeartbeat == HeartbeatLeaving(consecutiveFailures)

RecordHeartbeat == HeartbeatLeaving(0)

(* The body of RecordFailure, leaving the success count at `successes' and *)
(* opening the circuit when `trips' holds.                                 *)
FailureLeaving(successes, trips) ==
  /\ consecutiveFailures' = OneMore(consecutiveFailures, MaxConsecutiveFailures)
  /\ consecutiveSuccesses' = successes
  /\ IF trips THEN Enter(Open) ELSE Remain
  /\ UNCHANGED heartbeatAge

(* A closed circuit trips on the failure that spends its budget, or on any *)
(* failure once the last heartbeat is too old.                             *)
ClosedTrips ==
  /\ state = Closed
  /\ \/ consecutiveFailures' >= MaxConsecutiveFailures
     \/ heartbeatAge > HeartbeatTimeout

(* A telemetry pull failed; a failed probe re-opens the circuit at once.   *)
FaultyRecordFailure == FailureLeaving(consecutiveSuccesses, state = HalfOpen \/ ClosedTrips)
BlindRecordFailure  == FailureLeaving(0, ClosedTrips)

RecordFailure == FailureLeaving(0, state = HalfOpen \/ ClosedTrips)

(* The timers are consulted.  The two tests are ifs in sequence, but the   *)
(* first one returns, so a circuit that trips is not probed in one call.   *)
CheckLiveness ==
  /\ \/ /\ state = Closed /\ heartbeatAge > HeartbeatTimeout
        /\ Enter(Open)
     \/ /\ state = Open /\ stateAge > CooloffDuration
        /\ Enter(HalfOpen)
     \/ /\ ~(state = Closed /\ heartbeatAge > HeartbeatTimeout)
        /\ ~(state = Open /\ stateAge > CooloffDuration)
        /\ Remain
  /\ UNCHANGED <<consecutiveFailures, consecutiveSuccesses, heartbeatAge>>

ShouldYieldToHPA == state = Open

(* A tick of the clock: both timestamps grow older.                        *)
Age ==
  /\ heartbeatAge' = OneMore(heartbeatAge, HeartbeatTimeout + 1)
  /\ stateAge' = OneMore(stateAge, CooloffDuration + 1)
  /\ UNCHANGED <<state, consecutiveFailures, consecutiveSuccesses>>

Next == RecordHeartbeat \/ RecordFailure \/ CheckLiveness \/ Age

Spec == Init /\ [][Next]_watchdogVars

-----------------------------------------------------------------------------
TypeOK ==
  /\ state \in {Closed, HalfOpen, Open}
  /\ consecutiveFailures \in 0..MaxConsecutiveFailures
  /\ consecutiveSuccesses \in 0..ProbesToClose
  /\ heartbeatAge \in 0..(HeartbeatTimeout + 1)
  /\ stateAge \in 0..(CooloffDuration + 1)

(* A circuit that is CLOSED never stands at or beyond its failure budget,  *)
(* however the three methods were interleaved and through whichever path   *)
(* it came to be closed: RecordFailure trips it at the budget, and the     *)
(* heartbeat that closes it again has cleared the count (failover.go:75,   *)
(* 78, 107).                                                               *)
ClosedWithinBudget ==
  state = Closed => consecutiveFailures < MaxConsecutiveFailures

(* The two streaks exclude each other: the successes that count towards    *)
(* closing the circuit all came after the last failure, and conversely     *)
(* (failover.go:75 and 99).                                                *)
OneStreak == consecutiveFailures = 0 \/ consecutiveSuccesses = 0

(* The last signal, read off the two streaks.                              *)
LastSignal ==
  IF consecutiveFailures > 0 THEN "bad"
  ELSE IF consecutiveSuccesses > 0 THEN "good" ELSE "none"

Circuit == INSTANCE Breaker WITH circuit <- state, evidence <- LastSignal

(* Every behaviour of the watchdog is one of the abstract breaker: it      *)
(* closes only on a heartbeat from HALF_OPEN, a failed probe re-opens it,  *)
(* and the timers never close it (failover.go:78-86, 106-117, 129-139).    *)
ImplementsBreaker == Circuit!Spec

=============================================================================
