--------------------------- MODULE WatchdogProofs ---------------------------
(***************************************************************************)
(* The watchdog's invariant, and that it implements the abstract breaker,  *)
(* for every failure budget, heartbeat timeout and cool-off.               *)
(***************************************************************************)
EXTENDS Watchdog, TLAPS

(* ClosedWithinBudget is not inductive without the types of the counters;  *)
(* the refinement needs OneStreak besides, because the breaker's last      *)
(* signal is read off both streaks.                                        *)
WatchdogInv == TypeOK /\ ClosedWithinBudget /\ OneStreak

(* Counting once more towards a limit stays within it.                     *)
LEMMA OneMoreBounded ==
  ASSUME NEW limit \in Nat \ {0}, NEW n \in 0..limit
  PROVE  OneMore(n, limit) \in 1..limit
BY DEF OneMore

(* Either streak, counted once more, is neither zero nor over its limit.   *)
LEMMA StreaksGrow ==
  ASSUME TypeOK
  PROVE  /\ OneMore(consecutiveFailures, MaxConsecutiveFailures)
               \in 1..MaxConsecutiveFailures
         /\ OneMore(consecutiveSuccesses, ProbesToClose) \in 1..ProbesToClose
<1>1. OneMore(consecutiveFailures, MaxConsecutiveFailures)
        \in 1..MaxConsecutiveFailures
  BY WatchdogAssumption, OneMoreBounded DEF TypeOK
<1>2. OneMore(consecutiveSuccesses, ProbesToClose) \in 1..ProbesToClose
  BY OneMoreBounded DEF TypeOK, ProbesToClose
<1>3. QED
  BY <1>1, <1>2

LEMMA InitEstablishes == Init => WatchdogInv
BY WatchdogAssumption
   DEF Init, WatchdogInv, TypeOK, ClosedWithinBudget, OneStreak, ProbesToClose

LEMMA StepPreserves == WatchdogInv /\ [Next]_watchdogVars => WatchdogInv'
<1> SUFFICES ASSUME WatchdogInv, [Next]_watchdogVars
             PROVE  WatchdogInv'
    OBVIOUS
<1> USE WatchdogAssumption DEF WatchdogInv, TypeOK, ClosedWithinBudget, OneStreak
<1>0. /\ OneMore(consecutiveFailures, MaxConsecutiveFailures)
           \in 1..MaxConsecutiveFailures
      /\ OneMore(consecutiveSuccesses, ProbesToClose) \in 1..ProbesToClose
  BY StreaksGrow
<1>1. CASE RecordHeartbeat
  BY <1>0, <1>1
     DEF RecordHeartbeat, HeartbeatLeaving, Enter, Remain, ProbesToClose,
         Closed, HalfOpen, Open
<1>2. CASE RecordFailure
  BY <1>0, <1>2
     DEF RecordFailure, FailureLeaving, ClosedTrips, Enter, Remain,
         ProbesToClose, Closed, HalfOpen, Open
<1>3. CASE CheckLiveness
  BY <1>3 DEF CheckLiveness, Enter, Remain, Closed, HalfOpen, Open
<1>4. CASE Age
  <2>1. OneMore(heartbeatAge, HeartbeatTimeout + 1) \in 1..(HeartbeatTimeout + 1)
    BY OneMoreBounded
  <2>2. OneMore(stateAge, CooloffDuration + 1) \in 1..(CooloffDuration + 1)
    BY OneMoreBounded
  <2>3. QED
    BY <1>4, <2>1, <2>2 DEF Age
<1>5. CASE UNCHANGED watchdogVars
  BY <1>5 DEF watchdogVars
<1>6. QED
  BY <1>1, <1>2, <1>3, <1>4, <1>5 DEF Next

LEMMA WatchdogInvariant == Spec => []WatchdogInv
BY InitEstablishes, StepPreserves, PTL DEF Spec

(* The watchdog's variables keep their types (failover.go:46-55).          *)
THEOREM WatchdogTypeOK == Spec => []TypeOK
<1>1. WatchdogInv => TypeOK
  BY DEF WatchdogInv
<1>2. QED
  BY <1>1, WatchdogInvariant, PTL

(* A circuit that is CLOSED has failures left in its budget, for every     *)
(* budget and both timers (RecordHeartbeat, RecordFailure and              *)
(* CheckLiveness of failover.go).                                          *)
THEOREM WatchdogClosedWithinBudget == Spec => []ClosedWithinBudget
<1>1. WatchdogInv => ClosedWithinBudget
  BY DEF WatchdogInv
<1>2. QED
  BY <1>1, WatchdogInvariant, PTL

(* No state counts both a failure streak and a success streak.             *)
THEOREM WatchdogOneStreak == Spec => []OneStreak
<1>1. WatchdogInv => OneStreak
  BY DEF WatchdogInv
<1>2. QED
  BY <1>1, WatchdogInvariant, PTL

-----------------------------------------------------------------------------
LEMMA BreakerInit == Init => Circuit!Init
BY DEF Init, Circuit!Init, LastSignal, Closed, Circuit!Closed

LEMMA BreakerStep ==
  WatchdogInv /\ [Next]_watchdogVars => [Circuit!Next]_(Circuit!breakerVars)
<1> SUFFICES ASSUME WatchdogInv, [Next]_watchdogVars
             PROVE  Circuit!Next \/ UNCHANGED Circuit!breakerVars
    BY DEF Circuit!breakerVars
<1> USE WatchdogAssumption
    DEF Closed, HalfOpen, Open, Circuit!Closed, Circuit!HalfOpen, Circuit!Open
<1>0. /\ OneMore(consecutiveFailures, MaxConsecutiveFailures)
           \in 1..MaxConsecutiveFailures
      /\ OneMore(consecutiveSuccesses, ProbesToClose) \in 1..ProbesToClose
  BY StreaksGrow DEF WatchdogInv
<1>1. CASE RecordHeartbeat
  <2>1. LastSignal' = "good"
    BY <1>0, <1>1
       DEF RecordHeartbeat, HeartbeatLeaving, LastSignal, ProbesToClose
  <2>2. QED
    BY <1>1, <2>1
       DEF RecordHeartbeat, HeartbeatLeaving, Enter, Remain,
           Circuit!Next, Circuit!GoodSignal
<1>2. CASE RecordFailure
  <2>1. LastSignal' = "bad"
    BY <1>0, <1>2 DEF RecordFailure, FailureLeaving, LastSignal
  <2>2. QED
    BY <1>2, <2>1
       DEF RecordFailure, FailureLeaving, ClosedTrips, Enter, Remain,
           WatchdogInv, TypeOK, Circuit!Next, Circuit!BadSignal
<1>3. CASE CheckLiveness
  BY <1>3
     DEF CheckLiveness, Enter, Remain, LastSignal,
         Circuit!Next, Circuit!Silence, Circuit!breakerVars
<1>4. CASE Age
  BY <1>4 DEF Age, LastSignal, Circuit!breakerVars
<1>5. CASE UNCHANGED watchdogVars
  BY <1>5 DEF watchdogVars, LastSignal, Circuit!breakerVars
<1>6. QED
  BY <1>1, <1>2, <1>3, <1>4, <1>5 DEF Next

(* The watchdog implements the three-state breaker: it closes only on a    *)
(* good signal from HALF_OPEN, a bad signal always re-opens a probe, and   *)
(* silence never closes it, whatever the budget and the timers.            *)
THEOREM WatchdogImplementsBreaker == Spec => ImplementsBreaker
<1>1. Spec => [][Circuit!Next]_(Circuit!breakerVars)
  BY WatchdogInvariant, BreakerStep, PTL DEF Spec
<1>2. Spec => Circuit!Init
  BY BreakerInit DEF Spec
<1>3. QED
  BY <1>1, <1>2 DEF ImplementsBreaker, Circuit!Spec

=============================================================================
