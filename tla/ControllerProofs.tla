-------------------------- MODULE ControllerProofs --------------------------
(***************************************************************************)
(* The operator's loop, for every policy, every timing and every report a  *)
(* daemon can send: its types, its safety properties, and that it uses the *)
(* circuit as the watchdog of WatchdogProofs.                              *)
(***************************************************************************)
EXTENDS Controller, DecisionEngineProofs

-----------------------------------------------------------------------------
(* What the patched count rests on: the report a Step works on is made of  *)
(* numbers.                                                                *)
HeldReport == telemetry.load \in Nat /\ telemetry.current \in Nat

PatchIInv == HeldReport /\ PatchesInBounds

LEMMA ReportsAreNumbers ==
  ASSUME NEW t \in Telemetries
  PROVE  t.load \in Nat /\ t.current \in Nat
BY ControllerAssumption DEF Telemetries

(* The count in force after a Step's decision is within bounds.            *)
LEMMA StepDecisionInBounds ==
  ASSUME PatchIInv, Scales(StepDecision)
  PROVE  StepDecision.desired \in MinReplicas..MaxReplicas
<1> DEFINE d == StepDecision
<1>1. telemetry.load \in Nat /\ Current \in Nat
  BY PolicyAssumption DEF PatchIInv, HeldReport, PatchesInBounds, Current
<1>2. Desired(telemetry.load) \in MinReplicas..MaxReplicas
  BY <1>1, DesiredInBounds, ControllerAssumption
<1>3. (telemetry.threat = "active") \in BOOLEAN
  OBVIOUS
<1>4. \/ d = Decision("SCALE_UP", Desired(telemetry.load))
      \/ d = Decision("SCALE_DOWN", Desired(telemetry.load))
      \/ d = Decision("MAINTAIN", Current)
      \/ d = Decision("LOCKED", Current)
  <2> HIDE DEF d
  <2>1. d = Decide(Current, telemetry.load, telemetry.threat = "active")
    BY DEF d, StepDecision
  <2> QED
    BY <1>1, <1>3, <2>1, DecisionShape, ControllerAssumption
<1>5. d.action \in {"SCALE_UP", "SCALE_DOWN"}
  BY DEF Scales
<1> HIDE DEF d
<1>6. d.desired = Desired(telemetry.load)
  BY <1>4, <1>5 DEF Decision
<1> QED
  BY <1>2, <1>6 DEF d

LEMMA PatchInit == Init => PatchIInv
BY PolicyAssumption, ControllerAssumption
DEF Init, PatchIInv, HeldReport, PatchesInBounds, NoTelemetry

LEMMA PatchStep == PatchIInv /\ [Next]_vars => PatchIInv'
<1> SUFFICES ASSUME PatchIInv, [Next]_vars
             PROVE  PatchIInv'
  OBVIOUS
<1> USE DEF PatchIInv, HeldReport, PatchesInBounds
<1>1. CASE FetchSucceeded
  BY <1>1, ReportsAreNumbers DEF FetchSucceeded, stepVars
<1>2. CASE Yield
  BY <1>2 DEF Yield, NoTelemetry, stepVars
<1>3. CASE Step
  <2>1. HeldReport'
    BY <1>3 DEF Step, NoTelemetry
  <2>2. activeReplicas' = IF Scales(StepDecision) THEN StepDecision.desired
                                                  ELSE activeReplicas
    BY <1>3 DEF Step
  <2>3. activeReplicas' \in MinReplicas..MaxReplicas
    BY <2>2, StepDecisionInBounds
  <2> QED
    BY <2>1, <2>3
<1>4. ASSUME \/ BeginFetch \/ FetchFailed \/ Accept \/ Exit
             \/ GetReconciliations \/ Notify \/ Stop \/ DaemonChanges \/ Tick
             \/ UNCHANGED vars
      PROVE  UNCHANGED <<telemetry, activeReplicas>>
  BY <1>4 DEF BeginFetch, FetchFailed, Accept, Exit, GetReconciliations,
              Notify, Stop, DaemonChanges, Tick, vars, stepVars
<1>5. QED
  BY <1>1, <1>2, <1>3, <1>4 DEF Next, Loop

(* No report, whatever count or load it carries, makes the controller      *)
(* patch the workload out of its policy's bounds.                          *)
THEOREM ControllerPatchesInBounds == Spec => []PatchesInBounds
<1>1. PatchIInv => PatchesInBounds
  BY DEF PatchIInv
<1> QED
  BY PatchInit, PatchStep, <1>1, PTL DEF Spec

-----------------------------------------------------------------------------
(* Between an answer and its Step the last heartbeat is no older than the  *)
(* stall, so the timers have nothing to trip on, and the circuit, which    *)
(* the heartbeat took out of OPEN, stays out of it, unless the stall       *)
(* itself outlasts the heartbeat timeout.                                  *)
StallIInv ==
  /\ heartbeatAge \in Nat
  /\ waited \in Nat
  /\ pc \in {"heard", "step"} =>
       /\ heartbeatAge <= waited
       /\ state # Circuit!Open \/ waited > HeartbeatTimeout

LEMMA StallInit == Init => StallIInv
BY DEF Init, StallIInv, Circuit!Init

LEMMA StallStep == StallIInv /\ [Next]_vars => StallIInv'
<1> SUFFICES ASSUME StallIInv, [Next]_vars
             PROVE  StallIInv'
  OBVIOUS
<1> USE ControllerAssumption
<1>1. CASE BeginFetch
  BY <1>1 DEF BeginFetch, StallIInv, Goto, watchdogVars
<1>2. CASE FetchFailed
  BY <1>2 DEF FetchFailed, StallIInv, Goto, Circuit!RecordFailure,
              Circuit!FailureLeaving
<1>3. CASE FetchSucceeded
  <2>1. Circuit!HeartbeatLeaving(0)
    BY <1>3 DEF FetchSucceeded, Circuit!RecordHeartbeat
  <2>2. heartbeatAge' = 0
    BY <2>1 DEF Circuit!HeartbeatLeaving
  <2>3. state' # Circuit!Open
    BY <2>1 DEF Circuit!HeartbeatLeaving, Circuit!Enter, Circuit!Remain,
                Circuit!Open, Circuit!HalfOpen, Circuit!Closed
  <2> QED
    BY <1>3, <2>2, <2>3 DEF FetchSucceeded, StallIInv, Goto
<1>4. CASE Accept
  BY <1>4 DEF Accept, StallIInv, watchdogVars
<1>5. CASE Yield
  BY <1>5 DEF Yield, StallIInv, Goto, watchdogVars
<1>6. CASE Step
  BY <1>6 DEF Step, StallIInv, Goto, watchdogVars
<1>7. CASE Exit
  BY <1>7 DEF Exit, StallIInv, Goto, watchdogVars
<1>8. CASE GetReconciliations
  <2>1. UNCHANGED <<pc, waited, heartbeatAge>>
    BY <1>8 DEF GetReconciliations, Circuit!CheckLiveness
  <2>2. pc \in {"heard", "step"} =>
          state' # Circuit!Open \/ waited > HeartbeatTimeout
    BY <1>8 DEF GetReconciliations, StallIInv, Circuit!CheckLiveness,
                Circuit!Enter, Circuit!Remain, Circuit!Open, Circuit!HalfOpen,
                Circuit!Closed
  <2> QED
    BY <2>1, <2>2 DEF StallIInv
<1>9. CASE Tick
  <2>1. UNCHANGED <<pc, state>>
    BY <1>9 DEF Tick, Circuit!Age
  <2>2. heartbeatAge' \in Nat /\ heartbeatAge' <= heartbeatAge + 1
    BY <1>9 DEF Tick, Circuit!Age, Circuit!OneMore, StallIInv
  <2>3. waited' \in Nat
    BY <1>9 DEF Tick, StallIInv
  <2>4. ASSUME pc \in {"heard", "step"}
        PROVE  waited' = waited + 1
    BY <1>9, <2>4 DEF Tick
  <2> QED
    BY <2>1, <2>2, <2>3, <2>4 DEF StallIInv
<1>10. CASE Notify \/ Stop \/ DaemonChanges \/ UNCHANGED vars
  BY <1>10 DEF Notify, Stop, DaemonChanges, vars, watchdogVars, StallIInv
<1>11. QED
  BY <1>1, <1>2, <1>3, <1>4, <1>5, <1>6, <1>7, <1>8, <1>9, <1>10
  DEF Next, Loop

(* Asking ShouldYieldToHPA in a critical section of its own is enough but  *)
(* for stalls that outlast the heartbeat timeout: otherwise no patch is    *)
(* applied while the circuit is OPEN, for every timing of polls, answers   *)
(* and stalls.                                                             *)
THEOREM ControllerNoPatchWhileOpen == Spec => NoPatchWhileOpen
<1> DEFINE Guarded ==
      activeReplicas' # activeReplicas
        => state # Circuit!Open \/ waited > HeartbeatTimeout
<1>1. StallIInv /\ [Next]_vars => [Guarded]_vars
  <2> SUFFICES ASSUME StallIInv, Next
               PROVE  Guarded
    OBVIOUS
  <2>1. CASE Step
    BY <2>1 DEF Step, StallIInv
  <2>2. CASE ~Step
    BY <2>2 DEF Next, Loop, BeginFetch, FetchFailed, FetchSucceeded, Accept,
                Yield, Exit, GetReconciliations, Notify, Stop, DaemonChanges,
                Tick, stepVars
  <2> QED
    BY <2>1, <2>2
<1>2. StallIInv /\ [Next]_vars => StallIInv'
  BY StallStep
<1> HIDE DEF Guarded
<1>3. Spec => [][Guarded]_vars
  BY StallInit, <1>1, <1>2, PTL DEF Spec
<1> QED
  BY <1>3 DEF NoPatchWhileOpen, Guarded

-----------------------------------------------------------------------------
(* The timing of the loop, which both of the following theorems rest on:   *)
(* fetches and stalls keep to their limits, and a ticker that has not      *)
(* fired since the fetch began is at least as far into its period as the   *)
(* loop is into its fetch or stall.                                        *)
PollIInv ==
  /\ pc \in {"wait", "fetch", "heard", "step", "stopped"}
  /\ waited \in Nat /\ daemonFor \in Nat /\ heartbeatAge \in Nat /\ stall \in Nat
  /\ phase \in 0..(ReconcileInterval - 1) /\ tickDue \in 0..1
  /\ pc = "stopped" => stopCh = "closed"
  /\ pc = "fetch" => waited <= ClientTimeout
  /\ pc \in {"heard", "step"} => waited <= stall
  /\ pc \in {"fetch", "heard", "step"} /\ tickDue = 0 => waited <= phase

(* What is left until the select can take the ticker's next fire.          *)
UntilFire == IF tickDue = 1 THEN 0 ELSE ReconcileInterval - phase

LEMMA LargerBounds ==
  ASSUME NEW m \in Nat, NEW n \in Nat
  PROVE  Larger(m, n) \in Nat /\ m <= Larger(m, n) /\ n <= Larger(m, n)
BY DEF Larger

(* The ticker's phase is counted modulo its period.                        *)
LEMMA NextPhase ==
  ASSUME NEW p \in 0..(ReconcileInterval - 1)
  PROVE  (p + 1) % ReconcileInterval = IF p + 1 = ReconcileInterval THEN 0 ELSE p + 1
<1> USE ControllerAssumption
<1>1. CASE p + 1 = ReconcileInterval
  BY <1>1
<1>2. CASE p + 1 < ReconcileInterval
  BY <1>2
<1> QED
  BY <1>1, <1>2

(* The longest a poll takes, and what a dead daemon may have cost before   *)
(* the poll that follows f failures: the stall it died in and one longest  *)
(* poll for each failure and for what was left of the first.               *)
Period == Larger(ReconcileInterval, ClientTimeout)

Allowance(s, f) == s + (f + 1) * Period

LEMMA PeriodBounds ==
  /\ Period \in Nat /\ ReconcileInterval <= Period /\ ClientTimeout <= Period
BY ControllerAssumption DEF Period, Larger

LEMMA AllowanceGrows ==
  ASSUME NEW s \in Nat, NEW f \in Nat
  PROVE  /\ Allowance(s, f) \in Nat
         /\ s + Period <= Allowance(s, f)
         /\ Allowance(s, f + 1) = Allowance(s, f) + Period
<1> USE ControllerAssumption, PeriodBounds
<1> DEFINE cost == f * Period
<1>1. cost \in Nat
  OBVIOUS
<1>2. (f + 1) * Period = cost + Period /\ (f + 1 + 1) * Period = cost + Period + Period
  OBVIOUS
<1> HIDE DEF cost
<1> QED
  BY <1>1, <1>2 DEF Allowance

LEMMA AllowanceWithinBound ==
  ASSUME stall \in Nat, NEW f \in Nat, f < MaxConsecutiveFailures
  PROVE  /\ Allowance(stall, f) + Period <= DetectionBound
         /\ DetectionBound \in Nat
<1> USE ControllerAssumption, PeriodBounds
<1> DEFINE spare == MaxConsecutiveFailures - f - 1
<1>1. spare \in Nat /\ spare * Period \in Nat
  OBVIOUS
<1>2. (MaxConsecutiveFailures + 1) * Period = (f + 1) * Period + spare * Period + Period
  OBVIOUS
<1>3. (f + 1) * Period \in Nat
  OBVIOUS
<1>4. DetectionBound = stall + (MaxConsecutiveFailures + 1) * Period
  BY DEF DetectionBound, Period
<1> HIDE DEF spare
<1> QED
  BY <1>1, <1>2, <1>3, <1>4 DEF Allowance

LEMMA PollInit == Init => PollIInv
<1>1. Init => stall \in Nat
  BY ControllerAssumption DEF Init
<1>2. stall \in Nat => StatusHorizon \in Nat
  BY ControllerAssumption, AllowanceWithinBound DEF StatusHorizon
<1> QED
  BY <1>1, <1>2, ControllerAssumption DEF Init, PollIInv, Circuit!Init

(* What a tick does to the loop's clocks.                                  *)
LEMMA TickMoves ==
  ASSUME PollIInv, Tick
  PROVE  /\ UNCHANGED <<pc, state, consecutiveFailures, stopCh, daemon, stall>>
         /\ heartbeatAge' \in Nat /\ heartbeatAge' <= heartbeatAge + 1
         /\ daemonFor' \in Nat /\ daemonFor' <= daemonFor + 1
         /\ pc \in {"fetch", "heard", "step"} => waited' = waited + 1
         /\ pc \in {"wait", "stopped"} => waited' = 0
         /\ phase' \in 0..(ReconcileInterval - 1)
         /\ tickDue' \in 0..1
         /\ pc # "stopped" /\ tickDue' = 0 => tickDue = 0 /\ phase' = phase + 1
         /\ pc = "wait" /\ stopCh = "open"
              => UntilFire \in Nat /\ UntilFire' = UntilFire - 1
<1> USE ControllerAssumption
<1>1. /\ UNCHANGED <<pc, state, consecutiveFailures, stopCh, daemon, stall>>
      /\ heartbeatAge' \in Nat /\ heartbeatAge' <= heartbeatAge + 1
  BY DEF Tick, Circuit!Age, Circuit!OneMore, PollIInv
<1>2. daemonFor' \in Nat /\ daemonFor' <= daemonFor + 1
  BY DEF Tick, PollIInv
<1>3. /\ pc \in {"fetch", "heard", "step"} => waited' = waited + 1
      /\ pc \in {"wait", "stopped"} => waited' = 0
  BY DEF Tick
<1>4. phase' = IF phase + 1 = ReconcileInterval THEN 0 ELSE phase + 1
  BY NextPhase DEF Tick, PollIInv
<1>5. phase' \in 0..(ReconcileInterval - 1)
  BY <1>4 DEF PollIInv
<1>6. tickDue' = IF phase' = 0 /\ pc # "stopped" THEN 1 ELSE tickDue
  BY DEF Tick
<1>7. tickDue' \in 0..1
  BY <1>6 DEF PollIInv
<1>8. pc # "stopped" /\ tickDue' = 0 => tickDue = 0 /\ phase' = phase + 1
  BY <1>4, <1>6 DEF PollIInv
<1>9. ASSUME pc = "wait", stopCh = "open"
      PROVE  UntilFire \in Nat /\ UntilFire' = UntilFire - 1
  <2>1. tickDue = 0
    BY <1>9 DEF Tick, MayWait
  <2> QED
    BY <2>1, <1>4, <1>6, <1>9 DEF UntilFire, PollIInv
<1> QED
  BY <1>1, <1>2, <1>3, <1>5, <1>7, <1>8, <1>9

LEMMA PollStep == PollIInv /\ [Next]_vars => PollIInv'
<1> SUFFICES ASSUME PollIInv, [Next]_vars
             PROVE  PollIInv'
  OBVIOUS
<1> USE ControllerAssumption
<1>1. CASE BeginFetch
  BY <1>1 DEF BeginFetch, PollIInv, Goto, watchdogVars, environmentVars
<1>2. CASE FetchFailed
  BY <1>2 DEF FetchFailed, PollIInv, Goto, Circuit!RecordFailure,
              Circuit!FailureLeaving, clockVars, environmentVars
<1>3. CASE FetchSucceeded
  BY <1>3 DEF FetchSucceeded, PollIInv, Goto, Circuit!RecordHeartbeat,
              Circuit!HeartbeatLeaving, clockVars, environmentVars
<1>4. CASE Accept
  BY <1>4 DEF Accept, PollIInv, watchdogVars, clockVars, environmentVars
<1>5. CASE Yield
  BY <1>5 DEF Yield, PollIInv, Goto, watchdogVars, clockVars, environmentVars
<1>6. CASE Step
  BY <1>6 DEF Step, PollIInv, Goto, watchdogVars, clockVars, environmentVars
<1>7. CASE Exit
  BY <1>7 DEF Exit, PollIInv, Goto, watchdogVars, clockVars, environmentVars
<1>8. CASE GetReconciliations
  BY <1>8 DEF GetReconciliations, Circuit!CheckLiveness, PollIInv, clockVars,
              environmentVars
<1>9. CASE Tick
  <2>1. /\ pc = "fetch" => waited < ClientTimeout
        /\ pc \in {"heard", "step"} => waited < stall
    BY <1>9 DEF Tick, MayWait
  <2> QED
    BY <1>9, <2>1, TickMoves DEF PollIInv
<1>10. CASE Notify \/ Stop \/ DaemonChanges \/ UNCHANGED vars
  BY <1>10 DEF Notify, Stop, DaemonChanges, vars, watchdogVars, clockVars,
               environmentVars, PollIInv
<1> QED
  BY <1>1, <1>2, <1>3, <1>4, <1>5, <1>6, <1>7, <1>8, <1>9, <1>10
  DEF Next, Loop

-----------------------------------------------------------------------------
(* How long a daemon can have been dead while the circuit still stands     *)
(* closed, by where the loop is: every failure bought it one more poll.    *)
SilenceIInv ==
  /\ consecutiveFailures \in Nat
  /\ state = Circuit!Closed => consecutiveFailures < MaxConsecutiveFailures
  /\ daemon = "down" /\ pc \in {"heard", "step"} => daemonFor <= waited
  /\ daemon = "down" /\ stopCh = "open" /\ state = Circuit!Closed =>
       /\ pc = "wait" => daemonFor + UntilFire <= Allowance(stall, consecutiveFailures)
       /\ pc = "fetch" => daemonFor <= Allowance(stall, consecutiveFailures) + waited

LEMMA SilenceInit == Init => SilenceIInv
BY ControllerAssumption DEF Init, SilenceIInv, Circuit!Init

(* A loop that is back at its select after a stall that a death fell into. *)
LEMMA BackFromStall ==
  ASSUME PollIInv, consecutiveFailures \in Nat, daemonFor <= waited, waited <= stall
  PROVE  daemonFor + UntilFire <= Allowance(stall, consecutiveFailures)
BY AllowanceGrows, PeriodBounds, ControllerAssumption DEF PollIInv, UntilFire

LEMMA SilenceStep == PollIInv /\ SilenceIInv /\ [Next]_vars => SilenceIInv'
<1> SUFFICES ASSUME PollIInv, SilenceIInv, [Next]_vars
             PROVE  SilenceIInv'
  OBVIOUS
<1> USE ControllerAssumption
<1>0. UntilFire \in Nat /\ UntilFire <= ReconcileInterval
  BY DEF UntilFire, PollIInv
<1>f. Allowance(stall, consecutiveFailures) \in Nat
      /\ stall + Period <= Allowance(stall, consecutiveFailures)
  BY AllowanceGrows DEF SilenceIInv, PollIInv
<1>1. CASE BeginFetch
  <2>1. UntilFire = 0
    BY <1>1 DEF BeginFetch, UntilFire
  <2> QED
    BY <1>1, <2>1, <1>f DEF BeginFetch, SilenceIInv, PollIInv, Goto, watchdogVars,
                            environmentVars, UntilFire
<1>2. CASE FetchFailed
  <2>1. /\ pc = "fetch" /\ pc' = "wait" /\ waited' = 0
        /\ UNCHANGED <<phase, tickDue, stopCh, stall, daemon, daemonFor>>
    BY <1>2 DEF FetchFailed, Goto, clockVars, environmentVars
  <2>2. Circuit!RecordFailure
    BY <1>2 DEF FetchFailed
  <2>3. consecutiveFailures' \in Nat
    BY <2>2 DEF Circuit!RecordFailure, Circuit!FailureLeaving, Circuit!OneMore,
                SilenceIInv
  <2>4. ASSUME state' = Circuit!Closed
        PROVE  /\ state = Circuit!Closed
               /\ consecutiveFailures' = consecutiveFailures + 1
               /\ consecutiveFailures' < MaxConsecutiveFailures
    BY <2>2, <2>3, <2>4
    DEF Circuit!RecordFailure, Circuit!FailureLeaving, Circuit!ClosedTrips,
        Circuit!Enter, Circuit!Remain, Circuit!OneMore, Circuit!Open,
        Circuit!Closed, Circuit!HalfOpen, SilenceIInv
  <2>5. waited + UntilFire <= Period
    BY <2>1, PeriodBounds DEF UntilFire, PollIInv
  <2>6. ASSUME daemon = "down", stopCh = "open", state' = Circuit!Closed
        PROVE  daemonFor' + UntilFire' <= Allowance(stall, consecutiveFailures')
    <3>1. daemonFor <= Allowance(stall, consecutiveFailures) + waited
      BY <2>1, <2>4, <2>6 DEF SilenceIInv
    <3>2. Allowance(stall, consecutiveFailures') = Allowance(stall, consecutiveFailures) + Period
      BY <2>4, <2>6, AllowanceGrows DEF SilenceIInv, PollIInv
    <3>3. UntilFire' = UntilFire /\ daemonFor' = daemonFor
      BY <2>1 DEF UntilFire
    <3> QED
      BY <3>1, <3>2, <3>3, <2>5, <1>0, <1>f, PeriodBounds DEF PollIInv
  <2> QED
    BY <2>1, <2>3, <2>4, <2>6 DEF SilenceIInv
<1>3. CASE FetchSucceeded
  <2>1. daemon' = "up" /\ consecutiveFailures' = 0
    BY <1>3 DEF FetchSucceeded, environmentVars, Circuit!RecordHeartbeat,
                Circuit!HeartbeatLeaving
  <2> QED
    BY <2>1 DEF SilenceIInv
<1>4. CASE Accept
  BY <1>4 DEF Accept, SilenceIInv, watchdogVars, environmentVars, clockVars
<1>5. CASE Yield \/ Step
  <2>1. /\ pc \in {"heard", "step"} /\ pc' = "wait"
        /\ UNCHANGED <<watchdogVars, phase, tickDue, stopCh, stall, daemon, daemonFor>>
    BY <1>5 DEF Yield, Step, Goto, clockVars, environmentVars
  <2>2. ASSUME daemon = "down"
        PROVE  daemonFor + UntilFire <= Allowance(stall, consecutiveFailures)
    BY <2>1, <2>2, BackFromStall DEF SilenceIInv, PollIInv
  <2>3. UntilFire' = UntilFire
    BY <2>1 DEF UntilFire
  <2> QED
    BY <2>1, <2>2, <2>3 DEF SilenceIInv, watchdogVars
<1>6. CASE Exit
  BY <1>6 DEF Exit, SilenceIInv, Goto, watchdogVars, environmentVars
<1>7. CASE GetReconciliations
  <2>1. /\ UNCHANGED <<consecutiveFailures, pc, waited, phase, tickDue, stopCh, stall, daemon, daemonFor>>
        /\ state' = Circuit!Closed => state = Circuit!Closed
    BY <1>7 DEF GetReconciliations, Circuit!CheckLiveness, Circuit!Enter, Circuit!Remain,
                Circuit!Open, Circuit!HalfOpen, Circuit!Closed, clockVars, environmentVars
  <2> QED
    BY <2>1 DEF SilenceIInv, UntilFire
<1>8. CASE Tick
  <2>1. CASE pc = "wait"
    BY <1>8, <2>1, TickMoves, <1>f DEF SilenceIInv, PollIInv
  <2>2. CASE pc \in {"fetch", "heard", "step"}
    BY <1>8, <2>2, TickMoves, <1>f DEF SilenceIInv, PollIInv
  <2>3. CASE pc = "stopped"
    BY <1>8, <2>3, TickMoves DEF SilenceIInv
  <2> QED
    BY <2>1, <2>2, <2>3 DEF PollIInv
<1>9. CASE DaemonChanges
  <2>1. /\ UNCHANGED <<watchdogVars, pc, waited, phase, tickDue, stopCh, stall>>
        /\ daemonFor' = 0
    BY <1>9 DEF DaemonChanges, clockVars
  <2>2. UntilFire' = UntilFire
    BY <2>1 DEF UntilFire
  <2> QED
    BY <2>1, <2>2, <1>0, <1>f, PeriodBounds DEF SilenceIInv, PollIInv, watchdogVars
<1>10. CASE Notify \/ Stop \/ UNCHANGED vars
  BY <1>10 DEF Notify, Stop, vars, watchdogVars, clockVars, environmentVars,
               SilenceIInv, UntilFire
<1> QED
  BY <1>1, <1>2, <1>3, <1>4, <1>5, <1>6, <1>7, <1>8, <1>9, <1>10
  DEF Next, Loop

(* While the loop runs, a daemon that has been dead for longer than a      *)
(* stall and one poll more than the failure budget finds the circuit out   *)
(* of CLOSED, for every interval, timeout, budget and stall, wherever in   *)
(* its period it died (controller.go:266-273).                             *)
THEOREM ControllerFailsafeEngages == Spec => []FailsafeEngages
<1>1. PollIInv /\ SilenceIInv => FailsafeEngages
  <2> SUFFICES ASSUME PollIInv, SilenceIInv, daemon = "down", stopCh = "open",
                      state = Circuit!Closed
               PROVE  ~(daemonFor > DetectionBound)
    BY DEF FailsafeEngages
  <2>1. /\ Allowance(stall, consecutiveFailures) + Period <= DetectionBound
        /\ DetectionBound \in Nat
    BY AllowanceWithinBound DEF SilenceIInv, PollIInv
  <2>2. /\ Allowance(stall, consecutiveFailures) \in Nat
        /\ stall + Period <= Allowance(stall, consecutiveFailures)
    BY AllowanceGrows DEF SilenceIInv, PollIInv
  <2>3. daemonFor <= Allowance(stall, consecutiveFailures) + Period
    BY <2>2, PeriodBounds, ControllerAssumption DEF PollIInv, SilenceIInv, UntilFire
  <2> QED
    BY <2>1, <2>2, <2>3, PeriodBounds DEF PollIInv
<1> QED
  BY PollInit, PollStep, SilenceInit, SilenceStep, <1>1, PTL DEF Spec

-----------------------------------------------------------------------------
(* How old the last heartbeat of a healthy daemon can be, by where the     *)
(* loop is, unless the daemon has only just come up.                       *)
Gap(s) == Larger(ReconcileInterval, s)

HeartbeatIInv ==
  /\ daemon \in {"up", "down"}
  /\ pc \in {"heard", "step"} => heartbeatAge <= waited
  /\ daemon = "up" /\ stopCh = "open" =>
       /\ pc = "wait" => \/ heartbeatAge + UntilFire <= Gap(stall)
                         \/ daemonFor + UntilFire <= ReconcileInterval
       /\ pc = "fetch" => \/ heartbeatAge <= Gap(stall) + waited
                          \/ daemonFor <= ReconcileInterval + waited

LEMMA GapBounds ==
  ASSUME NEW s \in Nat
  PROVE  Gap(s) \in Nat /\ ReconcileInterval <= Gap(s) /\ s <= Gap(s)
BY ControllerAssumption DEF Gap, Larger

LEMMA HeartbeatInit == Init => HeartbeatIInv
BY GapBounds, ControllerAssumption DEF Init, HeartbeatIInv, Circuit!Init, UntilFire

LEMMA HeartbeatStep == PollIInv /\ HeartbeatIInv /\ [Next]_vars => HeartbeatIInv'
<1> SUFFICES ASSUME PollIInv, HeartbeatIInv, [Next]_vars
             PROVE  HeartbeatIInv'
  OBVIOUS
<1> USE ControllerAssumption, GapBounds
<1>0. UntilFire \in Nat /\ UntilFire <= ReconcileInterval
  BY DEF UntilFire, PollIInv
<1>1. CASE BeginFetch
  <2>1. UntilFire = 0
    BY <1>1 DEF BeginFetch, UntilFire
  <2>2. /\ pc = "wait" /\ pc' = "fetch" /\ waited' = 0
        /\ UNCHANGED <<heartbeatAge, stopCh, stall, daemon, daemonFor>>
    BY <1>1 DEF BeginFetch, Goto, watchdogVars, environmentVars
  <2> QED
    BY <2>1, <2>2 DEF HeartbeatIInv, PollIInv
<1>2. CASE FetchFailed
  BY <1>2 DEF FetchFailed, HeartbeatIInv, Goto, environmentVars
<1>3. CASE FetchSucceeded
  BY <1>3 DEF FetchSucceeded, HeartbeatIInv, Goto, Circuit!RecordHeartbeat,
              Circuit!HeartbeatLeaving, environmentVars
<1>4. CASE Accept
  BY <1>4 DEF Accept, HeartbeatIInv, watchdogVars, clockVars, environmentVars
<1>5. CASE Yield \/ Step
  <2>1. /\ pc \in {"heard", "step"} /\ pc' = "wait"
        /\ UNCHANGED <<heartbeatAge, phase, tickDue, stopCh, stall, daemon, daemonFor>>
    BY <1>5 DEF Yield, Step, Goto, watchdogVars, clockVars, environmentVars
  <2>2. heartbeatAge + UntilFire <= Gap(stall)
    BY <2>1 DEF HeartbeatIInv, PollIInv, UntilFire
  <2>3. UntilFire' = UntilFire
    BY <2>1 DEF UntilFire
  <2> QED
    BY <2>1, <2>2, <2>3 DEF HeartbeatIInv
<1>6. CASE Exit
  BY <1>6 DEF Exit, HeartbeatIInv, Goto, environmentVars
<1>7. CASE GetReconciliations
  <2>1. UNCHANGED <<heartbeatAge, pc, waited, phase, tickDue, stopCh, stall, daemon, daemonFor>>
    BY <1>7 DEF GetReconciliations, Circuit!CheckLiveness, clockVars, environmentVars
  <2> QED
    BY <2>1 DEF HeartbeatIInv, UntilFire
<1>8. CASE Tick
  <2>1. CASE pc = "wait"
    BY <1>8, <2>1, TickMoves DEF HeartbeatIInv, PollIInv
  <2>2. CASE pc \in {"fetch", "heard", "step"}
    BY <1>8, <2>2, TickMoves DEF HeartbeatIInv, PollIInv
  <2>3. CASE pc = "stopped"
    BY <1>8, <2>3, TickMoves DEF HeartbeatIInv
  <2> QED
    BY <2>1, <2>2, <2>3 DEF PollIInv
<1>9. CASE DaemonChanges
  <2>1. /\ UNCHANGED <<heartbeatAge, pc, waited, phase, tickDue, stopCh, stall>>
        /\ daemonFor' = 0 /\ daemon' \in {"up", "down"}
    BY <1>9 DEF DaemonChanges, watchdogVars, clockVars
  <2>2. UntilFire' = UntilFire
    BY <2>1 DEF UntilFire
  <2> QED
    BY <2>1, <2>2, <1>0 DEF HeartbeatIInv, PollIInv
<1>10. CASE Notify \/ Stop \/ UNCHANGED vars
  BY <1>10 DEF Notify, Stop, vars, watchdogVars, clockVars, environmentVars,
               HeartbeatIInv, UntilFire
<1> QED
  BY <1>1, <1>2, <1>3, <1>4, <1>5, <1>6, <1>7, <1>8, <1>9, <1>10
  DEF Next, Loop

(* With a heartbeat timeout that covers the longest gap between two        *)
(* heartbeats of a healthy daemon, nothing trips the circuit but a daemon  *)
(* that was down a moment ago, whatever the handler does meanwhile, for    *)
(* every timing (failover.go:107, 129; controller.go:275).                 *)
THEOREM ControllerNoSpuriousTrip == Spec => NoSpuriousTrip
<1> DEFINE Justified ==
      HeartbeatGap <= HeartbeatTimeout /\ state = Circuit!Closed /\ state' = Circuit!Open
        /\ stopCh = "open"
        => daemon = "down" \/ daemonFor <= ReconcileInterval + HeartbeatGap
<1>1. PollIInv /\ HeartbeatIInv /\ [Next]_vars => [Justified]_vars
  <2> SUFFICES ASSUME PollIInv, HeartbeatIInv, Next,
                      HeartbeatGap <= HeartbeatTimeout,
                      state = Circuit!Closed, state' = Circuit!Open, stopCh = "open"
               PROVE  daemon = "down" \/ daemonFor <= ReconcileInterval + HeartbeatGap
    OBVIOUS
  <2> USE ControllerAssumption
  <2>1. stall \in Nat /\ Gap(stall) \in Nat /\ ReconcileInterval <= Gap(stall)
        /\ stall <= Gap(stall) /\ HeartbeatGap = Gap(stall) + ClientTimeout
    BY GapBounds DEF PollIInv, HeartbeatGap, Gap
  <2>2. CASE GetReconciliations
    <3>1. heartbeatAge > HeartbeatTimeout
      BY <2>2 DEF GetReconciliations, Circuit!CheckLiveness, Circuit!Enter, Circuit!Remain,
                  Circuit!Open, Circuit!HalfOpen, Circuit!Closed
    <3>2. ASSUME daemon = "up", ~(daemonFor <= ReconcileInterval + HeartbeatGap)
          PROVE  FALSE
      <4>1. UntilFire \in Nat
        BY DEF UntilFire, PollIInv
      <4>2. CASE pc = "wait"
        BY <2>1, <3>1, <3>2, <4>1, <4>2 DEF HeartbeatIInv, PollIInv
      <4>3. CASE pc = "fetch"
        BY <2>1, <3>1, <3>2, <4>3 DEF HeartbeatIInv, PollIInv
      <4>4. CASE pc \in {"heard", "step"}
        BY <2>1, <3>1, <3>2, <4>4 DEF HeartbeatIInv, PollIInv
      <4> QED
        BY <4>2, <4>3, <4>4 DEF PollIInv
    <3> QED
      BY <3>2 DEF HeartbeatIInv
  <2>3. CASE FetchFailed
    BY <2>3 DEF FetchFailed
  <2>4. CASE FetchSucceeded
    BY <2>4 DEF FetchSucceeded, Circuit!RecordHeartbeat, Circuit!HeartbeatLeaving,
                Circuit!Enter, Circuit!Remain, Circuit!Open, Circuit!HalfOpen, Circuit!Closed
  <2>5. CASE Tick
    BY <2>5 DEF Tick, Circuit!Age, Circuit!Open, Circuit!Closed
  <2>6. CASE BeginFetch \/ Accept \/ Yield \/ Step \/ Exit \/ Notify \/ Stop \/ DaemonChanges
    BY <2>6 DEF BeginFetch, Accept, Yield, Step, Exit, Notify, Stop, DaemonChanges,
                watchdogVars, Circuit!Open, Circuit!Closed
  <2> QED
    BY <2>2, <2>3, <2>4, <2>5, <2>6 DEF Next, Loop
<1> HIDE DEF Justified
<1>2. Spec => [][Justified]_vars
  BY PollInit, PollStep, HeartbeatInit, HeartbeatStep, <1>1, PTL DEF Spec
<1> QED
  BY <1>2 DEF NoSpuriousTrip, Justified

-----------------------------------------------------------------------------
(* Types.                                                                  *)

LEMMA StatusHorizonIsNat ==
  ASSUME stall \in Nat
  PROVE  StatusHorizon \in Nat
BY ControllerAssumption, AllowanceWithinBound DEF StatusHorizon

LEMMA CircuitTypeStep ==
  ASSUME Circuit!TypeOK,
         \/ Circuit!RecordHeartbeat \/ Circuit!RecordFailure
         \/ Circuit!CheckLiveness \/ Circuit!Age \/ UNCHANGED watchdogVars
  PROVE  Circuit!TypeOK'
<1> USE ControllerAssumption DEF Circuit!TypeOK, Circuit!OneMore, Circuit!Enter,
    Circuit!Remain, Circuit!Closed, Circuit!HalfOpen, Circuit!Open, Circuit!ProbesToClose
<1>1. CASE Circuit!RecordHeartbeat
  BY <1>1 DEF Circuit!RecordHeartbeat, Circuit!HeartbeatLeaving
<1>2. CASE Circuit!RecordFailure
  BY <1>2 DEF Circuit!RecordFailure, Circuit!FailureLeaving, Circuit!ClosedTrips
<1>3. CASE Circuit!CheckLiveness
  BY <1>3 DEF Circuit!CheckLiveness
<1>4. CASE Circuit!Age
  BY <1>4 DEF Circuit!Age
<1>5. CASE UNCHANGED watchdogVars
  BY <1>5 DEF watchdogVars
<1> QED
  BY <1>1, <1>2, <1>3, <1>4, <1>5

LEMMA EngineTypeStep ==
  ASSUME EngineTypeOK, Remember(StepDecision) \/ AgeEngine \/ UNCHANGED engineVars
  PROVE  EngineTypeOK'
<1>1. LongestCooldown \in Nat
  BY PolicyAssumption DEF LongestCooldown
<1>2. CASE Remember(StepDecision)
  <2>1. lastScaleType' \in {"none", "UP", "DOWN"} /\ scaleAge' \in {0, scaleAge}
    BY <1>2 DEF Remember, engineVars, EngineTypeOK
  <2> QED
    BY <1>1, <2>1 DEF EngineTypeOK
<1>3. CASE AgeEngine
  BY <1>1, <1>3 DEF AgeEngine, EngineTypeOK
<1>4. CASE UNCHANGED engineVars
  BY <1>4 DEF engineVars, EngineTypeOK
<1> QED
  BY <1>2, <1>3, <1>4

LEMMA TypeInit == Init => TypeOK
<1> SUFFICES ASSUME Init PROVE TypeOK
  OBVIOUS
<1>1. stall \in Stalls /\ stall \in Nat /\ StatusHorizon \in Nat
  BY StatusHorizonIsNat, ControllerAssumption DEF Init
<1>2. Circuit!TypeOK
  BY ControllerAssumption DEF Init, Circuit!Init, Circuit!TypeOK, Circuit!Closed,
     Circuit!ProbesToClose
<1>3. EngineTypeOK
  BY PolicyAssumption DEF Init, EngineInit, EngineTypeOK, LongestCooldown
<1>4. 0 \in 0..Larger(ClientTimeout, stall)
  BY <1>1, ControllerAssumption DEF Larger
<1> QED
  BY <1>1, <1>2, <1>3, <1>4, ControllerAssumption DEF Init, TypeOK, NoTelemetry

LEMMA TypeStep == TypeOK /\ [Next]_vars => TypeOK'
<1> SUFFICES ASSUME TypeOK, [Next]_vars
             PROVE  TypeOK'
  OBVIOUS
<1>1. /\ Circuit!TypeOK /\ EngineTypeOK /\ stall \in Stalls /\ stall \in Nat
      /\ StatusHorizon \in Nat /\ waited \in 0..Larger(ClientTimeout, stall)
      /\ 0 \in 0..Larger(ClientTimeout, stall)
  BY StatusHorizonIsNat, ControllerAssumption DEF TypeOK, Larger
<1>2. stall' = stall
  BY DEF Next, Loop, BeginFetch, FetchFailed, FetchSucceeded, Accept, Yield, Step, Exit,
         GetReconciliations, Notify, Stop, DaemonChanges, Tick, environmentVars, vars
<1>3. Circuit!TypeOK'
  BY <1>1, CircuitTypeStep
  DEF Next, Loop, BeginFetch, FetchFailed, FetchSucceeded, Accept, Yield, Step, Exit,
      GetReconciliations, Notify, Stop, DaemonChanges, Tick, vars
<1>4. EngineTypeOK'
  <2>1. CASE Step
    BY <1>1, <2>1, EngineTypeStep DEF Step
  <2>2. CASE Tick
    BY <1>1, <2>2, EngineTypeStep DEF Tick
  <2>3. CASE ~Step /\ ~Tick
    <3>1. UNCHANGED stepVars
      BY <2>3 DEF Next, Loop, BeginFetch, FetchFailed, FetchSucceeded, Accept, Yield, Exit,
                  GetReconciliations, Notify, Stop, DaemonChanges, vars
    <3>2. UNCHANGED engineVars
      BY <3>1 DEF stepVars, engineVars
    <3> QED
      BY <1>1, <3>2, EngineTypeStep
  <2> QED
    BY <2>1, <2>2, <2>3
<1>5. /\ pc' \in {"wait", "fetch", "heard", "step", "stopped"}
      /\ stopCh' \in {"open", "closed"} /\ daemon' \in {"up", "down"}
  BY DEF Next, Loop, BeginFetch, FetchFailed, FetchSucceeded, Accept, Yield, Step, Exit,
         GetReconciliations, Notify, Stop, DaemonChanges, Tick, environmentVars, vars,
         Goto, TypeOK
<1>6. phase' \in 0..(ReconcileInterval - 1) /\ tickDue' \in 0..1
  <2>1. CASE Tick
    <3>1. phase' = (phase + 1) % ReconcileInterval
      BY <2>1 DEF Tick
    <3>2. phase \in 0..(ReconcileInterval - 1)
      BY DEF TypeOK
    <3>3. phase' \in 0..(ReconcileInterval - 1)
      BY <3>1, <3>2, NextPhase, ControllerAssumption
    <3>4. tickDue' \in 0..1
      BY <2>1 DEF Tick, TypeOK
    <3> QED
      BY <3>3, <3>4
  <2>2. CASE ~Tick
    BY <2>2 DEF Next, Loop, BeginFetch, FetchFailed, FetchSucceeded, Accept, Yield, Step,
                Exit, GetReconciliations, Notify, Stop, DaemonChanges, clockVars, vars, TypeOK
  <2> QED
    BY <2>1, <2>2
<1>7. waited' \in 0..Larger(ClientTimeout, stall)
  <2>1. CASE Tick
    <3>1. \/ waited' = 0
          \/ waited' = waited + 1 /\ (waited < ClientTimeout \/ waited < stall)
      BY <2>1 DEF Tick, MayWait, TypeOK
    <3> QED
      BY <1>1, <3>1, ControllerAssumption DEF Larger
  <2>2. CASE ~Tick
    <3>1. waited' = 0 \/ waited' = waited
      <4>1. CASE Loop
        BY <4>1 DEF Loop, BeginFetch, FetchFailed, FetchSucceeded, Accept, Yield, Step,
                    Exit, Goto
      <4>2. CASE GetReconciliations \/ Notify \/ Stop \/ DaemonChanges \/ UNCHANGED vars
        BY <4>2 DEF GetReconciliations, Notify, Stop, DaemonChanges, vars
      <4> QED
        BY <2>2, <4>1, <4>2 DEF Next
    <3> QED
      BY <1>1, <3>1
  <2> QED
    BY <2>1, <2>2
<1>8. telemetry' \in Telemetries \cup {NoTelemetry} /\ mitigated' \subseteq IPs
  <2>1. CASE Step
    BY <2>1 DEF Step, Mitigations, TypeOK, Telemetries, NoTelemetry
  <2>2. CASE ~Step
    BY <2>2
    DEF Next, Loop, BeginFetch, FetchFailed, FetchSucceeded, Accept, Yield, Exit,
        GetReconciliations, Notify, Stop, DaemonChanges, Tick, stepVars, vars, TypeOK
  <2> QED
    BY <2>1, <2>2
<1>9. \A n \in notices' : n.type \in {"SCALE_UP", "SCALE_DOWN"}
  <2>1. CASE Step
    <3> SUFFICES ASSUME NEW n \in notices'
                 PROVE  n.type \in {"SCALE_UP", "SCALE_DOWN"}
      OBVIOUS
    <3>1. n \in notices \/ (n = Notice(StepDecision) /\ Scales(StepDecision))
      BY <2>1 DEF Step
    <3>2. Scales(StepDecision) => Notice(StepDecision).type \in {"SCALE_UP", "SCALE_DOWN"}
      BY DEF Scales, Notice
    <3>3. CASE n \in notices
      BY <3>3 DEF TypeOK
    <3> QED
      BY <3>1, <3>2, <3>3
  <2>2. CASE ~Step
    BY <2>2
    DEF Next, Loop, BeginFetch, FetchFailed, FetchSucceeded, Accept, Yield, Exit,
        GetReconciliations, Notify, Stop, DaemonChanges, Tick, vars, TypeOK
  <2> QED
    BY <2>1, <2>2
<1>10. daemonFor' \in 0..StatusHorizon
  <2>1. CASE Tick
    BY <1>1, <2>1 DEF Tick, TypeOK
  <2>2. CASE ~Tick
    BY <1>1, <2>2
    DEF Next, Loop, BeginFetch, FetchFailed, FetchSucceeded, Accept, Yield, Step, Exit,
        GetReconciliations, Notify, Stop, DaemonChanges, environmentVars, vars, TypeOK
  <2> QED
    BY <2>1, <2>2
<1>11. StatusHorizon' = StatusHorizon
  BY <1>2 DEF StatusHorizon, DetectionBound
<1> QED
  BY <1>1, <1>2, <1>3, <1>4, <1>5, <1>6, <1>7, <1>8, <1>9, <1>10, <1>11 DEF TypeOK

(* The controller's types, for every timing, policy and report: among them *)
(* that the loop never waits longer than the client's timeout or a stall,  *)
(* and that only scalings are announced.                                   *)
THEOREM ControllerTypeOK == Spec => []TypeOK
BY TypeInit, TypeStep, PTL DEF Spec

-----------------------------------------------------------------------------
(* The circuit inside the controller: what WatchdogProofs proves of any    *)
(* watchdog holds of this one, because every step of the controller is one *)
(* of the watchdog or leaves it alone.                                     *)
CircuitFacts == INSTANCE WatchdogProofs

(* The limits the controller gives its watchdog are as that assumes.       *)
LEMMA LimitsHold == CircuitFacts!WatchdogAssumption
BY ControllerAssumption DEF CircuitFacts!WatchdogAssumption

(* Each step of the controller asks the watchdog for one of its methods,   *)
(* lets it grow older, or leaves it alone.                                 *)
LEMMA StepIsTheWatchdogs ==
  [Next]_vars => [CircuitFacts!Next]_(CircuitFacts!watchdogVars)
<1> SUFFICES ASSUME [Next]_vars
             PROVE  CircuitFacts!Next \/ UNCHANGED CircuitFacts!watchdogVars
  OBVIOUS
<1> USE DEF CircuitFacts!Closed, CircuitFacts!HalfOpen, CircuitFacts!Open,
            CircuitFacts!ProbesToClose, CircuitFacts!OneMore,
            CircuitFacts!Enter, CircuitFacts!Remain,
            Circuit!Closed, Circuit!HalfOpen, Circuit!Open,
            Circuit!ProbesToClose, Circuit!OneMore, Circuit!Enter, Circuit!Remain
<1>1. CASE FetchSucceeded
  <2>1. Circuit!RecordHeartbeat
    BY <1>1 DEF FetchSucceeded
  <2>2. CircuitFacts!RecordHeartbeat
    BY <2>1 DEF Circuit!RecordHeartbeat, CircuitFacts!RecordHeartbeat,
                Circuit!HeartbeatLeaving, CircuitFacts!HeartbeatLeaving
  <2> QED
    BY <2>2 DEF CircuitFacts!Next
<1>2. CASE FetchFailed
  <2>1. Circuit!RecordFailure
    BY <1>2 DEF FetchFailed
  <2>2. CircuitFacts!RecordFailure
    BY <2>1 DEF Circuit!RecordFailure, CircuitFacts!RecordFailure,
                Circuit!FailureLeaving, CircuitFacts!FailureLeaving,
                Circuit!ClosedTrips, CircuitFacts!ClosedTrips
  <2> QED
    BY <2>2 DEF CircuitFacts!Next
<1>3. CASE GetReconciliations
  <2>1. Circuit!CheckLiveness
    BY <1>3 DEF GetReconciliations
  <2>2. CircuitFacts!CheckLiveness
    BY <2>1 DEF Circuit!CheckLiveness, CircuitFacts!CheckLiveness
  <2> QED
    BY <2>2 DEF CircuitFacts!Next
<1>4. CASE Tick
  <2>1. Circuit!Age
    BY <1>4 DEF Tick
  <2>2. CircuitFacts!Age
    BY <2>1 DEF Circuit!Age, CircuitFacts!Age
  <2> QED
    BY <2>2 DEF CircuitFacts!Next
<1>5. CASE \/ BeginFetch \/ Accept \/ Yield \/ Step \/ Exit \/ Notify \/ Stop
           \/ DaemonChanges \/ UNCHANGED vars
  BY <1>5 DEF BeginFetch, Accept, Yield, Step, Exit, Notify, Stop,
     DaemonChanges, vars, watchdogVars, CircuitFacts!watchdogVars
<1> QED
  BY <1>1, <1>2, <1>3, <1>4, <1>5 DEF Next, Loop

LEMMA InitIsTheWatchdogs == Init => CircuitFacts!Init
BY DEF Init, Circuit!Init, CircuitFacts!Init, Circuit!Closed, CircuitFacts!Closed

(* Whatever its loop, its handler and the clock do between them, what the  *)
(* controller does to the circuit is a behaviour of the watchdog.          *)
THEOREM ControllerImplementsWatchdog == Spec => CircuitFacts!Spec
BY StepIsTheWatchdogs, InitIsTheWatchdogs, PTL DEF Spec, CircuitFacts!Spec

(* So inside the controller, too, the circuit is a three-state breaker, is *)
(* never CLOSED with its budget spent, and counts one streak at a time     *)
(* (failover.go:75-139, controller.go:266-281).                            *)
THEOREM ControllerKeepsBreaker ==
  Spec => /\ CircuitFacts!ImplementsBreaker
          /\ []CircuitFacts!ClosedWithinBudget
          /\ []CircuitFacts!OneStreak
<1>1. CircuitFacts!Spec => CircuitFacts!ImplementsBreaker
  BY LimitsHold, CircuitFacts!WatchdogImplementsBreaker
<1>2. CircuitFacts!Spec => []CircuitFacts!ClosedWithinBudget
  BY LimitsHold, CircuitFacts!WatchdogClosedWithinBudget
<1>3. CircuitFacts!Spec => []CircuitFacts!OneStreak
  BY LimitsHold, CircuitFacts!WatchdogOneStreak
<1> QED
  BY ControllerImplementsWatchdog, <1>1, <1>2, <1>3, PTL

=============================================================================
