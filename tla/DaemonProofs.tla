---------------------------- MODULE DaemonProofs ----------------------------
(***************************************************************************)
(* Status answers and stream payloads are consistent, for every number of  *)
(* workers, readers and streams.                                           *)
(***************************************************************************)
EXTENDS Daemon, TLAPS

(* The loop and the readers exclude each other, and outside of the loop's  *)
(* critical section the stored decision is the count in force.             *)
Exclusion ==
  /\ loop \in {"decide", "store"} => holders = {} /\ writer = "loop"
  /\ writer = "loop" => loop \in {"decide", "store"}
  /\ \A r \in Readers : reader[r] \in {"reading", "sending"} => r \in holders

Stored == loop # "store" => lastDecision \in {0, currentReplicas}

ReadSoFar ==
  \A r \in Readers :
    /\ reader[r] \in {"reading", "sending"} => response[r].replicas = currentReplicas
    /\ reader[r] = "sending" => response[r].target = lastDecision
    /\ reader[r] = "flushing" => response[r].target \in {0, response[r].replicas}

Shapes ==
  /\ reader \in [Readers -> {"idle", "reading", "sending", "flushing"}]
  /\ response \in [Readers -> [replicas : 0..MaxReplicas,
                               target : 0..MaxReplicas]]
  /\ currentReplicas \in 0..MaxReplicas
  /\ lastDecision \in 0..MaxReplicas

AnswerIInv == Shapes /\ Exclusion /\ Stored /\ ReadSoFar

LEMMA AnswerInit == Init => AnswerIInv
<1> SUFFICES ASSUME Init PROVE AnswerIInv
  OBVIOUS
<1>1. Shapes
  BY DaemonAssumption DEF Init, Shapes, NoAnswer
<1>2. Exclusion /\ Stored /\ ReadSoFar
  BY DEF Init, Exclusion, Stored, ReadSoFar
<1> QED
  BY <1>1, <1>2 DEF AnswerIInv

(* Steps that leave the readers and the shared counts alone.               *)
LEMMA QuietStep ==
  ASSUME AnswerIInv,
         UNCHANGED <<reader, muVars, currentReplicas, lastDecision, response>>,
         \/ loop' = loop
         \/ loop \notin {"decide", "store"} /\ loop' \notin {"decide", "store"}
  PROVE  AnswerIInv'
BY DEF AnswerIInv, Shapes, Exclusion, Stored, ReadSoFar, muVars

LEMMA AnswerStep == AnswerIInv /\ [Next]_vars => AnswerIInv'
<1> SUFFICES ASSUME AnswerIInv, [Next]_vars
             PROVE  AnswerIInv'
  OBVIOUS
<1>1. ASSUME NEW w \in Workers, Work(w)
      PROVE  AnswerIInv'
  BY <1>1, QuietStep DEF Work, RecordLine, CountLine, InspectLine, AppendThreat, dsVars
<1>2. CASE EvaluateWindows \/ AppendAnomaly \/ ExitLoop
  BY <1>2, QuietStep DEF EvaluateWindows, AppendAnomaly, ExitLoop, dsVars
<1>3. CASE ScaleLockExpires \/ Stop \/ UNCHANGED vars
  BY <1>3, QuietStep DEF ScaleLockExpires, Stop, vars, dsVars
<1>4. CASE LockAndAsk
  BY <1>4 DEF LockAndAsk, MayLock, dsVars, AnswerIInv, Shapes, Exclusion, Stored,
              ReadSoFar
<1>5. CASE Decide
  <2>1. holders = {} /\ \A r \in Readers : reader[r] \in {"idle", "flushing"}
    BY <1>5 DEF Decide, AnswerIInv, Exclusion, Shapes
  <2>2. currentReplicas' \in 0..MaxReplicas
    BY <1>5, DaemonAssumption DEF Decide
  <2> QED
    BY <1>5, <2>1, <2>2 DEF Decide, muVars, AnswerIInv, Shapes, Exclusion, Stored,
                            ReadSoFar
<1>6. CASE StoreAndUnlock
  <2>1. holders = {} /\ \A r \in Readers : reader[r] \in {"idle", "flushing"}
    BY <1>6 DEF StoreAndUnlock, AnswerIInv, Exclusion, Shapes
  <2> QED
    BY <1>6, <2>1 DEF StoreAndUnlock, AnswerIInv, Shapes, Exclusion, Stored, ReadSoFar
<1>7. ASSUME NEW r \in Readers, BeginRead(r)
      PROVE  AnswerIInv'
  <2>1. loop \notin {"decide", "store"} /\ writer = "none"
    BY <1>7 DEF BeginRead, MayRLock, AnswerIInv, Exclusion
  <2>2. Shapes'
    BY <1>7 DEF BeginRead, Advance, dsVars, AnswerIInv, Shapes
  <2>3. Exclusion' /\ Stored'
    BY <1>7, <2>1 DEF BeginRead, Advance, dsVars, AnswerIInv, Shapes, Exclusion, Stored
  <2>4. ReadSoFar'
    BY <1>7 DEF BeginRead, Advance, dsVars, AnswerIInv, Shapes, ReadSoFar
  <2> QED
    BY <2>2, <2>3, <2>4 DEF AnswerIInv
<1>8. ASSUME NEW r \in Readers, ReadTarget(r)
      PROVE  AnswerIInv'
  <2>1. Shapes'
    BY <1>8 DEF ReadTarget, Advance, dsVars, AnswerIInv, Shapes
  <2>2. Exclusion' /\ Stored'
    BY <1>8 DEF ReadTarget, Advance, muVars, dsVars, AnswerIInv, Shapes, Exclusion,
                Stored
  <2>3. ReadSoFar'
    BY <1>8 DEF ReadTarget, Advance, dsVars, AnswerIInv, Shapes, ReadSoFar
  <2> QED
    BY <2>1, <2>2, <2>3 DEF AnswerIInv
<1>9. ASSUME NEW r \in Readers, Send(r)
      PROVE  AnswerIInv'
  <2>1. Shapes'
    BY <1>9, DaemonAssumption DEF Send, Advance, NoAnswer, dsVars, AnswerIInv, Shapes
  <2>2. Exclusion' /\ Stored'
    BY <1>9 DEF Send, Advance, dsVars, AnswerIInv, Shapes, Exclusion, Stored
  <2>3. ReadSoFar'
    BY <1>9 DEF Send, Advance, dsVars, AnswerIInv, Shapes, ReadSoFar
  <2> QED
    BY <2>1, <2>2, <2>3 DEF AnswerIInv
<1>10. ASSUME NEW r \in Readers, Release(r)
       PROVE  AnswerIInv'
  <2>1. response[r].target \in {0, response[r].replicas}
    <3>1. loop # "store"
      BY <1>10 DEF Release, AnswerIInv, Exclusion
    <3> QED
      BY <1>10, <3>1 DEF Release, AnswerIInv, Stored, ReadSoFar
  <2>2. Shapes'
    BY <1>10 DEF Release, Advance, dsVars, AnswerIInv, Shapes
  <2>3. Exclusion' /\ Stored'
    BY <1>10 DEF Release, Advance, dsVars, AnswerIInv, Shapes, Exclusion, Stored
  <2>4. ReadSoFar'
    BY <1>10, <2>1 DEF Release, Advance, dsVars, AnswerIInv, Shapes, ReadSoFar
  <2> QED
    BY <2>2, <2>3, <2>4 DEF AnswerIInv
<1>11. ASSUME NEW r \in Readers, Flush(r)
       PROVE  AnswerIInv'
  <2>1. Shapes'
    BY <1>11, DaemonAssumption DEF Flush, Advance, NoAnswer, dsVars, AnswerIInv, Shapes
  <2>2. Exclusion' /\ Stored'
    BY <1>11 DEF Flush, Advance, muVars, dsVars, AnswerIInv, Shapes, Exclusion, Stored
  <2>3. ReadSoFar'
    BY <1>11 DEF Flush, Advance, dsVars, AnswerIInv, Shapes, ReadSoFar
  <2> QED
    BY <2>1, <2>2, <2>3 DEF AnswerIInv
<1> QED
  BY <1>1, <1>2, <1>3, <1>4, <1>5, <1>6, <1>7, <1>8, <1>9, <1>10, <1>11
  DEF Next, Loop, Read

(* No status answer and no stream payload mixes two evaluations, however   *)
(* many goroutines there are and however they interleave.                  *)
THEOREM DaemonAnswersAreConsistent == Spec => []AnswersAreConsistent
<1>1. AnswerIInv => AnswersAreConsistent
  <2> SUFFICES ASSUME AnswerIInv, NEW r \in Readers,
                      reader[r] \in {"sending", "flushing"}
               PROVE  response[r].target \in {0, response[r].replicas}
    BY DEF AnswersAreConsistent
  <2>1. CASE reader[r] = "sending"
    <3>1. loop # "store"
      BY <2>1 DEF AnswerIInv, Exclusion
    <3> QED
      BY <2>1, <3>1 DEF AnswerIInv, Stored, ReadSoFar
  <2>2. CASE reader[r] = "flushing"
    BY <2>2 DEF AnswerIInv, ReadSoFar
  <2> QED
    BY <2>1, <2>2
<1> QED
  BY AnswerInit, AnswerStep, <1>1, PTL DEF Spec

-----------------------------------------------------------------------------
(* Appending to a list and trimming it never makes it longer than the cap, *)
(* or than it was.                                                         *)
LEMMA TrimmedBounds ==
  ASSUME NEW S, NEW threats \in Seq(S), NEW e \in S
  PROVE  /\ Trimmed(Append(threats, e)) \in Seq(S)
         /\ Len(Trimmed(Append(threats, e))) <= ThreatCap
              \/ Len(Trimmed(Append(threats, e))) = Len(threats)
<1> DEFINE longer == Append(threats, e)
<1>0. longer \in Seq(S) /\ Len(longer) = Len(threats) + 1
  OBVIOUS
<1> HIDE DEF longer
<1>1. longer \in Seq(S) /\ Len(longer) = Len(threats) + 1 /\ longer # <<>>
  BY <1>0
<1>2. Tail(longer) \in Seq(S) /\ Len(Tail(longer)) = Len(longer) - 1
  BY <1>1
<1> QED
  BY <1>1, <1>2, DaemonAssumption DEF Trimmed, longer

LEMMA TypeInit == Init => TypeOK
BY DaemonAssumption DEF Init, TypeOK

LEMMA TypeStep == TypeOK /\ [Next]_vars => TypeOK'
<1> SUFFICES ASSUME TypeOK, [Next]_vars
             PROVE  TypeOK'
  OBVIOUS
<1> USE DaemonAssumption DEF TypeOK, dsVars, threatVars
<1>1. ASSUME NEW w \in Workers, RecordLine(w) \/ CountLine(w) \/ InspectLine(w)
      PROVE  TypeOK'
  BY <1>1 DEF RecordLine, CountLine, InspectLine, Becomes, muVars
<1>2. ASSUME NEW w \in Workers, AppendThreat(w)
      PROVE  TypeOK'
  <2>1. activeThreats' \in Seq({"BRUTE_FORCE", "WINDOW"})
    BY <1>2, TrimmedBounds DEF AppendThreat
  <2> QED
    BY <1>2, <2>1 DEF AppendThreat, Becomes, muVars
<1>3. CASE EvaluateWindows \/ LockAndAsk \/ StoreAndUnlock \/ ExitLoop
  BY <1>3 DEF EvaluateWindows, LockAndAsk, StoreAndUnlock, ExitLoop, muVars
<1>4. CASE AppendAnomaly
  <2>1. activeThreats' \in Seq({"BRUTE_FORCE", "WINDOW"})
    BY <1>4 DEF AppendAnomaly
  <2> QED
    BY <1>4, <2>1 DEF AppendAnomaly, muVars
<1>5. CASE Decide
  BY <1>5 DEF Decide, muVars
<1>6. ASSUME NEW r \in Readers, Read(r)
      PROVE  TypeOK'
  BY <1>6 DEF Read, BeginRead, ReadTarget, Send, Release, Flush, Advance, muVars
<1>7. CASE ScaleLockExpires \/ Stop \/ UNCHANGED vars
  BY <1>7 DEF ScaleLockExpires, Stop, vars, muVars
<1> QED
  BY <1>1, <1>2, <1>3, <1>4, <1>5, <1>6, <1>7 DEF Next, Loop, Work

(* The types of the goroutines' places, the mutex and what it protects,    *)
(* for any number of goroutines; both counts stay within the daemon's      *)
(* flags (server.go:88-138, 216-225, 297-316).                             *)
THEOREM DaemonTypeOK == Spec => []TypeOK
BY TypeInit, TypeStep, PTL DEF Spec

(* Only a worker's or the loop's appending touches the list, and the loop  *)
(* counts what it appends.                                                 *)
LEMMA ThreatsStep == TypeOK /\ ThreatsBounded /\ [Next]_vars => ThreatsBounded'
<1> SUFFICES ASSUME TypeOK, ThreatsBounded, [Next]_vars
             PROVE  ThreatsBounded'
  OBVIOUS
<1> USE DEF ThreatsBounded
<1>1. activeThreats \in Seq({"BRUTE_FORCE", "WINDOW"}) /\ anomalies \in Nat
  BY DEF TypeOK
<1>2. ASSUME NEW w \in Workers, AppendThreat(w)
      PROVE  ThreatsBounded'
  <2>1. activeThreats' = Trimmed(Append(activeThreats, "BRUTE_FORCE"))
        /\ anomalies' = anomalies
    BY <1>2 DEF AppendThreat
  <2>2. \/ Len(activeThreats') <= ThreatCap
        \/ Len(activeThreats') = Len(activeThreats)
    BY <1>1, <2>1, TrimmedBounds
  <2>3. Len(activeThreats') \in Nat
    <3>1. activeThreats' \in Seq({"BRUTE_FORCE", "WINDOW"})
      BY <1>1, <2>1, TrimmedBounds
    <3> QED
      BY <3>1
  <2> QED
    BY <1>1, <2>1, <2>2, <2>3, DaemonAssumption
<1>3. CASE AppendAnomaly
  <2>1. Len(activeThreats') = Len(activeThreats) + 1 /\ anomalies' = anomalies + 1
    BY <1>1, <1>3 DEF AppendAnomaly
  <2> QED
    BY <1>1, <2>1, DaemonAssumption
<1>4. ASSUME UNCHANGED threatVars
      PROVE  ThreatsBounded'
  BY <1>4 DEF threatVars
<1>5. ASSUME NEW w \in Workers, RecordLine(w) \/ CountLine(w) \/ InspectLine(w)
      PROVE  UNCHANGED threatVars
  BY <1>5 DEF RecordLine, CountLine, InspectLine, dsVars
<1>6. CASE EvaluateWindows \/ LockAndAsk \/ Decide \/ StoreAndUnlock \/ ExitLoop
  BY <1>4, <1>6 DEF EvaluateWindows, LockAndAsk, Decide, StoreAndUnlock, ExitLoop, dsVars
<1>7. ASSUME NEW r \in Readers, Read(r)
      PROVE  UNCHANGED threatVars
  BY <1>7 DEF Read, BeginRead, ReadTarget, Send, Release, Flush, dsVars
<1>8. CASE ScaleLockExpires \/ Stop \/ UNCHANGED vars
  BY <1>4, <1>8 DEF ScaleLockExpires, Stop, vars, dsVars
<1> QED
  BY <1>2, <1>3, <1>4, <1>5, <1>6, <1>7, <1>8 DEF Next, Loop, Work

(* The list of recent threats is never longer than its cap and the         *)
(* anomalous windows there were, for any number of workers and any number  *)
(* of either: what breaches append beyond the cap they take off again,     *)
(* what the loop appends stays (server.go:94-100, 119-123).                *)
THEOREM DaemonThreatsBounded == Spec => []ThreatsBounded
<1>1. Init => ThreatsBounded
  BY DaemonAssumption DEF Init, ThreatsBounded
<1> QED
  BY <1>1, ThreatsStep, DaemonTypeOK, PTL DEF Spec

-----------------------------------------------------------------------------
(* ds.mu is held by nobody but those whose next step needs no mutex and no *)
(* client: a reader between its first field and its answer, or the loop    *)
(* between its decision and the end of the tick.                           *)
HeldOnTheWay ==
  /\ \A r \in Readers : r \in holders <=> reader[r] \in {"reading", "sending"}
  /\ writer = "loop" <=> loop \in {"decide", "store"}

(* Nobody waits for ds.mu in vain: a reader may enter, or a goroutine that *)
(* waits for Lock may, or somebody holds the mutex who is on the way to    *)
(* letting go of it.                                                       *)
SomebodyMoves ==
  \/ MayRLock
  \/ MayLock /\ LockPending
  \/ \E r \in Readers : r \in holders /\ reader[r] \in {"reading", "sending"}
  \/ writer = "loop" /\ loop \in {"decide", "store"}

LEMMA HoldersInit == Init => HeldOnTheWay
BY DEF Init, HeldOnTheWay

LEMMA HoldersStep == TypeOK /\ HeldOnTheWay /\ [Next]_vars => HeldOnTheWay'
<1> SUFFICES ASSUME TypeOK, HeldOnTheWay, [Next]_vars
             PROVE  HeldOnTheWay'
  OBVIOUS
<1>0. reader \in [Readers -> {"idle", "reading", "sending", "flushing"}] /\ holders \subseteq Readers
  BY DEF TypeOK
<1>1. ASSUME NEW w \in Workers, Work(w)
      PROVE  HeldOnTheWay'
  BY <1>1 DEF Work, RecordLine, CountLine, InspectLine, AppendThreat, muVars, HeldOnTheWay
<1>2. CASE Loop
  BY <1>2 DEF Loop, EvaluateWindows, AppendAnomaly, LockAndAsk, Decide, StoreAndUnlock,
              ExitLoop, muVars, HeldOnTheWay
<1>3. ASSUME NEW r \in Readers, BeginRead(r)
      PROVE  HeldOnTheWay'
  BY <1>0, <1>3 DEF BeginRead, Advance, HeldOnTheWay
<1>4. ASSUME NEW r \in Readers, ReadTarget(r) \/ Flush(r)
      PROVE  HeldOnTheWay'
  BY <1>0, <1>4 DEF ReadTarget, Flush, Advance, muVars, HeldOnTheWay
<1>5. ASSUME NEW r \in Readers, Send(r) \/ Release(r)
      PROVE  HeldOnTheWay'
  BY <1>0, <1>5 DEF Send, Release, Advance, HeldOnTheWay
<1>6. CASE ScaleLockExpires \/ Stop \/ UNCHANGED vars
  BY <1>6 DEF ScaleLockExpires, Stop, vars, muVars, HeldOnTheWay
<1> QED
  BY <1>1, <1>2, <1>3, <1>4, <1>5, <1>6 DEF Next, Read

(* However many goroutines there are and however they interleave, none of  *)
(* them waits for ds.mu while nobody can move: the safety half of what     *)
(* LinesComplete and LoopDecides say, with no assumption of fairness.  It  *)
(* is also why a stream whose client never reads blocks nobody: it flushes *)
(* without the mutex (server.go:88-138, 216-225, 297-316).                 *)
THEOREM DaemonSomebodyMoves == Spec => []SomebodyMoves
<1>1. TypeOK /\ HeldOnTheWay => SomebodyMoves
  <2> SUFFICES ASSUME TypeOK, HeldOnTheWay, ~MayRLock, ~(MayLock /\ LockPending)
               PROVE  \/ \E r \in Readers : r \in holders /\ reader[r] \in {"reading", "sending"}
                      \/ writer = "loop" /\ loop \in {"decide", "store"}
    BY DEF SomebodyMoves
  <2>1. writer # "none" \/ holders # {}
    BY DEF MayRLock, MayLock
  <2>2. writer \in {"loop", "none"} /\ holders \subseteq Readers
    BY DEF TypeOK
  <2> QED
    BY <2>1, <2>2 DEF HeldOnTheWay
<1> QED
  BY HoldersInit, HoldersStep, DaemonTypeOK, <1>1, PTL DEF Spec

-----------------------------------------------------------------------------
(* Answers are snapshots.                                                  *)

(* A reader that is not asking has been told nothing.                      *)
IdleToldNothing == \A r \in Readers : reader[r] = "idle" => response[r] = NoAnswer

SnapshotIInv == TypeOK /\ AnswerIInv /\ IdleToldNothing

LEMMA IdleInit == Init => IdleToldNothing
BY DEF Init, IdleToldNothing

LEMMA IdleStep == AnswerIInv /\ IdleToldNothing /\ [Next]_vars => IdleToldNothing'
<1> SUFFICES ASSUME AnswerIInv, IdleToldNothing, [Next]_vars
             PROVE  IdleToldNothing'
  OBVIOUS
<1>0. /\ reader \in [Readers -> {"idle", "reading", "sending", "flushing"}]
      /\ DOMAIN response = Readers
  BY DEF AnswerIInv, Shapes
<1>1. CASE UNCHANGED <<reader, response>>
  BY <1>1 DEF IdleToldNothing
<1>2. ASSUME NEW w \in Workers, Work(w)
      PROVE  UNCHANGED <<reader, response>>
  BY <1>2 DEF Work, RecordLine, CountLine, InspectLine, AppendThreat
<1>3. CASE Loop
  BY <1>1, <1>3 DEF Loop, EvaluateWindows, AppendAnomaly, LockAndAsk, Decide,
                    StoreAndUnlock, ExitLoop
<1>4. ASSUME NEW r \in Readers, BeginRead(r) \/ ReadTarget(r) \/ Release(r)
      PROVE  IdleToldNothing'
  <2>1. reader'[r] # "idle"
    BY <1>0, <1>4 DEF BeginRead, ReadTarget, Release, Advance
  <2>2. ASSUME NEW q \in Readers, q # r
        PROVE  reader'[q] = reader[q] /\ response'[q] = response[q]
    BY <1>0, <1>4, <2>2 DEF BeginRead, ReadTarget, Release, Advance
  <2> QED
    BY <2>1, <2>2 DEF IdleToldNothing
<1>5. ASSUME NEW r \in Readers, Send(r) \/ Flush(r)
      PROVE  IdleToldNothing'
  BY <1>0, <1>5 DEF Send, Flush, Advance, IdleToldNothing
<1>6. CASE ScaleLockExpires \/ Stop \/ UNCHANGED vars
  BY <1>1, <1>6 DEF ScaleLockExpires, Stop, vars
<1> QED
  BY <1>1, <1>2, <1>3, <1>4, <1>5, <1>6 DEF Next, Read

LEMMA SnapshotInit == Init => Status!Init
<1> SUFFICES ASSUME Init PROVE Status!Init
  OBVIOUS
<1>1. AnswerBegun = [r \in Readers |-> NoAnswer]
  BY DEF Init, AnswerBegun
<1>2. TargetInForce = 0
  BY DEF Init, TargetInForce
<1> QED
  BY <1>1, <1>2 DEF Init, Status!Init, Status!Nothing, NoAnswer

(* The mapped answer of a reader, when the reader and what it has read are *)
(* as they were and no decision is stored under its hands.                 *)
LEMMA SameBegun ==
  ASSUME SnapshotIInv, UNCHANGED <<reader, response>>,
         (\E r \in Readers : reader[r] = "reading") => lastDecision' = lastDecision
  PROVE  AnswerBegun' = AnswerBegun
BY DEF AnswerBegun

(* Every step of the daemon decides, begins an answer, ends one, or        *)
(* changes nothing its clients can see.                                    *)
LEMMA SnapshotStep == SnapshotIInv /\ [Next]_vars => [Status!Next]_(Status!snapshotVars)
<1> SUFFICES ASSUME SnapshotIInv, [Next]_vars
             PROVE  Status!Next \/ UNCHANGED Status!snapshotVars
  OBVIOUS
<1>0. /\ reader \in [Readers -> {"idle", "reading", "sending", "flushing"}]
      /\ response \in [Readers -> [replicas : 0..MaxReplicas, target : 0..MaxReplicas]]
  BY DEF SnapshotIInv, AnswerIInv, Shapes
<1>1. CASE UNCHANGED <<reader, response, currentReplicas, lastDecision>> /\ TargetInForce' = TargetInForce
  BY <1>1, SameBegun DEF Status!snapshotVars
<1>2. ASSUME NEW w \in Workers, Work(w)
      PROVE  UNCHANGED <<reader, response, currentReplicas, lastDecision, loop>>
  BY <1>2 DEF Work, RecordLine, CountLine, InspectLine, AppendThreat, dsVars
<1>3. CASE EvaluateWindows \/ AppendAnomaly \/ LockAndAsk \/ ExitLoop
  BY <1>1, <1>3 DEF EvaluateWindows, AppendAnomaly, LockAndAsk, ExitLoop, dsVars, TargetInForce
<1>4. CASE Decide
  <2>1. UNCHANGED <<reader, response, lastDecision>>
    BY <1>4 DEF Decide
  <2>2. TargetInForce' = currentReplicas'
    BY <1>4 DEF Decide, TargetInForce
  <2> QED
    BY <1>4, <2>1, <2>2, SameBegun DEF Decide, Status!Next, Status!Decision
<1>5. CASE StoreAndUnlock
  <2>1. UNCHANGED <<reader, response, currentReplicas>>
    BY <1>5 DEF StoreAndUnlock
  <2>2. ~ \E r \in Readers : reader[r] = "reading"
    BY <1>5 DEF StoreAndUnlock, SnapshotIInv, AnswerIInv, Exclusion
  <2>3. TargetInForce' = TargetInForce
    BY <1>5 DEF StoreAndUnlock, TargetInForce
  <2> QED
    BY <2>1, <2>2, <2>3, SameBegun DEF Status!snapshotVars
<1>6. ASSUME NEW r \in Readers, UNCHANGED <<currentReplicas, lastDecision, loop>>,
             NEW place, Advance(r, place), NEW answer,
             response' = [response EXCEPT ![r] = answer]
      PROVE  /\ TargetInForce' = TargetInForce
             /\ AnswerBegun' = [AnswerBegun EXCEPT ![r] =
                  IF place = "reading"
                  THEN [replicas |-> answer.replicas, target |-> lastDecision]
                  ELSE answer]
  BY <1>0, <1>6 DEF Advance, AnswerBegun, TargetInForce
<1>7. ASSUME NEW r \in Readers, BeginRead(r)
      PROVE  Status!Ask(r)
  <2> DEFINE answer == [response[r] EXCEPT !.replicas = currentReplicas]
  <2>1. response' = [response EXCEPT ![r] = answer] /\ answer.replicas = currentReplicas
    BY <1>0, <1>7 DEF BeginRead
  <2>2. UNCHANGED <<currentReplicas, lastDecision, loop>> /\ Advance(r, "reading")
    BY <1>7 DEF BeginRead, dsVars
  <2>3. TargetInForce = lastDecision
    BY <1>7 DEF BeginRead, MayRLock, SnapshotIInv, AnswerIInv, Exclusion, TargetInForce
  <2>4. AnswerBegun[r] = NoAnswer
    BY <1>7 DEF BeginRead, SnapshotIInv, IdleToldNothing, AnswerBegun
  <2> HIDE DEF answer
  <2>5. TargetInForce' = TargetInForce
        /\ AnswerBegun' = [AnswerBegun EXCEPT ![r] =
              [replicas |-> currentReplicas, target |-> lastDecision]]
    BY <1>6, <2>1, <2>2
  <2> QED
    BY <2>2, <2>3, <2>4, <2>5 DEF Status!Ask, Status!Nothing, NoAnswer
<1>8. ASSUME NEW r \in Readers, ReadTarget(r)
      PROVE  UNCHANGED Status!snapshotVars
  <2> DEFINE answer == [response[r] EXCEPT !.target = lastDecision]
  <2>1. /\ response' = [response EXCEPT ![r] = answer]
        /\ answer = [replicas |-> response[r].replicas, target |-> lastDecision]
    BY <1>0, <1>8 DEF ReadTarget
  <2>2. UNCHANGED <<currentReplicas, lastDecision, loop>> /\ Advance(r, "sending")
    BY <1>8 DEF ReadTarget, dsVars
  <2>3. AnswerBegun[r] = answer
    BY <1>8, <2>1 DEF ReadTarget, AnswerBegun
  <2> HIDE DEF answer
  <2>4. TargetInForce' = TargetInForce /\ AnswerBegun' = [AnswerBegun EXCEPT ![r] = answer]
    BY <1>6, <2>1, <2>2
  <2>5. AnswerBegun' = AnswerBegun
    BY <2>3, <2>4 DEF AnswerBegun
  <2> QED
    BY <2>2, <2>4, <2>5 DEF Status!snapshotVars
<1>9. ASSUME NEW r \in Readers, Send(r) \/ Flush(r)
      PROVE  Status!Answered(r)
  <2>1. UNCHANGED <<currentReplicas, lastDecision, loop>> /\ Advance(r, "idle")
        /\ response' = [response EXCEPT ![r] = NoAnswer]
    BY <1>9 DEF Send, Flush, dsVars
  <2>2. TargetInForce' = TargetInForce /\ AnswerBegun' = [AnswerBegun EXCEPT ![r] = NoAnswer]
    <3>1. "idle" # "reading"
      OBVIOUS
    <3> QED
      BY <1>6, <2>1, <3>1, Zenon
  <2> QED
    BY <2>1, <2>2 DEF Status!Answered, Status!Nothing, NoAnswer
<1>10. ASSUME NEW r \in Readers, Release(r)
       PROVE  UNCHANGED Status!snapshotVars
  <2>1. UNCHANGED <<currentReplicas, lastDecision, loop>> /\ Advance(r, "flushing")
        /\ response' = response
    BY <1>10 DEF Release, dsVars
  <2>2. response' = [response EXCEPT ![r] = response[r]]
    BY <1>0, <2>1
  <2>3. TargetInForce' = TargetInForce
        /\ AnswerBegun' = [AnswerBegun EXCEPT ![r] = response[r]]
    <3>1. "flushing" # "reading"
      OBVIOUS
    <3> QED
      BY <1>6, <2>1, <2>2, <3>1, Zenon
  <2>4. AnswerBegun[r] = response[r]
    BY <1>10 DEF Release, AnswerBegun
  <2>5. AnswerBegun' = AnswerBegun
    BY <2>3, <2>4 DEF AnswerBegun
  <2> QED
    BY <2>1, <2>3, <2>5 DEF Status!snapshotVars
<1>11. CASE ScaleLockExpires \/ Stop \/ UNCHANGED vars
  BY <1>1, <1>11 DEF ScaleLockExpires, Stop, vars, dsVars, TargetInForce
<1>12. ASSUME NEW w \in Workers, Work(w)
       PROVE  Status!Next \/ UNCHANGED Status!snapshotVars
  BY <1>1, <1>2, <1>12 DEF TargetInForce
<1> QED
  BY <1>3, <1>4, <1>5, <1>7, <1>8, <1>9, <1>10, <1>11, <1>12
  DEF Next, Loop, Read, Status!Next

(* The daemon implements Snapshots: however many goroutines run and        *)
(* however they interleave, its clients cannot tell it from a daemon that  *)
(* decides and answers in single steps (server.go:125-134, 216-225,        *)
(* 297-316).                                                               *)
THEOREM DaemonAnswersAreSnapshots == Spec => AnswersAreSnapshots
<1>1. SnapshotIInv /\ [Next]_vars => [Status!Next]_(Status!snapshotVars)
  BY SnapshotStep
<1>2. TypeOK /\ AnswerIInv /\ IdleToldNothing => SnapshotIInv
  BY DEF SnapshotIInv
<1> QED
  BY AnswerInit, AnswerStep, IdleInit, IdleStep, SnapshotInit, DaemonTypeOK, <1>1, <1>2, PTL
  DEF Spec, AnswersAreSnapshots, Status!Spec

=============================================================================
