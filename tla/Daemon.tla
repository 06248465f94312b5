------------------------------- MODULE Daemon -------------------------------
(***************************************************************************)
(* DaemonServer (cmd/logstrata-daemon/server.go): the goroutines of the    *)
(* daemon and the state they share.  Workers process lines (the tailer and *)
(* every ingest request run ProcessLine), the evaluation loop decides, and *)
(* readers answer status and metrics requests or feed an event stream.     *)
(*                                                                         *)
(* ds.mu is a sync.RWMutex: a goroutine waiting for Lock keeps new readers *)
(* out.  The engine and the detector have mutexes of their own, so that    *)
(* their methods are atomic and interleave with whatever ds.mu protects.   *)
(* What they compute is SlidingWindow's and Detector's matter: here a line *)
(* may breach, a window may be anomalous, and the demand is any count.     *)
(***************************************************************************)
EXTENDS Naturals, Sequences

CONSTANTS
  Workers, Readers,
  Streams,    (* the readers that are /api/v1/stream connections           *)
  MinReplicas, MaxReplicas,
  ThreatCap,  (* entries ProcessLine trims activeThreats to                *)
  MaxAnomalies (* bound: anomalous windows in a behaviour                  *)

ASSUME DaemonAssumption ==
  /\ Streams \subseteq Readers
  /\ MinReplicas \in Nat /\ MaxReplicas \in Nat /\ MinReplicas < MaxReplicas
  /\ ThreatCap \in Nat \ {0} /\ MaxAnomalies \in Nat

VARIABLES
  worker,          (* where each worker is in ProcessLine                  *)
  reader,          (* where each reader is in its handler                  *)
  loop,            (* where the evaluation loop is                         *)
  holders,         (* the readers that hold ds.mu                          *)
  writer,          (* "loop" while it holds ds.mu across steps, or "none"  *)
  scaleLock,       (* the detector's lock: "held" or "free"                *)
  isLocked,        (* the loop's copy of it                                *)
  currentReplicas,
  lastDecision,    (* desired replicas of ds.lastDecision, 0 before any    *)
  activeThreats,   (* kinds of threat, oldest first                        *)
  response,        (* what each reader has read so far                     *)
  stopCh,          (* "open", or "closed" by Stop                          *)
  anomalies        (* history: the anomalous windows so far                *)

muVars == <<holders, writer>>
threatVars == <<activeThreats, anomalies>>
dsVars == <<currentReplicas, lastDecision, threatVars>>

vars == <<worker, reader, loop, muVars, scaleLock, isLocked, dsVars, response,
          stopCh>>

NoAnswer == [replicas |-> 0, target |-> 0]

Init ==
  /\ worker = [w \in Workers |-> "idle"]
  /\ reader = [r \in Readers |-> "idle"]
  /\ loop = "waiting"
  /\ holders = {} /\ writer = "none"
  /\ scaleLock = "free" /\ isLocked = "free"
  /\ currentReplicas = MinReplicas /\ lastDecision = 0
  /\ activeThreats = <<>> /\ anomalies = 0
  /\ response = [r \in Readers |-> NoAnswer]
  /\ stopCh = "open"

-----------------------------------------------------------------------------
(* sync.RWMutex.                                                           *)

MayLock == holders = {} /\ writer = "none"

(* The goroutines waiting for Lock, for each of them it is the next call.  *)
LockPending ==
  \/ \E w \in Workers : worker[w] \in {"count", "append"}
  \/ loop \in {"append", "lock"}

MayRLock == writer = "none" /\ ~LockPending

-----------------------------------------------------------------------------
(* ProcessLine: record, count, inspect, and append a threat.               *)

Becomes(w, place) == worker' = [worker EXCEPT ![w] = place]

(* The line parses and MetricsEngine.Record has taken it.                  *)
RecordLine(w) ==
  /\ worker[w] = "idle"
  /\ Becomes(w, "count")
  /\ UNCHANGED <<reader, loop, muVars, scaleLock, isLocked, dsVars, response,
                 stopCh>>

(* totalIngested++ in a critical section; the count itself is left out.    *)
CountLine(w) ==
  /\ worker[w] = "count" /\ MayLock
  /\ Becomes(w, "inspect")
  /\ UNCHANGED <<reader, loop, muVars, scaleLock, isLocked, dsVars, response,
                 stopCh>>

(* InspectLog: a breach engages the lock, outside ds.mu.                   *)
InspectLine(w) ==
  /\ worker[w] = "inspect"
  /\ \/ Becomes(w, "idle") /\ UNCHANGED scaleLock
     \/ Becomes(w, "append") /\ scaleLock' = "held"
  /\ UNCHANGED <<reader, loop, muVars, isLocked, dsVars, response, stopCh>>

(* One entry is dropped for one appended once the list is over its cap.    *)
FaultyTrimmed(threats) == threats

Trimmed(threats) == IF Len(threats) > ThreatCap THEN Tail(threats) ELSE threats

AppendThreat(w) ==
  /\ worker[w] = "append" /\ MayLock
  /\ activeThreats' = Trimmed(Append(activeThreats, "BRUTE_FORCE"))
  /\ Becomes(w, "idle")
  /\ UNCHANGED <<reader, loop, muVars, scaleLock, isLocked, currentReplicas,
                 lastDecision, response, stopCh, anomalies>>

Work(w) == RecordLine(w) \/ CountLine(w) \/ InspectLine(w) \/ AppendThreat(w)

-----------------------------------------------------------------------------
(* StartEvaluationLoop.                                                    *)

(* The ticker fires; both snapshots and EvaluateWindow are taken.          *)
EvaluateWindows ==
  /\ loop = "waiting"
  /\ \/ loop' = "lock"
     \/ anomalies < MaxAnomalies /\ loop' = "append"
  /\ UNCHANGED <<worker, reader, muVars, scaleLock, isLocked, dsVars, response,
                 stopCh>>

(* The loop appends and does not trim.                                     *)
AppendAnomaly ==
  /\ loop = "append" /\ MayLock
  /\ anomalies' = anomalies + 1
  /\ activeThreats' = Append(activeThreats, "WINDOW")
  /\ loop' = "lock"
  /\ UNCHANGED <<worker, reader, muVars, scaleLock, isLocked, currentReplicas,
                 lastDecision, response, stopCh>>

(* ds.mu is taken, then the detector is asked under its own mutex.         *)
LockAndAsk ==
  /\ loop = "lock" /\ MayLock
  /\ writer' = "loop"
  /\ isLocked' = scaleLock
  /\ loop' = "decide"
  /\ UNCHANGED <<worker, reader, holders, scaleLock, dsVars, response, stopCh>>

(* Evaluate: the count stays, or goes to any demand the lock permits.      *)
FaultyDecide ==
  /\ loop = "decide"
  /\ currentReplicas' \in MinReplicas..MaxReplicas
  /\ writer' = "none"
  /\ loop' = "store"
  /\ UNCHANGED <<worker, reader, holders, scaleLock, isLocked, lastDecision,
                 threatVars, response, stopCh>>

Decide ==
  /\ loop = "decide"
  /\ currentReplicas' \in MinReplicas..MaxReplicas
  /\ isLocked = "held" => currentReplicas' >= currentReplicas
  /\ loop' = "store"
  /\ UNCHANGED <<worker, reader, muVars, scaleLock, isLocked, lastDecision,
                 threatVars, response, stopCh>>

(* Whatever the decision, its desired count is the one now in force.       *)
FaultyStoreAndUnlock ==
  /\ loop = "store"
  /\ lastDecision' = currentReplicas
  /\ writer' = IF lastDecision' = lastDecision THEN writer ELSE "none"
  /\ loop' = "waiting"
  /\ UNCHANGED <<worker, reader, holders, scaleLock, isLocked, currentReplicas,
                 threatVars, response, stopCh>>

StoreAndUnlock ==
  /\ loop = "store"
  /\ lastDecision' = currentReplicas
  /\ writer' = "none"
  /\ loop' = "waiting"
  /\ UNCHANGED <<worker, reader, holders, scaleLock, isLocked, currentReplicas,
                 threatVars, response, stopCh>>

ExitLoop ==
  /\ loop = "waiting" /\ stopCh = "closed"
  /\ loop' = "stopped"
  /\ UNCHANGED <<worker, reader, muVars, scaleLock, isLocked, dsVars, response,
                 stopCh>>

Loop ==
  \/ EvaluateWindows \/ AppendAnomaly \/ LockAndAsk \/ Decide
  \/ StoreAndUnlock \/ ExitLoop

-----------------------------------------------------------------------------
(* handleStatus and handleMetrics read the fields one by one under RLock,  *)
(* which they hold until the client has taken the whole answer.            *)
(* handleStream does so at every tick and lets go of the lock before it    *)
(* writes to its client.                                                   *)

Advance(r, place) == reader' = [reader EXCEPT ![r] = place]

BeginRead(r) ==
  /\ reader[r] = "idle" /\ MayRLock
  /\ holders' = holders \cup {r}
  /\ response' = [response EXCEPT ![r].replicas = currentReplicas]
  /\ Advance(r, "reading")
  /\ UNCHANGED <<worker, loop, writer, scaleLock, isLocked, dsVars, stopCh>>

ReadTarget(r) ==
  /\ reader[r] = "reading"
  /\ response' = [response EXCEPT ![r].target = lastDecision]
  /\ Advance(r, "sending")
  /\ UNCHANGED <<worker, loop, muVars, scaleLock, isLocked, dsVars, stopCh>>

Send(r) ==
  /\ reader[r] = "sending" /\ r \notin Streams
  /\ holders' = holders \ {r}
  /\ response' = [response EXCEPT ![r] = NoAnswer]
  /\ Advance(r, "idle")
  /\ UNCHANGED <<worker, loop, writer, scaleLock, isLocked, dsVars, stopCh>>

(* The payload is marshalled: RUnlock, then Fprintf and Flush.             *)
FaultyRelease(r) ==
  /\ reader[r] = "sending" /\ r \in Streams
  /\ Advance(r, "flushing")
  /\ UNCHANGED <<worker, loop, muVars, scaleLock, isLocked, dsVars, response, stopCh>>

Release(r) ==
  /\ reader[r] = "sending" /\ r \in Streams
  /\ holders' = holders \ {r}
  /\ Advance(r, "flushing")
  /\ UNCHANGED <<worker, loop, writer, scaleLock, isLocked, dsVars, response, stopCh>>

Flush(r) ==
  /\ reader[r] = "flushing"
  /\ response' = [response EXCEPT ![r] = NoAnswer]
  /\ Advance(r, "idle")
  /\ UNCHANGED <<worker, loop, muVars, scaleLock, isLocked, dsVars, stopCh>>

Read(r) == BeginRead(r) \/ ReadTarget(r) \/ Send(r) \/ Release(r) \/ Flush(r)

-----------------------------------------------------------------------------
(* The lock's time is over.                                                *)
ScaleLockExpires ==
  /\ scaleLock' = "free"
  /\ UNCHANGED <<worker, reader, loop, muVars, isLocked, dsVars, response, stopCh>>

Stop ==
  /\ stopCh' = "closed"
  /\ UNCHANGED <<worker, reader, loop, muVars, scaleLock, isLocked, dsVars,
                 response>>

Next ==
  \/ \E w \in Workers : Work(w)
  \/ Loop
  \/ \E r \in Readers : Read(r)
  \/ ScaleLockExpires \/ Stop

(* A goroutine that can run does, a freed mutex goes to every waiter in    *)
(* turn (sync.Mutex hands over to one starving for 1ms), and clients take  *)
(* the answers they asked for.  The client of a stream need not: nothing   *)
(* is asked of Flush.                                                      *)
Fairness ==
  /\ \A w \in Workers :
       /\ SF_vars(CountLine(w)) /\ SF_vars(AppendThreat(w))
       /\ WF_vars(InspectLine(w))
  /\ SF_vars(AppendAnomaly) /\ SF_vars(LockAndAsk)
  /\ WF_vars(EvaluateWindows \/ Decide \/ StoreAndUnlock)
  /\ \A r \in Readers : WF_vars(ReadTarget(r) \/ Send(r) \/ Release(r))

Spec == Init /\ [][Next]_vars

FairSpec == Spec /\ Fairness

-----------------------------------------------------------------------------
TypeOK ==
  /\ worker \in [Workers -> {"idle", "count", "inspect", "append"}]
  /\ reader \in [Readers -> {"idle", "reading", "sending", "flushing"}]
  /\ loop \in {"waiting", "append", "lock", "decide", "store", "stopped"}
  /\ holders \subseteq Readers
  /\ writer \in {"loop", "none"}
  /\ {scaleLock, isLocked} \subseteq {"held", "free"}
  /\ currentReplicas \in MinReplicas..MaxReplicas
  /\ lastDecision \in {0} \cup (MinReplicas..MaxReplicas)
  /\ activeThreats \in Seq({"BRUTE_FORCE", "WINDOW"})
  /\ stopCh \in {"open", "closed"}
  /\ anomalies \in Nat

(* Workers and loop append to one list in critical sections of their own,  *)
(* and only the workers trim it, by one entry for one appended.  So the    *)
(* list never shrinks and grows by every anomalous window, but by nothing  *)
(* else: breaches alone never take it beyond its cap, and never further    *)
(* beyond it than the loop did (server.go:94-100, 119-123).                *)
ThreatsBounded == Len(activeThreats) <= ThreatCap + anomalies

(* An answer or a stream payload never mixes two evaluations: its          *)
(* target_replicas is 0 or equals its current_replicas, also after the     *)
(* lock is gone (server.go:125-134, 216-225, 297-316).                     *)
AnswersAreConsistent ==
  \A r \in Readers :
    reader[r] \in {"sending", "flushing"} => response[r].target \in {0, response[r].replicas}

(* A decision counts from where the count changes, and what a reader is    *)
(* about to read from where it took the mutex.                             *)
TargetInForce == IF loop = "store" THEN currentReplicas ELSE lastDecision

AnswerBegun ==
  [r \in Readers |->
    IF reader[r] = "reading"
    THEN [replicas |-> response[r].replicas, target |-> lastDecision]
    ELSE response[r]]

Status == INSTANCE Snapshots WITH
  Clients <- Readers, Least <- MinReplicas, Most <- MaxReplicas,
  count <- currentReplicas, target <- TargetInForce, told <- AnswerBegun

(* Every answer and every stream payload is a snapshot: what the count and *)
(* the target were at one moment, although the loop changes the two in     *)
(* separate steps, the reader reads them in separate steps, and the        *)
(* payload leaves after the lock is gone (server.go:125-134, 216-225,      *)
(* 297-316).                                                               *)
AnswersAreSnapshots == Status!Spec

(* A line that was recorded is counted, inspected and reported in the end, *)
(* whatever the readers and the loop hold: no mutex is kept for good, not  *)
(* for a stream whose client never reads, and no two are taken in opposite *)
(* orders (server.go:88-101, 297-316).                                     *)
LinesComplete == \A w \in Workers : worker[w] = "count" ~> worker[w] = "idle"

(* Until the daemon stops, the loop decides again and again, under any     *)
(* number of lines and status requests (server.go:106-138).                *)
LoopDecides ==
  /\ []<>(loop \in {"waiting", "stopped"})
  /\ loop = "lock" ~> loop = "store"

(* "Security Lock Check: Prevent scale down during ongoing threat"         *)
(* (scaler.go:105).  The lock is read under ds.mu and a breach engages it  *)
(* outside, so that a count can fall while the lock is held.               *)
NoScaleDownWhileLocked ==
  [][scaleLock = "held" => currentReplicas' >= currentReplicas]_vars

=============================================================================
