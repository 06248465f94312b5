------------------------------ MODULE Detector ------------------------------
(***************************************************************************)
(* AnomalyDetector (pkg/detector/detector.go): per-address lists of failed *)
(* logins, the blocks and the scale-down lock they lead to, and the test   *)
(* of the two load windows.  Every method runs under d.mu.                 *)
(*                                                                         *)
(* A failure carries the second its line was parsed in and is inspected    *)
(* late and in any order (Clock).  The list of an address is only filtered *)
(* and counted: it is kept as the number of its entries of each second.    *)
(* An expiry is an absolute time, 0 where the code has none.  The program  *)
(* builds no configuration but DefaultConfig, whose limits are positive.   *)
(***************************************************************************)
EXTENDS Clock, Functions

CONSTANTS
  IPs,
  FailWindow,   (* seconds a failure counts for                            *)
  FailLimit,    (* failures within it that block their address             *)
  LockDuration, (* seconds a block, and the scale-down lock, last          *)
  ShortSpan, LongSpan,       (* seconds of the two load windows            *)
  SurgeRPS, SurgeRatio,      (* a surge: rate, and factor over the long    *)
  ErrorSample, ErrorPercent, (* a spike: least requests, and percentage    *)
  Windows                    (* pairs of totals the windows can show       *)

ASSUME DetectorAssumption ==
  /\ FailWindow \in Nat /\ FailLimit \in Nat \ {0}
  /\ LockDuration \in Nat \ {0}
  /\ ShortSpan \in Nat \ {0} /\ LongSpan \in Nat \ {0}

VARIABLES
  ipAuthFails,  (* [address -> [second -> entries]]                        *)
  blockedUntil, (* blockedIPs: expiry of each address's block              *)
  scaleLockExp,
  reported,     (* the threat the last call returned                       *)
  failed        (* history: all failures ever inspected                    *)

detectorVars ==
  <<now, ipAuthFails, blockedUntil, scaleLockExp, reported, failed>>

Tallies == [Seconds -> Nat]

Threats == {"none", "BRUTE_FORCE", "TRAFFIC_SURGE", "ERROR_SPIKE"}

DetectorInit ==
  /\ now = 0
  /\ ipAuthFails = [ip \in IPs |-> [s \in Seconds |-> 0]]
  /\ blockedUntil = [ip \in IPs |-> 0]
  /\ scaleLockExp = 0
  /\ reported = "none"
  /\ failed = ipAuthFails

-----------------------------------------------------------------------------
(* InspectLog of a 401 or 403 with an address.                             *)

OneMoreAt(tally, s) == [tally EXCEPT ![s] = @ + 1]

(* The list after pruning it by the record's own stamp and appending that. *)
UnprunedRecent(ip, stamp) == OneMoreAt(ipAuthFails[ip], stamp)

DoubledRecent(ip, stamp) ==
  OneMoreAt(OneMoreAt([s \in Seconds |->
              IF s + FailWindow >= stamp THEN ipAuthFails[ip][s] ELSE 0], stamp),
            stamp)

Recent(ip, stamp) ==
  OneMoreAt([s \in Seconds |->
               IF s + FailWindow >= stamp THEN ipAuthFails[ip][s] ELSE 0], stamp)

FaultyBreached(tally) == SumFunction(tally) > FailLimit

Breached(tally) == SumFunction(tally) >= FailLimit

Expiry == now + LockDuration

(* A breach blocks the address and renews the lock.                        *)
FaultyBlock(ip) ==
  /\ blockedUntil' = [blockedUntil EXCEPT ![ip] = Expiry]
  /\ scaleLockExp' = IF now < scaleLockExp THEN scaleLockExp ELSE Expiry

Block(ip) ==
  /\ blockedUntil' = [blockedUntil EXCEPT ![ip] = Expiry]
  /\ scaleLockExp' = Expiry

InspectFailure(ip, stamp) ==
  /\ failed[ip][stamp] < MaxPerSecond
  /\ failed' = [failed EXCEPT ![ip] = OneMoreAt(failed[ip], stamp)]
  /\ ipAuthFails' = [ipAuthFails EXCEPT ![ip] = Recent(ip, stamp)]
  /\ IF Breached(Recent(ip, stamp))
     THEN Block(ip) /\ reported' = "BRUTE_FORCE"
     ELSE UNCHANGED <<blockedUntil, scaleLockExp>> /\ reported' = "none"
  /\ UNCHANGED now

-----------------------------------------------------------------------------
(* EvaluateWindow, over totals of requests and of 5xx answers.             *)

Surge(w) ==
  /\ w.short >= SurgeRPS * ShortSpan
  /\ w.long > 0
  /\ w.short * LongSpan >= SurgeRatio * w.long * ShortSpan

ErrorSpike(w) ==
  w.short >= ErrorSample /\ w.errors * 100 >= ErrorPercent * w.short

Verdict(w) ==
  IF Surge(w) THEN "TRAFFIC_SURGE"
  ELSE IF ErrorSpike(w) THEN "ERROR_SPIKE" ELSE "none"

(* The verdict is returned, and nothing else comes of it in the detector.  *)
EvaluateWindow ==
  /\ \E w \in Windows : reported' = Verdict(w)
  /\ UNCHANGED <<now, ipAuthFails, blockedUntil, scaleLockExp, failed>>

-----------------------------------------------------------------------------
IsScaleDownLocked == now < scaleLockExp

GetBlockedIPs == {ip \in IPs : now < blockedUntil[ip]}

DetectorTick ==
  /\ Advance
  /\ UNCHANGED <<ipAuthFails, blockedUntil, scaleLockExp, reported, failed>>

Inspect == \E ip \in IPs, stamp \in Stamps : InspectFailure(ip, stamp)

DetectorNext == Inspect \/ EvaluateWindow \/ DetectorTick

DetectorSpec == DetectorInit /\ [][DetectorNext]_detectorVars

-----------------------------------------------------------------------------
DetectorTypeOK ==
  /\ now \in Seconds
  /\ \A ip \in IPs, s \in Seconds : ipAuthFails[ip][s] <= failed[ip][s]
  /\ \A ip \in IPs : blockedUntil[ip] \in 0..(MaxTime + LockDuration)
  /\ scaleLockExp \in 0..(MaxTime + LockDuration)
  /\ reported \in Threats

(* Failures of an address stamped from second a to second b.               *)
FailedWithin(ip, a, b) ==
  SumFunctionOnSet(failed[ip], {s \in Seconds : a <= s /\ s <= b})

(* No block outlives the scale-down lock, however blocks of several        *)
(* addresses are renewed and expire: the status never shows a blocked      *)
(* address with the lock open (detector.go:98-99, 151-170).                *)
LockCoversBlocks == \A ip \in IPs : blockedUntil[ip] <= scaleLockExp

(* An address is blocked, or a block renewed, only on a flood: FailLimit   *)
(* failures close enough that their lateness accounts for the rest.  Old   *)
(* failures never add up over time (detector.go:86-97).                    *)
BlockedOnlyByFlood ==
  [][\A ip \in IPs : blockedUntil'[ip] # blockedUntil[ip] =>
       \E t \in Seconds :
         FailedWithin(ip, t, t + FailWindow + MaxLate)' >= FailLimit]_detectorVars

(* No flood is missed: FailLimit failures within the window, less what     *)
(* lateness may cost, always blocked their address, whatever order they    *)
(* were inspected in and whatever was pruned meanwhile (detector.go:88-94).*)
FloodIsBlocked ==
  \A ip \in IPs, t \in Seconds :
    /\ FailWindow >= MaxLate
    /\ FailedWithin(ip, t, t + FailWindow - MaxLate) >= FailLimit
    => blockedUntil[ip] > 0

=============================================================================
