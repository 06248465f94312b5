----------------------------- MODULE PartsProofs -----------------------------
(***************************************************************************)
(* Theorems about parts of the system that run by themselves, for every    *)
(* value of their constants: first what each part needs, the stream hook   *)
(* and its back-off, the block list, the pages' view of the session, the   *)
(* simulator, the badges, the two animations, the console, the templates,  *)
(* the pod map, the generators and the file tailer, then the parts         *)
(* together.                                                               *)
(***************************************************************************)
EXTENDS Parts, FiniteSetTheorems, SequenceTheorems, WellFoundedInduction, TLAPS

-----------------------------------------------------------------------------
(* The stream hook.                                                        *)

(* The wait after a failure is a delay again: positive, unless             *)
(* reconnection is disabled, so that an armed timer never looks unarmed.   *)
LEMMA DelayPositive ==
  ASSUME NEW fails \in 1..Saturation
  PROVE  Delay(fails) \in Nat /\ (ReconnectMs > 0 => Delay(fails) > 0)
<1> USE StreamAssumption DEF Delay, Smaller, Threes, Twos, Saturation
<1>1. CASE fails = 1
  BY <1>1
<1>2. CASE fails = 2
  BY <1>2
<1>3. CASE fails = 3
  BY <1>3
<1>4. CASE fails = 4
  BY <1>4
<1>5. CASE fails = 5
  BY <1>5
<1>6. CASE fails = 6
  BY <1>6
<1> QED
  BY <1>1, <1>2, <1>3, <1>4, <1>5, <1>6

(* The invariant that is inductive: beside the two properties, a page      *)
(* without EventSource never gets a source or a timer, and an unmounted    *)
(* one keeps neither.                                                      *)
StreamIInv ==
  /\ timer \in Nat /\ failCount \in 0..Saturation
  /\ support = "no" \/ mounted = "no" =>
       sources = {} /\ opened = {} /\ esRef = "null" /\ timer = 0
  /\ mounted \in {"yes", "no"} /\ support \in {"yes", "no"}
  /\ StateMatchesTransport
  /\ NothingLeaks

(* What a failure leaves behind.                                           *)
LEMMA FailureArms ==
  ASSUME StreamIInv, ScheduleReconnect
  PROVE  /\ timer' \in Nat /\ failCount' \in 0..Saturation
         /\ ReconnectMs > 0 => timer' > 0
<1>1. failCount' \in 1..Saturation
  BY DEF StreamIInv, ScheduleReconnect, Smaller, Saturation
<1> QED
  BY <1>1, DelayPositive DEF ScheduleReconnect, Saturation

LEMMA StreamInitHolds == StreamInit => StreamIInv
BY DEF StreamInit, StreamIInv, StateMatchesTransport, NothingLeaks, Away, Saturation

(* openStream, from a timer or from an effect that starts: the one source  *)
(* there was is gone, and there is a new one or the next attempt is armed. *)
LEMMA OpenStreamHolds ==
  ASSUME StreamIInv, mounted = "yes", support = "yes", UNCHANGED <<mounted, support, shown, sim>>,
         NEW address, NEW fails \in 0..Saturation, OpenStream(address, fails)
  PROVE  StreamIInv'
<1>1. sources \ {esRef} = {} /\ opened \ {esRef} = {}
  BY DEF StreamIInv, StateMatchesTransport, Away
<1>2. CASE address = "good"
  <2>1. PICK name \in SourceNames : Connect(name, fails)
    BY <1>2 DEF OpenStream
  <2>2. sources' = {name} /\ esRef' = name /\ opened' = {} /\ timer' = 0
    BY <1>1, <2>1 DEF Connect
  <2>3. StateMatchesTransport' /\ NothingLeaks'
    BY <2>1, <2>2 DEF Connect, StreamIInv, StateMatchesTransport, NothingLeaks
  <2> QED
    BY <2>1, <2>2, <2>3 DEF Connect, StreamIInv
<1>3. CASE address # "good"
  <2>1. Refused(fails)
    BY <1>3 DEF OpenStream
  <2>2. failCount' \in 1..Saturation
    BY <2>1 DEF Refused, Smaller, Saturation
  <2>3. timer' \in Nat /\ (ReconnectMs > 0 => timer' > 0)
    BY <2>1, <2>2, DelayPositive DEF Refused
  <2>4. StateMatchesTransport' /\ NothingLeaks'
    BY <1>1, <2>1, <2>3 DEF Refused, StreamIInv, StateMatchesTransport, NothingLeaks, Away
  <2> QED
    BY <2>1, <2>2, <2>3, <2>4 DEF StreamIInv, Saturation
<1> QED
  BY <1>2, <1>3

LEMMA StreamStep == StreamIInv /\ [StreamNext]_streamVars => StreamIInv'
<1> SUFFICES ASSUME StreamIInv, [StreamNext]_streamVars
             PROVE  StreamIInv'
  OBVIOUS
<1>1. ASSUME NEW es \in sources, OnOpen(es)
      PROVE  StreamIInv'
  <2>1. sources = {esRef} /\ timer = 0 /\ opened \cup {es} = sources
    BY <1>1 DEF StreamIInv, StateMatchesTransport, NothingLeaks
  <2> QED
    BY <1>1, <2>1 DEF OnOpen, StreamIInv, StateMatchesTransport, NothingLeaks, Saturation
<1>2. ASSUME NEW es \in sources, OnError(es)
      PROVE  StreamIInv'
  <2>1. /\ sources = {esRef} /\ opened \subseteq sources
        /\ mounted = "yes" /\ support = "yes"
    BY <1>2 DEF StreamIInv, StateMatchesTransport, NothingLeaks
  <2>2. sources' = {} /\ opened' = {}
    BY <1>2, <2>1 DEF OnError
  <2>3. timer' \in Nat /\ failCount' \in 0..Saturation /\ (ReconnectMs > 0 => timer' > 0)
    BY <1>2, FailureArms DEF OnError
  <2> QED
    BY <1>2, <2>1, <2>2, <2>3
    DEF OnError, StreamIInv, StateMatchesTransport, NothingLeaks, Away
<1>3. CASE TimerFires
  <2>1. mounted = "yes" /\ support = "yes"
    BY <1>3 DEF TimerFires, StreamIInv
  <2> QED
    BY <1>3, <2>1, OpenStreamHolds DEF TimerFires, StreamIInv
<1>4. CASE ChangeUrl
  BY <1>4, OpenStreamHolds DEF ChangeUrl, Saturation
<1>5. CASE CommitState
  BY <1>5 DEF CommitState, StreamIInv, StateMatchesTransport, NothingLeaks, transportVars
<1>6. CASE SimulationFires
  BY <1>6 DEF SimulationFires, StreamIInv, StateMatchesTransport, NothingLeaks, transportVars
<1>7. ASSUME NEW es \in sources, OnMessage(es)
      PROVE  StreamIInv'
  BY <1>7 DEF OnMessage, StreamIInv, StateMatchesTransport, NothingLeaks, transportVars
<1>8. CASE Unmount
  <2>1. sources \ {esRef} = {} /\ opened \ {esRef} = {}
    BY DEF StreamIInv, StateMatchesTransport, Away
  <2> QED
    BY <1>8, <2>1 DEF Unmount, StreamIInv, StateMatchesTransport, NothingLeaks
<1>9. CASE ServerChanges
  BY <1>9 DEF ServerChanges, StreamIInv, StateMatchesTransport, NothingLeaks, transportVars
<1>10. CASE UNCHANGED streamVars
  BY <1>10 DEF streamVars, StreamIInv, StateMatchesTransport, NothingLeaks, transportVars
<1> QED
  BY <1>1, <1>2, <1>3, <1>4, <1>5, <1>6, <1>7, <1>8, <1>9, <1>10 DEF StreamNext, Transport

(* The state the hook reports is that of the one connection it holds: LIVE *)
(* when it has opened, CONNECTING before, and without a connection the     *)
(* next attempt is armed; the cleanups leave nothing behind, and the       *)
(* simulation's interval exists exactly in the simulated state             *)
(* (useDaemonStream.ts:150-266).                                           *)
THEOREM StreamViewFollowsTransport == StreamSpec => []ViewFollowsTransport
<1>1. StreamIInv => ViewFollowsTransport
  BY DEF StreamIInv, ViewFollowsTransport
<1> QED
  BY StreamInitHolds, StreamStep, <1>1, PTL DEF StreamSpec

(* Each delay is at most half a minute and no shorter than the one before, *)
(* the last one being that of every further failure.                       *)
LEMMA DelayGrows ==
  ASSUME NEW fails \in 1..Saturation
  PROVE  /\ Delay(fails) \in Nat /\ Delay(fails) <= 30000
         /\ Delay(fails) <= Delay(Smaller(Saturation, fails + 1))
<1> USE StreamAssumption DEF Delay, Smaller, Threes, Twos, Saturation
<1>1. CASE fails = 1
  BY <1>1
<1>2. CASE fails = 2
  BY <1>2
<1>3. CASE fails = 3
  BY <1>3
<1>4. CASE fails = 4
  BY <1>4
<1>5. CASE fails = 5
  BY <1>5
<1>6. CASE fails = 6
  BY <1>6
<1> QED
  BY <1>1, <1>2, <1>3, <1>4, <1>5, <1>6

(* The last delay is that of the failures in a row.                        *)
DelayIInv ==
  /\ failCount \in 0..Saturation
  /\ lastDelay = IF failCount = 0 THEN 0 ELSE Delay(failCount)

(* What one attempt may do to the wait.                                    *)
Waits == timer' <= 30000 /\ (timer' >= lastDelay \/ failCount' = 1)

LEMMA FailureGrows ==
  ASSUME DelayIInv, NEW fails \in {0, failCount},
         failCount' = Smaller(Saturation, fails + 1),
         timer' = Delay(failCount'), lastDelay' = timer'
  PROVE  DelayIInv' /\ Waits
<1>1. failCount' \in 1..Saturation
  BY DEF DelayIInv, Smaller, Saturation
<1>2. Delay(failCount') \in Nat /\ Delay(failCount') <= 30000
  BY <1>1, DelayGrows
<1>3. CASE fails = 0
  BY <1>1, <1>2, <1>3 DEF DelayIInv, Waits, Smaller, Saturation
<1>4. CASE fails # 0
  <2>1. fails = failCount /\ failCount \in 1..Saturation /\ lastDelay = Delay(failCount)
    BY <1>4 DEF DelayIInv, Saturation
  <2>2. Delay(failCount) <= Delay(failCount') /\ Delay(failCount) \in Nat
    BY <2>1, DelayGrows
  <2> QED
    BY <1>1, <1>2, <2>1, <2>2 DEF DelayIInv, Waits, Saturation
<1> QED
  BY <1>3, <1>4

LEMMA OpeningGrows ==
  ASSUME DelayIInv, NEW address, NEW fails \in {0, failCount}, OpenStream(address, fails)
  PROVE  DelayIInv' /\ (timer' > 0 => Waits)
<1>1. CASE address = "good"
  <2>1. failCount' = fails /\ lastDelay' = (IF fails = 0 THEN 0 ELSE lastDelay) /\ timer' = 0
    BY <1>1 DEF OpenStream, Connect
  <2> QED
    BY <2>1 DEF DelayIInv, Saturation
<1>2. CASE address # "good"
  BY <1>2, FailureGrows DEF OpenStream, Refused
<1> QED
  BY <1>1, <1>2

LEMMA DelayStep ==
  DelayIInv /\ [StreamNext]_streamVars
    => DelayIInv' /\ (timer' > 0 /\ timer' # timer => Waits)
<1> SUFFICES ASSUME DelayIInv, [StreamNext]_streamVars
             PROVE  DelayIInv' /\ (timer' > 0 /\ timer' # timer => Waits)
  OBVIOUS
<1>1. ASSUME UNCHANGED <<failCount, lastDelay>>, timer' = timer \/ timer' = 0
      PROVE  DelayIInv' /\ (timer' > 0 /\ timer' # timer => Waits)
  BY <1>1 DEF DelayIInv
<1>2. ASSUME NEW es \in sources, OnOpen(es)
      PROVE  DelayIInv' /\ timer' = timer
  BY <1>2 DEF OnOpen, DelayIInv, Saturation
<1>3. ASSUME NEW es \in sources, OnError(es)
      PROVE  DelayIInv' /\ Waits
  BY <1>3, FailureGrows DEF OnError, ScheduleReconnect
<1>4. CASE TimerFires \/ ChangeUrl
  BY <1>4, OpeningGrows DEF TimerFires, ChangeUrl
<1>5. CASE CommitState \/ SimulationFires \/ ServerChanges \/ UNCHANGED streamVars
  BY <1>1, <1>5 DEF CommitState, SimulationFires, ServerChanges, streamVars, transportVars
<1>6. ASSUME NEW es \in sources, OnMessage(es)
      PROVE  DelayIInv' /\ timer' = timer
  BY <1>1, <1>6 DEF OnMessage, transportVars
<1>7. CASE Unmount
  BY <1>1, <1>7 DEF Unmount
<1> QED
  BY <1>2, <1>3, <1>4, <1>5, <1>6, <1>7 DEF StreamNext, Transport

(* While attempts fail no wait is shorter than the one before it, and none *)
(* exceeds half a minute, for every first delay                            *)
(* (useDaemonStream.ts:189-197).                                           *)
THEOREM StreamBackoffGrows == StreamSpec => BackoffGrows
<1>1. StreamInit => DelayIInv
  BY DEF StreamInit, DelayIInv, Saturation
<1>2. DelayIInv /\ [StreamNext]_streamVars => DelayIInv'
  BY DelayStep
<1>3. DelayIInv /\ [StreamNext]_streamVars =>
        [timer' > 0 /\ timer' # timer
           => timer' <= 30000 /\ (timer' >= lastDelay \/ failCount' = 1)]_streamVars
  BY DelayStep DEF Waits
<1> QED
  BY <1>1, <1>2, <1>3, PTL DEF StreamSpec, BackoffGrows

-----------------------------------------------------------------------------
(* The block list.                                                         *)

BlocklistSpec == BlocklistInit /\ [][BlocklistNext]_blocklistVars

(* The time of an entry is that of its last BlockIP, and an address with   *)
(* time left is in the map, since cleanup takes none that has any.         *)
BlocklistIInv ==
  /\ left \in [Ips -> {-1} \cup Nat] /\ left = promised
  /\ \A ip \in Ips : left[ip] > 0 => ip \in entries

LEMMA BlocklistInitHolds == BlocklistInit => BlocklistIInv
BY DEF BlocklistInit, BlocklistIInv

LEMMA BlocklistStep == BlocklistIInv /\ [BlocklistNext]_blocklistVars => BlocklistIInv'
<1> SUFFICES ASSUME BlocklistIInv, [BlocklistNext]_blocklistVars
             PROVE  BlocklistIInv'
  OBVIOUS
<1> USE DEF BlocklistIInv
<1>1. ASSUME NEW ip \in Ips, NEW duration \in Durations, BlockIP(ip, duration)
      PROVE  BlocklistIInv'
  <2>1. duration \in Nat
    BY BlocklistAssumption
  <2> QED
    BY <1>1, <2>1 DEF BlockIP
<1>2. CASE CleanupExpired
  BY <1>2 DEF CleanupExpired, Expired
<1>3. CASE BlocklistTick
  BY <1>3 DEF BlocklistTick, Later
<1>4. CASE UNCHANGED blocklistVars
  BY <1>4 DEF blocklistVars
<1> QED
  BY <1>1, <1>2, <1>3, <1>4 DEF BlocklistNext

(* An address is blocked for the time of its last BlockIP, to the instant, *)
(* wherever cleanups fall (waf.go:35-92).                                  *)
THEOREM BlocklistBlockedForItsTime == BlocklistSpec => []BlockedForItsTime
<1>1. BlocklistIInv => BlockedForItsTime
  BY DEF BlocklistIInv, BlockedForItsTime, IsBlocked
<1> QED
  BY BlocklistInitHolds, BlocklistStep, <1>1, PTL DEF BlocklistSpec

-----------------------------------------------------------------------------
(* The pages' view of the session.                                         *)

SessionSpec == SessionInit /\ [][SessionNext]_sessionVars

Askers == {"header"} \cup Routes

(* The dashboard shows somebody only while it is the page, so a change of  *)
(* the session that the dashboard is not called for finds nobody shown.    *)
SessionIInv ==
  /\ page \in Routes /\ session \in Sessions
  /\ asks \in [Askers -> Nat]
  /\ viewer = "absent" <=> page # "dashboard"
  /\ EveryoneAgrees

LEMMA SessionInitHolds == SessionInit => SessionIInv
BY DEF SessionInit, SessionIInv, EveryoneAgrees, AsksAtLoad, Askers, Routes

(* A new page shows nobody, and asks on its own account only.              *)
LEMMA GoToHolds ==
  ASSUME SessionIInv, NEW p \in Routes, NEW remaining \in [Askers -> Nat],
         remaining["header"] = asks["header"], GoTo(p, remaining)
  PROVE  /\ page' \in Routes /\ asks' \in [Askers -> Nat]
         /\ asks'["header"] = asks["header"]
         /\ viewer' = "absent" <=> page' # "dashboard"
         /\ viewer' \in {"guest", "user"} => viewer' = viewer /\ page' = page
<1>1. CASE p = page
  BY <1>1 DEF GoTo, SessionIInv
<1>2. CASE p # page
  BY <1>2 DEF GoTo, SessionIInv, Askers, Routes
<1> QED
  BY <1>1, <1>2

LEMMA LoadHolds ==
  ASSUME NEW p \in Routes, Load(p), session' \in Sessions
  PROVE  SessionIInv'
BY DEF Load, SessionIInv, EveryoneAgrees, AsksAtLoad, Askers, Routes

(* Everyone subscribed is told.                                            *)
LEMMA NotifyHolds ==
  ASSUME SessionIInv, NEW s \in Sessions, Notify(s), UNCHANGED <<page, asks>>
  PROVE  SessionIInv'
BY DEF Notify, SessionIInv, EveryoneAgrees, ShownAs, Sessions

LEMMA AnsweredType ==
  ASSUME SessionIInv, NEW who \in Routes, Asked(who)
  PROVE  Answered(who) \in [Askers -> Nat] /\ Answered(who)["header"] = asks["header"]
BY DEF Answered, Asked, SessionIInv, Askers, Routes

LEMMA SessionStep == SessionIInv /\ [SessionNext]_sessionVars => SessionIInv'
<1> SUFFICES ASSUME SessionIInv, [SessionNext]_sessionVars
             PROVE  SessionIInv'
  OBVIOUS
<1>0. ASSUME UNCHANGED <<page, session, headerUser, viewer, asks>>
      PROVE  SessionIInv'
  BY <1>0 DEF SessionIInv, EveryoneAgrees
<1>1. CASE Visit
  BY <1>1, GoToHolds DEF Visit, SessionIInv, EveryoneAgrees
<1>2. CASE Reload
  BY <1>2, LoadHolds DEF Reload, SessionIInv
<1>3. CASE SessionChanges
  BY <1>3, NotifyHolds DEF SessionChanges
<1>4. CASE ToggleMode \/ SubmitForm \/ PressLogOut \/ RequestRefused
  BY <1>0, <1>4 DEF ToggleMode, SubmitForm, PressLogOut, RequestRefused
<1>5. CASE GoogleSignIn
  BY <1>0, <1>5, LoadHolds DEF GoogleSignIn, SessionIInv, Routes, Sessions
<1>6. CASE HeaderAnswered
  BY <1>6 DEF HeaderAnswered, Answered, Asked, SessionIInv, EveryoneAgrees, Askers
<1>7. CASE DashboardAnswered
  <2>1. Answered("dashboard") \in [Askers -> Nat]
        /\ Answered("dashboard")["header"] = asks["header"]
    BY <1>7, AnsweredType DEF DashboardAnswered, Routes
  <2> QED
    BY <1>7, <2>1 DEF DashboardAnswered, SessionIInv, EveryoneAgrees, ShownAs
<1>8. ASSUME NEW who \in {"home", "login"}, RedirectAnswered(who)
      PROVE  SessionIInv'
  <2>1. Answered(who) \in [Askers -> Nat] /\ Answered(who)["header"] = asks["header"]
    BY <1>8, AnsweredType DEF RedirectAnswered, Routes
  <2>2. CASE session = "user"
    <3>1. GoTo("dashboard", Answered(who)) /\ "dashboard" \in Routes
      BY <1>8, <2>2 DEF RedirectAnswered, Routes
    <3> QED
      BY <1>8, <2>1, <3>1, GoToHolds DEF RedirectAnswered, SessionIInv, EveryoneAgrees
  <2>3. CASE session # "user"
    BY <1>8, <2>1, <2>3 DEF RedirectAnswered, SessionIInv, EveryoneAgrees
  <2> QED
    BY <2>2, <2>3
<1>9. CASE RequestGranted
  BY <1>0, <1>9, NotifyHolds DEF RequestGranted, Granted, Sessions
<1>10. ASSUME NEW kind \in RequestKinds, OrphanAnswered(kind)
       PROVE  SessionIInv'
  BY <1>0, <1>10, NotifyHolds DEF OrphanAnswered, Granted, Sessions
<1>11. CASE PushFires
  <2>1. GoTo("dashboard", asks) /\ "dashboard" \in Routes
    BY <1>11 DEF PushFires, Routes
  <2> QED
    BY <1>11, <2>1, GoToHolds DEF PushFires, SessionIInv, EveryoneAgrees
<1>12. CASE SignOutAnswered
  <2>1. GoTo("login", asks) /\ "login" \in Routes
    BY <1>12 DEF SignOutAnswered, Routes
  <2>2. page' = "login"
    BY <2>1 DEF GoTo
  <2> QED
    BY <1>12, <2>1, <2>2, GoToHolds DEF SignOutAnswered, SessionIInv, EveryoneAgrees, Sessions
<1>13. CASE UNCHANGED sessionVars
  BY <1>0, <1>13 DEF sessionVars
<1> QED
  BY <1>1, <1>2, <1>3, <1>4, <1>5, <1>6, <1>7, <1>8, <1>9, <1>10, <1>11, <1>12, <1>13
  DEF SessionNext

(* Header and dashboard show the session that is, once their questions are *)
(* answered, whoever changed it and however late an answer comes           *)
(* (Header.tsx:53-65, dashboard/page.tsx:165-202).                         *)
THEOREM SessionEveryoneAgrees == SessionSpec => []EveryoneAgrees
<1>1. SessionIInv => EveryoneAgrees
  BY DEF SessionIInv
<1> QED
  BY SessionInitHolds, SessionStep, <1>1, PTL DEF SessionSpec

-----------------------------------------------------------------------------
(* The simulator's pods and alerts.                                        *)

LiveLimit == IF lastLive > MaxPods THEN lastLive ELSE MaxPods

(* Only a tick and a click on a stale render pass the limit, and they need *)
(* one that showed room: as long as that is on the screen the tick, which  *)
(* fires once on it, has added one pod too many at most, and a click ends  *)
(* it; a payload moves the limit with the pods.                            *)
LabIInv ==
  /\ running \in Nat /\ starting \in Nat /\ lastLive \in Nat
  /\ seen.pods \in Nat /\ seen.running \in Nat
  /\ PodsBounded
  /\ seen.pods < MaxPods =>
       Pods <= LiveLimit + 1 /\ ("tick" \notin fired => Pods <= LiveLimit)
  /\ CpuAlertIsCurrent

(* Cited where the provers have to add primed variables.                   *)
LEMMA SumIsNat ==
  ASSUME NEW m \in Nat, NEW n \in Nat
  PROVE  m + n \in Nat
OBVIOUS

(* The CPU alert is raised and resolved by ticks alone.                    *)
CpuAlertStays == "cpu" \in alerts' <=> "cpu" \in alerts

LEMMA LabInitHolds == LabInit => LabIInv
BY LabAssumption
DEF LabInit, LabIInv, PodsBounded, CpuAlertIsCurrent, Pods, LiveLimit

LEMMA Resized ==
  ASSUME running \in Nat, NEW n \in Nat, ResizePods(n)
  PROVE  running' \in Nat /\ starting' \in Nat /\ Pods' = n
BY DEF ResizePods, Pods

(* A click leaves a current render: it keeps the invariant if it leaves no *)
(* more pods than the limit and two.                                       *)
LEMMA ClickHolds ==
  ASSUME LabIInv, Click, running' \in Nat, starting' \in Nat,
         Pods' <= LiveLimit + 2, CpuAlertStays
  PROVE  LabIInv'
<1>1. /\ lastLive' = lastLive /\ prevCpu' = prevCpu /\ seen'.pods = Pods' /\ Pods' \in Nat
      /\ seen'.running \in Nat
  <2>1. /\ seen'.pods = running' + starting' /\ seen'.running = running'
        /\ lastLive' = lastLive /\ prevCpu' = prevCpu
    BY DEF Click, Commit
  <2>2. running' + starting' \in Nat
    BY SumIsNat
  <2> QED
    BY <2>1, <2>2 DEF Pods
<1> QED
  BY <1>1, LabAssumption DEF CpuAlertStays, LabIInv, PodsBounded, CpuAlertIsCurrent, LiveLimit

LEMMA VisitorHolds == LabIInv /\ Visitor => LabIInv'
<1> SUFFICES ASSUME LabIInv, Visitor
             PROVE  LabIInv'
  OBVIOUS
<1>1. /\ running \in Nat /\ starting \in Nat /\ lastLive \in Nat /\ seen.pods \in Nat
      /\ Pods \in Nat /\ LiveLimit \in Nat /\ Pods <= LiveLimit + 2 /\ 2 <= LiveLimit
      /\ seen.pods < MaxPods => Pods <= LiveLimit + 1
  BY LabAssumption DEF LabIInv, Pods, PodsBounded, LiveLimit
<1>2. ASSUME Click, UNCHANGED podVars, CpuAlertStays
      PROVE  LabIInv'
  BY <1>1, <1>2, ClickHolds DEF podVars, Pods
<1>3. ASSUME NEW n \in Nat, n <= LiveLimit + 2, Click, running' \in Nat, starting' \in Nat,
             Pods' = n, CpuAlertStays
      PROVE  LabIInv'
  BY <1>3, ClickHolds
<1>4. CASE TrafficButtons
  BY <1>2, <1>4 DEF CpuAlertStays, TrafficButtons, HandleTrafficChange
<1>5. CASE ScenarioButtons
  <2>1. /\ UNCHANGED <<running, starting, alerts, prevCpu, lastLive>>
        /\ seen' = [pods |-> running' + starting', running |-> running', faults |-> faults']
    BY <1>5 DEF ScenarioButtons, RunScenario, Commit, podVars
  <2>2. seen'.pods = Pods /\ seen'.running = running
    BY <2>1 DEF Pods
  <2> QED
    BY <1>1, <2>1, <2>2, LabAssumption
    DEF LabIInv, podVars, Pods, PodsBounded, CpuAlertIsCurrent, LiveLimit
<1>6. CASE AbortButton
  BY <1>2, <1>6 DEF CpuAlertStays, AbortButton
<1>7. ASSUME NEW type \in Anomalies \ {"none"}, TriggerAnomaly(type), Click
      PROVE  LabIInv'
  <2>1. CpuAlertStays
    BY <1>7 DEF CpuAlertStays, TriggerAnomaly, Trigger, Anomalies
  <2>2. CASE type = "outage"
    <3>1. running' \in Nat /\ starting' \in Nat /\ Pods' = 0
      BY <1>1, <1>7, <2>2, Resized DEF TriggerAnomaly
    <3> QED
      BY <1>1, <1>3, <1>7, <2>1, <3>1
  <2>3. CASE type # "outage"
    BY <1>2, <1>7, <2>1, <2>3 DEF TriggerAnomaly
  <2> QED
    BY <2>2, <2>3
<1>8. CASE ClearAnomaly
  <2>1. Click /\ CpuAlertStays
    BY <1>8 DEF CpuAlertStays, ClearAnomaly, Resolve, Anomalies
  <2>2. CASE seen.pods = 0
    <3>1. running' = 1 /\ starting' = 0
      BY <1>8, <2>2 DEF ClearAnomaly
    <3> QED
      BY <1>1, <1>3, <2>1, <3>1 DEF Pods
  <2>3. CASE seen.pods # 0
    BY <1>2, <1>8, <2>1, <2>3 DEF ClearAnomaly
  <2> QED
    BY <2>2, <2>3
<1>9. ASSUME NEW f \in Faults, ChaosToggle(f), Click
      PROVE  LabIInv'
  <2>1. CpuAlertStays
    BY <1>9 DEF CpuAlertStays, ChaosToggle, Trigger, Resolve, Faults
  <2>2. CASE f = "crash"
    <3>1. PICK n \in {0, 1} : running' = n /\ starting' = 0
      BY <1>9, <2>2 DEF ChaosToggle
    <3>2. running' \in Nat /\ starting' \in Nat /\ Pods' <= LiveLimit + 2
      BY <1>1, <3>1 DEF Pods
    <3> QED
      BY <1>9, <2>1, <3>2, ClickHolds
  <2>3. CASE f # "crash"
    BY <1>2, <1>9, <2>1, <2>3 DEF ChaosToggle
  <2> QED
    BY <2>2, <2>3
<1>10. CASE ClearFaults
  BY <1>2, <1>10 DEF CpuAlertStays, ClearFaults, Resolve, Faults
<1>11. CASE HandleAddContainer
  <2>1. /\ running' = running /\ starting' = starting + 1 /\ alerts' = alerts /\ Click
        /\ seen.pods < MaxPods
    BY <1>11 DEF HandleAddContainer
  <2> QED
    BY <1>1, <2>1, ClickHolds DEF Pods, CpuAlertStays
<1>12. CASE HandleRemoveContainer
  <2>1. PICK n \in Nat : n <= LiveLimit + 2 /\ ResizePods(n)
    BY <1>1, <1>12 DEF HandleRemoveContainer
  <2>2. alerts' = alerts /\ Click
    BY <1>12 DEF HandleRemoveContainer
  <2> QED
    BY <1>1, <1>3, <2>1, <2>2, Resized DEF CpuAlertStays
<1>13. CASE AutoScalingButtons \/ Sliders \/ ResetAuto
  BY <1>2, <1>13 DEF CpuAlertStays, AutoScalingButtons, Sliders, ResetAuto
<1>14. CASE TemplateButtons
  BY <1>2, <1>14 DEF CpuAlertStays, TemplateButtons, HandleLoadTemplate
<1> QED
  BY <1>4, <1>5, <1>6, <1>7, <1>8, <1>9, <1>10, <1>11, <1>12, <1>13, <1>14
  DEF Visitor, AnomalyButtons, ChaosToggles

LEMMA LabStep == LabIInv /\ [LabNext]_labVars => LabIInv'
<1> SUFFICES ASSUME LabIInv, [LabNext]_labVars
             PROVE  LabIInv'
  OBVIOUS
<1>1. /\ running \in Nat /\ starting \in Nat /\ lastLive \in Nat
      /\ seen.pods \in Nat /\ seen.running \in Nat
      /\ Pods \in Nat /\ LiveLimit \in Nat /\ MaxPods <= LiveLimit /\ Pods <= LiveLimit + 2
      /\ seen.pods < MaxPods =>
           Pods <= LiveLimit + 1 /\ ("tick" \notin fired => Pods <= LiveLimit)
  BY LabAssumption DEF LabIInv, Pods, PodsBounded, LiveLimit
<1>2. CASE LabTick
  <2>1. /\ seen' = seen /\ lastLive' = lastLive /\ prevCpu' = FinalCpu
        /\ "tick" \notin fired /\ "tick" \in fired'
    BY <1>2 DEF LabTick
  <2>2. PICK now : alerts' = TickAlerts(now)
    BY <1>2 DEF LabTick
  <2>3. CpuAlertIsCurrent'
    BY <2>1, <2>2 DEF CpuAlertIsCurrent, TickAlerts
  <2>4. /\ Autoscaled \in Nat
        /\ Autoscaled <= Pods \/ (seen.pods < MaxPods /\ Autoscaled = Pods + 1)
    BY <1>1, LabAssumption DEF Autoscaled
  <2>5. PICK n \in Nat : /\ n <= Pods \/ (seen.pods < MaxPods /\ n = Pods + 1)
                         /\ ResizePods(n)
    BY <1>1, <1>2, <2>4 DEF LabTick
  <2>6. running' \in Nat /\ starting' \in Nat /\ Pods' = n
    BY <1>1, <2>5, Resized
  <2>7. n <= LiveLimit + 2 /\ (seen.pods < MaxPods => n <= LiveLimit + 1)
    BY <1>1, <2>1, <2>5
  <2> QED
    BY <1>1, <2>1, <2>3, <2>6, <2>7, LabAssumption DEF LabIInv, PodsBounded, LiveLimit
<1>3. CASE PodsInterval
  <2>1. PICK n \in 0..starting : running' = running + n /\ starting' = starting - n
    BY <1>3 DEF PodsInterval
  <2>2. running' \in Nat /\ starting' \in Nat /\ Pods' = Pods
    BY <1>1, <2>1 DEF Pods
  <2>3. /\ UNCHANGED <<alerts, prevCpu, seen, lastLive>>
        /\ "tick" \in fired' <=> "tick" \in fired
    BY <1>3 DEF PodsInterval
  <2> QED
    BY <1>1, <2>2, <2>3 DEF LabIInv, PodsBounded, CpuAlertIsCurrent, LiveLimit
<1>4. ASSUME NEW n \in LiveCounts \ {0}, ResizePods(n), lastLive' = n,
             UNCHANGED <<alerts, prevCpu, seen, fired>>
      PROVE  LabIInv'
  <2>1. n \in Nat
    BY LabAssumption
  <2>2. running' \in Nat /\ starting' \in Nat /\ Pods' = n
    BY <1>1, <1>4, <2>1, Resized
  <2> QED
    BY <1>1, <1>4, <2>1, <2>2, LabAssumption
    DEF LabIInv, PodsBounded, CpuAlertIsCurrent, LiveLimit
<1>5. CASE Render
  <2>1. /\ seen'.pods = Pods /\ seen'.running = running
        /\ UNCHANGED <<running, starting, lastLive, alerts, prevCpu>>
    BY <1>5 DEF Render, Commit, podVars, Pods
  <2> QED
    BY <1>1, <2>1, LabAssumption
    DEF LabIInv, PodsBounded, CpuAlertIsCurrent, Pods, LiveLimit
<1>6. CASE UNCHANGED labVars
  BY <1>6 DEF labVars, podVars, LabIInv, PodsBounded, CpuAlertIsCurrent, Pods, LiveLimit
<1> QED
  BY <1>2, <1>3, <1>4, <1>5, <1>6, VisitorHolds DEF LabNext, OnPayload

(* The simulator never has more than two pods above its limit or the last  *)
(* payload's count, one that a tick and one that a click added on a stale  *)
(* render, and its CPU alert stands exactly while the CPU does, for every  *)
(* limit, payload, template and number of clicks                           *)
(* (dashboard/page.tsx:270-287, 528, 783-833).                             *)
THEOREM LabPodsAndAlertsAreCurrent == PartsSpec => []PodsAndAlertsAreCurrent
<1>1. PartsInit => LabIInv
  BY LabInitHolds DEF PartsInit
<1>2. [PartsNext]_partsVars => [LabNext]_labVars
  BY DEF PartsNext, OthersIdle, partsVars
<1>3. LabIInv => PodsAndAlertsAreCurrent
  BY DEF LabIInv, PodsAndAlertsAreCurrent
<1> QED
  BY <1>1, <1>2, <1>3, LabStep, PTL DEF PartsSpec

-----------------------------------------------------------------------------
(* The badges that wait for the clipboard.                                 *)

BadgesSpec == BadgesInit /\ [][BadgesNext]_badgeVars

(* Every timer of a waiting badge goes back to a granted write, no badge   *)
(* has more writes and timers than there were clicks, and a snippet that   *)
(* clears its timer has one at most.                                       *)
BadgesIInv ==
  /\ copied \subseteq Badges /\ copies \in 0..MaxCopies
  /\ armedFor \in [Badges -> Nat] /\ writing \in [Badges -> Nat]
  /\ granted \in [Badges -> Nat]
  /\ \A b \in Badges : writing[b] + granted[b] <= copies /\ armedFor[b] <= copies
  /\ \A b \in Clearing : armedFor[b] <= 1
  /\ HomeBadgesAreTrue

(* At the start no badge stands.                                           *)
LEMMA BadgesInitHolds == BadgesInit => BadgesIInv
BY BadgeAssumption DEF BadgesInit, BadgesIInv, HomeBadgesAreTrue, Badges

(* Every click, answer of the clipboard and timer keeps it.                *)
LEMMA BadgesStep == BadgesIInv /\ [BadgesNext]_badgeVars => BadgesIInv'
<1> SUFFICES ASSUME BadgesIInv, [BadgesNext]_badgeVars
             PROVE  BadgesIInv'
  OBVIOUS
<1> USE BadgeAssumption DEF BadgesIInv, HomeBadgesAreTrue, Badges
<1>1. ASSUME NEW b \in Badges, ClickCopy(b)
      PROVE  BadgesIInv'
  <2>1. copies' = copies + 1 /\ copies' \in 0..MaxCopies
    BY <1>1 DEF ClickCopy
  <2>2. CASE b \in Waiting
    BY <1>1, <2>1, <2>2 DEF ClickCopy
  <2>3. CASE b \notin Waiting
    BY <1>1, <2>1, <2>3 DEF ClickCopy, Show
  <2> QED
    BY <2>2, <2>3
<1>2. ASSUME NEW b \in Badges, ClipboardAccepts(b)
      PROVE  BadgesIInv'
  <2>1. CASE b \in Waiting
    BY <1>2, <2>1 DEF ClipboardAccepts, Show
  <2>2. CASE b \notin Waiting
    BY <1>2, <2>2 DEF ClipboardAccepts
  <2> QED
    BY <2>1, <2>2
<1>3. ASSUME NEW b \in Badges, ClipboardRefuses(b)
      PROVE  BadgesIInv'
  BY <1>3 DEF ClipboardRefuses
<1>4. ASSUME NEW b \in Badges, BadgeTimerFires(b)
      PROVE  BadgesIInv'
  BY <1>4 DEF BadgeTimerFires
<1>5. CASE UNCHANGED badgeVars
  BY <1>5 DEF badgeVars
<1> QED
  BY <1>1, <1>2, <1>3, <1>4, <1>5 DEF BadgesNext

(* The clicks bound what the badges count.                                 *)
LEMMA BadgesTyped == BadgesIInv => BadgesTypeOK
<1> SUFFICES ASSUME BadgesIInv
             PROVE  BadgesTypeOK
  OBVIOUS
<1>1. \A b \in Badges : armedFor[b] \in 0..MaxCopies /\ writing[b] \in 0..MaxCopies
                        /\ granted[b] \in 0..MaxCopies
  BY BadgeAssumption DEF BadgesIInv
<1> QED
  BY <1>1 DEF BadgesIInv, BadgesTypeOK

(* A snippet's badge comes down with its last timer.                       *)
LEMMA SnippetStep ==
  BadgesIInv /\ [BadgesNext]_badgeVars =>
    [\A b \in Clearing : b \in copied /\ b \notin copied' => armedFor'[b] = 0]_badgeVars
<1> SUFFICES ASSUME BadgesIInv, BadgesNext,
                    NEW b \in Clearing, b \in copied, b \notin copied'
             PROVE  armedFor'[b] = 0
  OBVIOUS
<1>1. b \in Badges /\ armedFor \in [Badges -> Nat] /\ armedFor[b] <= 1
  BY DEF BadgesIInv, Badges
<1>2. PICK c \in Badges : \/ ClickCopy(c) \/ ClipboardAccepts(c)
                          \/ ClipboardRefuses(c) \/ BadgeTimerFires(c)
  BY DEF BadgesNext
<1>3. BadgeTimerFires(c) /\ c = b
  BY <1>2 DEF ClickCopy, ClipboardAccepts, ClipboardRefuses, BadgeTimerFires, Show
<1> QED
  BY <1>1, <1>3 DEF BadgeTimerFires

(* A badge of the home page stands only for a text the clipboard accepted, *)
(* for any number of badges and clicks (page.tsx:195-213).                 *)
THEOREM BadgesHomeBadgesAreTrue == BadgesSpec => []HomeBadgesAreTrue
<1>1. BadgesIInv => HomeBadgesAreTrue
  BY DEF BadgesIInv
<1> QED
  BY <1>1, BadgesInitHolds, BadgesStep, PTL DEF BadgesSpec

-----------------------------------------------------------------------------
(* The hero's timeout.                                                     *)

HeroSpec == HeroInit /\ [][HeroNext]_heroVars

LEMMA HeroStep ==
  OneTimeoutWhilePlaying /\ [HeroNext]_heroVars => OneTimeoutWhilePlaying'
<1> SUFFICES ASSUME OneTimeoutWhilePlaying, [HeroNext]_heroVars
             PROVE  OneTimeoutWhilePlaying'
  OBVIOUS
<1> USE DEF OneTimeoutWhilePlaying
<1>1. CASE TimeoutFires
  BY <1>1 DEF TimeoutFires
<1>2. ASSUME NEW id \in ScenarioIds, SelectTab(id)
      PROVE  OneTimeoutWhilePlaying'
  BY <1>2 DEF SelectTab, AutoCycle
<1>3. CASE TogglePlay
  BY <1>3 DEF TogglePlay, AutoCycle
<1>4. CASE HandleCopyTelemetry
  BY <1>4 DEF HandleCopyTelemetry
<1>5. ASSUME NEW node \in HeroNodes, OnNodeClick(node)
      PROVE  OneTimeoutWhilePlaying'
  BY <1>5 DEF OnNodeClick
<1>6. CASE UNCHANGED heroVars
  BY <1>6 DEF heroVars
<1> QED
  BY <1>1, <1>2, <1>3, <1>4, <1>5, <1>6 DEF HeroNext

(* However tabs, play and the timeout interleave, the sequence never runs  *)
(* double, and a picked scenario stays, for any number of clicks           *)
(* (HeroPipelineFlow.tsx:104-112).                                         *)
THEOREM HeroOneTimeoutWhilePlaying == HeroSpec => []OneTimeoutWhilePlaying
<1>1. HeroInit => OneTimeoutWhilePlaying
  BY DEF HeroInit, OneTimeoutWhilePlaying
<1> QED
  BY <1>1, HeroStep, PTL DEF HeroSpec

(* The badge of a scenario is one of the four.                             *)
LEMMA TelemetryBadges ==
  ASSUME NEW k \in 1..4
  PROVE  Telemetry[k].badge \in {t.badge : t \in {Telemetry[j] : j \in 1..4}}
OBVIOUS

(* The first scenario plays.                                               *)
LEMMA HeroTypeInit == HeroInit => HeroTypeOK
BY HeroAssumption DEF HeroInit, HeroTypeOK, ScenarioIds

(* No click and no timeout leaves the four scenarios.                      *)
LEMMA HeroTypeStep == HeroTypeOK /\ [HeroNext]_heroVars => HeroTypeOK'
<1> SUFFICES ASSUME HeroTypeOK, [HeroNext]_heroVars
             PROVE  HeroTypeOK'
  OBVIOUS
<1> DEFINE BadgesDrawn == {t.badge : t \in {Telemetry[k] : k \in 1..4}}
<1>0. /\ scenarioIndex \in ScenarioIds /\ isPlaying \in {"yes", "no"}
      /\ heroTimeouts \in Nat /\ selectedNodeId \in HeroNodes \cup {"none"}
      /\ heroSnapshot \in BadgesDrawn \cup {"none"} /\ heroClicks \in 0..MaxHeroClicks
  BY DEF HeroTypeOK
<1>1. Current.badge \in BadgesDrawn
  BY <1>0, TelemetryBadges DEF Current, ScenarioIds
<1> HIDE DEF BadgesDrawn
<1>2. HeroTypeOK' <=>
        /\ scenarioIndex' \in ScenarioIds /\ isPlaying' \in {"yes", "no"}
        /\ heroTimeouts' \in Nat /\ selectedNodeId' \in HeroNodes \cup {"none"}
        /\ heroSnapshot' \in BadgesDrawn \cup {"none"} /\ heroClicks' \in 0..MaxHeroClicks
  BY DEF HeroTypeOK, BadgesDrawn
<1>3. CASE TimeoutFires
  BY <1>0, <1>2, <1>3 DEF TimeoutFires, ScenarioIds
<1>4. ASSUME HeroClick PROVE heroClicks' \in 0..MaxHeroClicks
  BY <1>0, <1>4, HeroAssumption DEF HeroClick
<1>5. CASE TogglePlay
  BY <1>0, <1>2, <1>4, <1>5 DEF TogglePlay, AutoCycle
<1>6. CASE HandleCopyTelemetry
  BY <1>0, <1>1, <1>2, <1>4, <1>6 DEF HandleCopyTelemetry
<1>7. ASSUME NEW id \in ScenarioIds, SelectTab(id) PROVE HeroTypeOK'
  BY <1>0, <1>2, <1>4, <1>7 DEF SelectTab, AutoCycle
<1>8. ASSUME NEW node \in HeroNodes, OnNodeClick(node) PROVE HeroTypeOK'
  BY <1>0, <1>2, <1>4, <1>8 DEF OnNodeClick
<1>9. CASE UNCHANGED heroVars
  BY <1>0, <1>2, <1>9 DEF heroVars
<1> QED
  BY <1>3, <1>5, <1>6, <1>7, <1>8, <1>9 DEF HeroNext

(* In each of the four scenarios the nodes, the beams and the figures      *)
(* agree.                                                                  *)
LEMMA HeroStory == HeroTypeOK => PipelineTellsOneStory
<1> SUFFICES ASSUME scenarioIndex \in 0..3 PROVE PipelineTellsOneStory
  BY DEF HeroTypeOK, ScenarioIds
<1> DEFINE Stands(n) == Look(DrawnNodes[n]) # "plain"
<1> USE DEF HeroNodes
<1>0. /\ Look(DrawnNodes["pods"]) = "plain"
      /\ Look(DrawnNodes["socket"]) = "plain"
      /\ Look(DrawnNodes["engine"]) = IF scenarioIndex = 2 THEN "rose"
            ELSE IF scenarioIndex = 1 THEN "amber" ELSE "plain"
      /\ Look(DrawnNodes["metrics"]) = IF scenarioIndex = 1 THEN "amber" ELSE "plain"
      /\ Look(DrawnNodes["threat"]) = IF scenarioIndex = 2 THEN "rose" ELSE "plain"
  BY DEF DrawnNodes, Look, Alert, Pulse, PlainNode, Spiking, Attacked
<1>1. CASE scenarioIndex = 0
  <2>1. Current.badge = "stable" /\ Current.attackers = 0 /\ DrawnBeams = SteadyBeams
    BY <1>1 DEF Current, Telemetry, DrawnBeams
  <2> QED
    BY <1>1, <1>0, <2>1 DEF PipelineTellsOneStory, SteadyBeams, Chain, Beam
<1>2. CASE scenarioIndex = 1
  <2>1. Current.badge = "spike" /\ Current.attackers = 0 /\ DrawnBeams = SpikeBeams
        /\ Current.accent = "amber"
    BY <1>2 DEF Current, Telemetry, DrawnBeams
  <2> QED
    BY <1>2, <1>0, <2>1 DEF PipelineTellsOneStory, SteadyBeams, SpikeBeams, Chain, Beam
<1>3. CASE scenarioIndex = 2
  <2>1. Current.badge = "mitigated" /\ Current.attackers = 1 /\ DrawnBeams = AttackBeams
        /\ Current.accent = "rose"
    BY <1>3 DEF Current, Telemetry, DrawnBeams
  <2> QED
    BY <1>3, <1>0, <2>1 DEF PipelineTellsOneStory, SteadyBeams, AttackBeams, Chain, Beam
<1>4. CASE scenarioIndex = 3
  <2>1. Current.badge = "mutated" /\ Current.attackers = 0 /\ DrawnBeams = MutatedBeams
    BY <1>4 DEF Current, Telemetry, DrawnBeams
  <2> QED
    BY <1>4, <1>0, <2>1 DEF PipelineTellsOneStory, SteadyBeams, MutatedBeams, Chain, Beam
<1> QED
  BY <1>1, <1>2, <1>3, <1>4

-----------------------------------------------------------------------------
(* The architecture animation.                                             *)

(* No timer is lost but by a resume, so until the first one the only timer *)
(* is that of the stage shown.                                             *)
DiagramIInv ==
  /\ DiagramTypeOK /\ resumes <= presses
  /\ ChainsBounded
  /\ resumes = 0 => refTimer \in {stage, Idle}

(* The first stage is shown and has its timer.                             *)
LEMMA DiagramInitHolds == DiagramInit => DiagramIInv
BY DiagramAssumption
DEF DiagramInit, DiagramIInv, DiagramTypeOK, ChainsBounded, Stages, Idle

(* Behind the last stage comes the first.                                  *)
LEMMA FollowingIsStage ==
  ASSUME NEW s \in Stages
  PROVE  Following(s) \in Stages
BY DEF Following, Stages

(* A lost timer is a timer of its stage.                                   *)
LEMMA LostIsNat ==
  ASSUME NEW timers \in [Stages -> Nat], NEW s \in Stages
  PROVE  Lost(timers, s) \in [Stages -> Nat]
BY DEF Lost

(* A lost timer of stage s that has fired.                                 *)
Spent(timers, s) == [timers EXCEPT ![s] = @ - 1]

(* It fired because there was one.                                         *)
LEMMA SpentIsNat ==
  ASSUME NEW timers \in [Stages -> Nat], NEW s \in Stages, timers[s] > 0
  PROVE  Spent(timers, s) \in [Stages -> Nat]
BY DEF Spent

(* The sum that ChainsBounded bounds.                                      *)
Chains(timers) ==
  timers[0] + timers[1] + timers[2] + timers[3] + timers[4] + timers[5] + timers[6]

(* Losing a timer is one more chain, a fired one is one less.              *)
LEMMA ChainsChange ==
  ASSUME NEW timers \in [Stages -> Nat], NEW s \in Stages
  PROVE  /\ Chains(timers) \in Nat
         /\ Chains(Lost(timers, s)) = Chains(timers) + 1
         /\ Chains(Spent(timers, s)) = Chains(timers) - 1
<1>1. /\ timers[0] \in Nat /\ timers[1] \in Nat /\ timers[2] \in Nat
      /\ timers[3] \in Nat /\ timers[4] \in Nat /\ timers[5] \in Nat
      /\ timers[6] \in Nat
  BY DEF Stages
<1>2. s \in 0..6
  BY DEF Stages
<1> QED
  BY <1>1, <1>2 DEF Chains, Lost, Spent, Stages

(* A lost timer that fires is replaced by the one that the reference       *)
(* forgets, if it forgets one: only a resume adds to them.                 *)
LEMMA DiagramStep == DiagramIInv /\ [DiagramNext]_diagramVars => DiagramIInv'
<1> SUFFICES ASSUME DiagramIInv, [DiagramNext]_diagramVars
             PROVE  DiagramIInv'
  OBVIOUS
<1>0. /\ stage \in Stages /\ paused \in {"yes", "no"} /\ details \in {"yes", "no"}
      /\ refTimer \in Stages \cup {Idle}
      /\ lostTimers \in [Stages -> Nat]
      /\ presses \in 0..MaxPresses /\ resumes \in 0..MaxPresses
      /\ resumes <= presses /\ Chains(lostTimers) <= resumes
      /\ resumes = 0 => refTimer \in {stage, Idle}
  BY DEF DiagramIInv, DiagramTypeOK, ChainsBounded, Chains
<1> DEFINE P ==
      /\ stage' \in Stages /\ paused' \in {"yes", "no"} /\ details' \in {"yes", "no"}
      /\ refTimer' \in Stages \cup {Idle}
      /\ lostTimers' \in [Stages -> Nat]
      /\ presses' \in 0..MaxPresses /\ resumes' \in 0..MaxPresses
      /\ resumes' <= presses' /\ Chains(lostTimers') <= resumes'
      /\ resumes' = 0 => refTimer' \in {stage', Idle}
<1>p. P => DiagramIInv'
  BY DEF DiagramIInv, DiagramTypeOK, ChainsBounded, Chains
<1>c. Chains(lostTimers) \in Nat
  BY <1>0, ChainsChange DEF Stages
<1>n. Press => presses' \in 0..MaxPresses /\ presses' = presses + 1
  BY <1>0, DiagramAssumption DEF Press
<1>1. CASE RefTimerFires
  BY <1>0, <1>1, <1>p, FollowingIsStage DEF RefTimerFires
<1>2. ASSUME NEW s \in Stages, LostTimerFires(s)
      PROVE  DiagramIInv'
  <2> DEFINE others == Spent(lostTimers, s)
  <2>1. /\ others \in [Stages -> Nat] /\ Chains(others) = Chains(lostTimers) - 1
        /\ Chains(others) \in Nat
    BY <1>0, <1>2, SpentIsNat, ChainsChange DEF LostTimerFires
  <2>2. resumes > 0
    BY <1>0, <1>c, <2>1
  <2>3. /\ UNCHANGED <<paused, details, presses, resumes>>
        /\ \/ UNCHANGED <<stage, refTimer>> /\ lostTimers' = others
           \/ /\ stage' = Following(s) /\ refTimer' = Following(s)
              /\ lostTimers' = IF refTimer = Idle THEN others ELSE Lost(others, refTimer)
    BY <1>2 DEF LostTimerFires, Spent
  <2> HIDE DEF others
  <2>4. Following(s) \in Stages
    BY FollowingIsStage
  <2>5. CASE lostTimers' = others
    BY <1>0, <1>c, <1>p, <2>1, <2>2, <2>3, <2>4, <2>5
  <2>6. CASE refTimer \in Stages /\ lostTimers' = Lost(others, refTimer)
    <3>1. lostTimers' \in [Stages -> Nat] /\ Chains(lostTimers') = Chains(lostTimers)
      BY <1>c, <2>1, <2>6, LostIsNat, ChainsChange
    <3> QED
      BY <1>0, <1>c, <1>p, <2>2, <2>3, <2>4, <3>1
  <2> QED
    BY <1>0, <2>3, <2>5, <2>6
<1>3. ASSUME NEW s \in Stages, SelectStage(s)
      PROVE  DiagramIInv'
  BY <1>0, <1>3, <1>p, <1>n DEF SelectStage
<1>4. CASE TriggerLatencySpike
  BY <1>3, <1>4 DEF TriggerLatencySpike, Stages
<1>5. CASE Pause
  BY <1>0, <1>5, <1>p, <1>n DEF Pause
<1>6. CASE Resume
  <2>1. /\ lostTimers' \in [Stages -> Nat]
        /\ Chains(lostTimers') = Chains(lostTimers) + 1
    BY <1>0, <1>6, LostIsNat, ChainsChange DEF Resume
  <2>2. /\ refTimer' = 0 /\ 0 \in Stages /\ resumes' = resumes + 1
        /\ paused' = "no" /\ UNCHANGED <<stage, details>> /\ Press
    BY <1>6 DEF Resume, Stages
  <2>3. /\ presses' \in 0..MaxPresses /\ resumes' \in 0..MaxPresses
        /\ resumes' <= presses' /\ resumes' # 0
    <3>1. presses' = presses + 1 /\ presses' \in 0..MaxPresses
      BY <1>n, <2>2
    <3>2. presses \in Nat /\ resumes \in Nat /\ MaxPresses \in Nat
      BY <1>0, DiagramAssumption
    <3> QED
      BY <1>0, <2>2, <3>1, <3>2
  <2>4. Chains(lostTimers') <= resumes'
    BY <1>0, <1>c, <2>1, <2>2
  <2> QED
    BY <1>0, <1>p, <2>1, <2>2, <2>3, <2>4
<1>7. CASE ToggleDetails
  BY <1>0, <1>7, <1>p, <1>n DEF ToggleDetails, timerVars
<1>8. CASE UNCHANGED diagramVars
  BY <1>0, <1>8, <1>p DEF diagramVars, timerVars
<1> QED
  BY <1>1, <1>2, <1>3, <1>4, <1>5, <1>6, <1>7, <1>8 DEF DiagramNext, Timeouts, StageButtons

(* Before the first resume it is the one timer that moves the stage; while *)
(* paused none does.                                                       *)
LEMMA DiagramSteps ==
  DiagramIInv /\ [DiagramNext]_diagramVars =>
    /\ [resumes = 0 /\ presses' = presses /\ stage' # stage
          => stage' = Following(stage)]_diagramVars
    /\ [paused = "yes" /\ presses' = presses => stage' = stage]_diagramVars
<1> SUFFICES ASSUME DiagramIInv, DiagramNext, presses' = presses
             PROVE  /\ resumes = 0 /\ stage' # stage => stage' = Following(stage)
                    /\ paused = "yes" => stage' = stage
  OBVIOUS
<1>0. presses \in Nat /\ lostTimers \in [Stages -> Nat] /\ Chains(lostTimers) <= resumes
      /\ (resumes = 0 => refTimer \in {stage, Idle})
  BY DEF DiagramIInv, DiagramTypeOK, ChainsBounded, Chains
<1>1. ~Press
  BY <1>0 DEF Press
<1>2. CASE RefTimerFires
  BY <1>0, <1>2 DEF RefTimerFires
<1>3. ASSUME NEW s \in Stages, LostTimerFires(s)
      PROVE  resumes # 0 /\ (paused = "yes" => stage' = stage)
  <2>1. Chains(Spent(lostTimers, s)) \in Nat
        /\ Chains(Spent(lostTimers, s)) = Chains(lostTimers) - 1
        /\ Chains(lostTimers) \in Nat
    BY <1>0, <1>3, SpentIsNat, ChainsChange DEF LostTimerFires
  <2> QED
    BY <1>0, <1>3, <2>1 DEF LostTimerFires
<1> QED
  BY <1>1, <1>2, <1>3 DEF DiagramNext, Timeouts, StageButtons, TriggerLatencySpike,
     SelectStage, Pause, Resume, ToggleDetails

(* The two places that choose the colour of a stage agree.                 *)
LEMMA ColoursAgree ==
  ASSUME NEW s \in Stages
  PROVE  StatePing(s) = StageColor(s)
BY DEF Stages, StatePing, StageColor

(* Every count of replicas in the drawing is the header's.                 *)
LEMMA FiguresAgree ==
  ASSUME NEW s \in Stages, NEW n \in Drawing(s),
         n.detail # 0, n.name \in {"frontend", "api", "feedback"}
  PROVE  n.detail = TopReplicas(s)
<1>1. CASE n \in Workloads(s)
  BY <1>1 DEF Workloads, Node
<1>2. CASE n \in ControlPlane(s)
  BY <1>2 DEF ControlPlane, Node, Allocation, TopReplicas, Scaled
<1>3. CASE n \in LogSources(s) \cup Detectors \cup Metrics(s)
  BY <1>3 DEF LogSources, Detectors, Metrics, Node
<1> QED
  BY <1>1, <1>2, <1>3 DEF Drawing

(* A flow of any colour runs along drawn edges.                            *)
LEMMA EdgesAreDrawn ==
  ASSUME NEW s \in Stages, NEW colour \in {"amber", "rose", "emerald"}
  PROVE  Flow(s, colour) \subseteq Edges
<1>1. CASE colour = "amber"
  BY <1>1 DEF Flow, Edges, WorkloadEdges, AnalysisEdges, MetricEdges, ControlEdges
<1>2. CASE colour = "rose"
  BY <1>2 DEF Flow, Edges, WorkloadEdges, AnalysisEdges, MetricEdges, ControlEdges
<1>3. CASE colour = "emerald"
  BY <1>3 DEF Flow, Edges
<1> QED
  BY <1>1, <1>2, <1>3

(* A node pulses at an end of a flow of its colour.                        *)
LEMMA PulsesLieOnFlows ==
  ASSUME NEW s \in Stages \ {6}, NEW colour \in {"amber", "rose", "emerald"},
         NEW n \in Pulsing(s, colour)
  PROVE  \E e \in Flow(s, colour) : n \in {e[1], e[2]}
<1>1. CASE colour = "amber"
  <2>1. Strained(s) /\ n \in {"latency-det", "latency-metric"}
    BY <1>1 DEF Pulsing
  <2>2. <<"latency-det", "latency-metric">> \in Flow(s, colour)
    BY <1>1, <2>1 DEF Flow
  <2> QED
    BY <2>1, <2>2
<1>2. CASE colour = "rose"
  <2>1. Degraded(s) /\ n \in {"error-det", "error-metric"}
    BY <1>2 DEF Pulsing
  <2>2. <<"error-det", "error-metric">> \in Flow(s, colour)
    BY <1>2, <2>1 DEF Flow
  <2> QED
    BY <2>1, <2>2
<1>3. CASE colour = "emerald"
  <2>1. \/ s \in {3, 4} /\ n \in {"dec-engine", "autoscaler"}
        \/ s = 4 /\ n = "kube-api"
        \/ s = 5 /\ n = "feedback"
    BY <1>3 DEF Pulsing
  <2>2. \/ s \in {3, 4} /\ <<"dec-engine", "autoscaler">> \in Flow(s, colour)
        \/ s = 5 /\ <<"kube-api", "feedback">> \in Flow(s, colour)
    BY <1>3, <2>1 DEF Flow, ControlEdges
  <2>3. s = 4 => <<"autoscaler", "kube-api">> \in Flow(s, colour)
    BY <1>3 DEF Flow, ControlEdges
  <2> QED
    BY <2>1, <2>2, <2>3
<1> QED
  BY <1>1, <1>2, <1>3

(* What is drawn of a stage belongs to that stage.                         *)
LEMMA DrawingTellsOneStory == stage \in Stages => TellsOneStory
<1> SUFFICES ASSUME stage \in Stages
             PROVE  TellsOneStory
  OBVIOUS
<1>1. TopReplicas(stage) > 3 => KubeRequest(stage) = TopReplicas(stage)
  BY DEF TopReplicas, KubeRequest, Scaled, Stages
<1>2. (Health(stage) = "rose") = (ErrorMetric(stage) = "critical")
  BY DEF Health, ErrorMetric
<1>3. (Health(stage) = "rose") = (WidgetThreat(stage) = 1)
  BY DEF Health, WidgetThreat
<1>4. (Health(stage) = "rose") = (Flow(stage, "rose") # {})
  <2>1. Health(stage) = "rose" <=> Degraded(stage)
    BY DEF Health
  <2>2. Degraded(stage) => <<"api", "container-logs">> \in Flow(stage, "rose")
    BY DEF Flow
  <2>3. ~Degraded(stage) => Flow(stage, "rose") = {}
    BY DEF Flow
  <2> QED
    BY <2>1, <2>2, <2>3
<1>5. SignalDots \subseteq Edges
  BY DEF SignalDots, Edges, WorkloadEdges, AnalysisEdges, MetricEdges, ControlEdges
<1>6. StatePing(stage) = StageColor(stage)
  BY ColoursAgree
<1>7. \A n \in Drawing(stage) :
        n.detail # 0 /\ n.name \in {"frontend", "api", "feedback"}
          => n.detail = TopReplicas(stage)
  BY FiguresAgree
<1>8. \A color \in {"amber", "rose", "emerald"} : Flow(stage, color) \subseteq Edges
  BY EdgesAreDrawn
<1>9. \A color \in {"amber", "rose", "emerald"} :
        stage # 6 => \A n \in Pulsing(stage, color) :
                       \E e \in Flow(stage, color) : n \in {e[1], e[2]}
  BY PulsesLieOnFlows
<1> QED
  BY <1>1, <1>2, <1>3, <1>4, <1>5, <1>6, <1>7, <1>8, <1>9 DEF TellsOneStory

-----------------------------------------------------------------------------
(* The log console.                                                        *)

(* A line of the console.                                                  *)
Entry == [serial : 1..MaxEntries, level : Levels]

(* How many lines of the long list come before the short one.              *)
Skipped(long, short) == Len(long) - Len(short)

(* The short list is the end of the long one, as much as MaxLogs allows.   *)
IsTail(short, long) ==
  /\ Len(short) = IF Len(long) > MaxLogs THEN MaxLogs ELSE Len(long)
  /\ \A i \in 1..Len(short) : short[i] = long[Skipped(long, short) + i]

(* Oldest first.                                                           *)
InSerialOrder(s) == \A i, j \in 1..Len(s) : i < j => s[i].serial < s[j].serial

(* The console is the end of what was accepted, which is in the order in   *)
(* which it was offered.                                                   *)
ConsoleIInv ==
  /\ terminalLogs \in Seq(Entry) /\ logFile \in Seq(Entry) /\ accepted \in Seq(Entry)
  /\ logPaused \in {"yes", "no"} /\ viewAt \in {"end", "above"}
  /\ logFilter \in Levels \cup {"ALL"} /\ offered \in 0..MaxEntries
  /\ \A i \in 1..Len(accepted) : accepted[i].serial <= offered
  /\ InSerialOrder(accepted)
  /\ IsTail(terminalLogs, accepted)

(* An empty console is the end of nothing.                                 *)
LEMMA ConsoleInitHolds == ConsoleInit => ConsoleIInv
BY ConsoleAssumption
DEF ConsoleInit, ConsoleIInv, InSerialOrder, IsTail, Skipped

(* Newest cuts the end of the list.                                        *)
LEMMA NewestIsTail ==
  ASSUME NEW S, NEW s \in Seq(S)
  PROVE  Newest(s) \in Seq(S) /\ IsTail(Newest(s), s)
<1>0. MaxLogs \in Nat \ {0} /\ Len(s) \in Nat
  BY ConsoleAssumption
<1>1. CASE Len(s) <= MaxLogs
  BY <1>0, <1>1 DEF Newest, IsTail, Skipped
<1>2. CASE Len(s) > MaxLogs
  <2>1. PICK m \in Nat : m = Len(s) - MaxLogs + 1
    BY <1>0, <1>2
  <2>2. Newest(s) = SubSeq(s, m, Len(s))
    BY <1>0, <1>2, <2>1 DEF Newest
  <2>3. m \in Int /\ Len(s) \in Int /\ m <= Len(s) /\ Len(s) - m + 1 = MaxLogs
    BY <1>0, <1>2, <2>1
  <2>4. \A i \in m..Len(s) : s[i] \in S
    BY <1>0, <1>2, <2>1
  <2>5. /\ SubSeq(s, m, Len(s)) \in Seq(S)
        /\ Len(SubSeq(s, m, Len(s))) = IF m <= Len(s) THEN Len(s) - m + 1 ELSE 0
        /\ \A i \in 1 .. Len(s) - m + 1 : SubSeq(s, m, Len(s))[i] = s[m + i - 1]
    BY <2>3, <2>4, SubSeqProperties
  <2>6. /\ Newest(s) \in Seq(S) /\ Len(Newest(s)) = MaxLogs
        /\ \A i \in 1..MaxLogs : Newest(s)[i] = s[m + i - 1]
    BY <2>2, <2>3, <2>5
  <2>7. \A i \in 1..MaxLogs : m + i - 1 = Skipped(s, Newest(s)) + i
    BY <1>0, <2>1, <2>6 DEF Skipped
  <2> QED
    BY <1>0, <1>2, <2>6, <2>7 DEF IsTail
<1> QED
  BY <1>0, <1>1, <1>2

(* The i-th of the last n of m.                                            *)
LEMMA IndexFromEnd ==
  ASSUME NEW m \in Nat, NEW n \in Nat, n <= m, NEW i \in 1..n
  PROVE  m - n + i \in 1..m
OBVIOUS

(* What one number exceeds another by.                                     *)
LEMMA DifferenceIsNat ==
  ASSUME NEW m \in Nat, NEW n \in Nat, m <= n
  PROVE  \E d \in Nat : n = m + d
<1>1. n - m \in Nat /\ n = m + (n - m)
  OBVIOUS
<1> QED
  BY <1>1

(* s is t with e behind it.                                                *)
IsExtended(s, t, e) ==
  /\ Len(s) = Len(t) + 1
  /\ \A i \in 1..Len(s) : s[i] = IF i <= Len(t) THEN t[i] ELSE e

(* Append puts e behind t.                                                 *)
LEMMA AppendExtends ==
  ASSUME NEW S, NEW t \in Seq(S), NEW e \in S
  PROVE  Append(t, e) \in Seq(S) /\ IsExtended(Append(t, e), t, e)
BY DEF IsExtended

(* The end of an end is an end, one line later.                            *)
LEMMA TailOfExtended ==
  ASSUME NEW S, NEW long \in Seq(S), NEW short \in Seq(S), NEW e \in S,
         NEW s \in Seq(S), NEW l \in Seq(S), NEW n \in Seq(S),
         IsTail(short, long), IsExtended(s, short, e), IsExtended(l, long, e),
         IsTail(n, s)
  PROVE  IsTail(n, l)
<1>1. /\ MaxLogs \in Nat \ {0} /\ Len(short) \in Nat /\ Len(long) \in Nat
      /\ Len(s) \in Nat /\ Len(l) \in Nat /\ Len(n) \in Nat
  BY ConsoleAssumption
<1>2. /\ Len(short) = IF Len(long) > MaxLogs THEN MaxLogs ELSE Len(long)
      /\ Len(n) = IF Len(s) > MaxLogs THEN MaxLogs ELSE Len(s)
      /\ Len(s) = Len(short) + 1 /\ Len(l) = Len(long) + 1
  BY DEF IsTail, IsExtended
<1>3. Len(n) = IF Len(l) > MaxLogs THEN MaxLogs ELSE Len(l)
  BY <1>1, <1>2
<1>5. Len(n) <= Len(s) /\ Len(short) <= Len(long)
  BY <1>1, <1>2
<1>6. Len(s) = Len(short) + 1 /\ Len(l) = Len(long) + 1
  BY <1>2
<1>4. ASSUME NEW i \in 1..Len(n)
      PROVE  n[i] = l[Skipped(l, n) + i]
  <2>1. PICK k \in 1..Len(s) : k = Len(s) - Len(n) + i
    <3>1. Len(s) \in Nat /\ Len(n) \in Nat /\ Len(n) <= Len(s)
      BY <1>1, <1>5
    <3>2. Len(s) - Len(n) + i \in 1..Len(s)
      BY <3>1, IndexFromEnd
    <3> QED
      BY <3>2
  <2>2. PICK d \in Nat : Len(long) = Len(short) + d
    <3>1. Len(short) \in Nat /\ Len(long) \in Nat /\ Len(short) <= Len(long)
      BY <1>1, <1>5
    <3> QED
      BY <3>1, DifferenceIsNat
  <2>3. Skipped(l, n) + i = k + d /\ k + d \in 1..Len(l)
    BY <1>1, <1>6, <2>1, <2>2 DEF Skipped
  <2>4. n[i] = s[k]
    BY <2>1 DEF IsTail, Skipped
  <2>5. CASE k <= Len(short)
    <3>1. k \in 1..Len(short) /\ Skipped(long, short) + k = k + d /\ k + d <= Len(long)
      BY <1>1, <2>1, <2>2, <2>5 DEF Skipped
    <3>2. short[k] = long[k + d] /\ s[k] = short[k]
      BY <3>1 DEF IsTail, IsExtended
    <3>3. l[k + d] = long[k + d]
      BY <2>3, <3>1 DEF IsExtended
    <3> QED
      BY <2>3, <2>4, <3>2, <3>3
  <2>6. CASE ~(k <= Len(short))
    <3>1. s[k] = e
      BY <2>6 DEF IsExtended
    <3>2. ~(k + d <= Len(long))
      BY <1>1, <2>1, <2>2, <2>6
    <3>3. l[k + d] = e
      BY <2>3, <3>2 DEF IsExtended
    <3> QED
      BY <2>3, <2>4, <3>1, <3>3
  <2> QED
    BY <2>5, <2>6
<1> QED
  BY <1>3, <1>4 DEF IsTail

(* A line that goes to the end of both keeps the one the end of the other. *)
LEMMA AppendedTail ==
  ASSUME NEW S, NEW long \in Seq(S), NEW short \in Seq(S), NEW e \in S,
         IsTail(short, long)
  PROVE  /\ Newest(Append(short, e)) \in Seq(S)
         /\ IsTail(Newest(Append(short, e)), Append(long, e))
<1>1. Append(short, e) \in Seq(S) /\ IsExtended(Append(short, e), short, e)
  BY AppendExtends
<1>2. Append(long, e) \in Seq(S) /\ IsExtended(Append(long, e), long, e)
  BY AppendExtends
<1>3. /\ Newest(Append(short, e)) \in Seq(S)
      /\ IsTail(Newest(Append(short, e)), Append(short, e))
  BY <1>1, NewestIsTail
<1> QED
  BY <1>1, <1>2, <1>3, TailOfExtended

(* While the console is paused nothing is accepted; otherwise the line is  *)
(* the newest, with the highest number.                                    *)
LEMMA AddHolds ==
  ASSUME ConsoleIInv, NEW level \in Levels, AddTerminalLog(level)
  PROVE  ConsoleIInv'
<1>1. PICK entry : entry = [serial |-> offered + 1, level |-> level]
  OBVIOUS
<1>2. /\ offered' = offered + 1 /\ offered' \in 0..MaxEntries /\ offered \in Nat
      /\ UNCHANGED <<logPaused, logFilter, logFile>>
  BY ConsoleAssumption DEF ConsoleIInv, AddTerminalLog
<1>3. CASE logPaused = "yes"
  <2>1. UNCHANGED <<terminalLogs, viewAt, accepted>>
    BY <1>3 DEF AddTerminalLog
  <2>2. \A i \in 1..Len(accepted) : accepted[i].serial <= offered'
    <3> SUFFICES ASSUME NEW i \in 1..Len(accepted)
                 PROVE  accepted[i].serial <= offered'
      OBVIOUS
    <3>1. accepted[i] \in Entry /\ accepted[i].serial <= offered
      BY DEF ConsoleIInv
    <3>2. accepted[i].serial \in Nat
      BY <3>1 DEF Entry
    <3> QED
      BY <1>2, <3>1, <3>2
  <2> QED
    BY <1>2, <2>1, <2>2 DEF ConsoleIInv, InSerialOrder, IsTail, Skipped
<1>4. CASE logPaused # "yes"
  <2>1. /\ terminalLogs' = Newest(Append(terminalLogs, entry))
        /\ accepted' = Append(accepted, entry) /\ viewAt' = "end"
    BY <1>1, <1>4 DEF AddTerminalLog
  <2>2. entry \in Entry /\ entry.serial = offered + 1
    BY <1>1, <1>2 DEF Entry
  <2>3. terminalLogs \in Seq(Entry) /\ accepted \in Seq(Entry)
        /\ IsTail(terminalLogs, accepted)
    BY DEF ConsoleIInv
  <2>4. terminalLogs' \in Seq(Entry) /\ IsTail(terminalLogs', accepted')
    BY <2>1, <2>2, <2>3, AppendedTail
  <2>5. accepted' \in Seq(Entry) /\ IsExtended(accepted', accepted, entry)
    BY <2>1, <2>2, <2>3, AppendExtends
  <2>6. \A i \in 1..Len(accepted) :
          accepted[i].serial \in Nat /\ accepted[i].serial <= offered
    <3> SUFFICES ASSUME NEW i \in 1..Len(accepted)
                 PROVE  accepted[i].serial \in Nat /\ accepted[i].serial <= offered
      OBVIOUS
    <3>1. accepted[i] \in Entry
      BY <2>3, ElementOfSeq
    <3> QED
      BY <3>1 DEF ConsoleIInv, Entry
  <2>7. Len(accepted) \in Nat /\ Len(accepted') = Len(accepted) + 1
    BY <2>3, <2>5 DEF IsExtended
  <2>8. /\ \A i \in 1..Len(accepted) : accepted'[i] = accepted[i]
        /\ accepted'[Len(accepted) + 1] = entry
    BY <2>5, <2>7 DEF IsExtended
  <2>9. \A i \in 1..Len(accepted') : accepted'[i].serial <= offered'
    BY <1>2, <2>2, <2>6, <2>7, <2>8
  <2>10. InSerialOrder(accepted')
    <3> SUFFICES ASSUME NEW i \in 1..Len(accepted'), NEW j \in 1..Len(accepted'), i < j
                 PROVE  accepted'[i].serial < accepted'[j].serial
      BY DEF InSerialOrder
    <3>1. CASE j = Len(accepted) + 1
      BY <1>2, <2>2, <2>6, <2>7, <2>8, <3>1
    <3>2. CASE j \in 1..Len(accepted)
      <4>1. i \in 1..Len(accepted)
        BY <2>7, <3>2
      <4>2. accepted[i].serial < accepted[j].serial
        BY <3>2, <4>1 DEF ConsoleIInv, InSerialOrder
      <4> QED
        BY <2>8, <3>2, <4>1, <4>2
    <3> QED
      BY <2>7, <3>1, <3>2
  <2> QED
    BY <1>2, <2>1, <2>4, <2>5, <2>9, <2>10 DEF ConsoleIInv
<1> QED
  BY <1>3, <1>4

(* Clearing empties both, and nothing else touches them.                   *)
LEMMA ConsoleStep == ConsoleIInv /\ [ConsoleNext]_consoleVars => ConsoleIInv'
<1> SUFFICES ASSUME ConsoleIInv, [ConsoleNext]_consoleVars
             PROVE  ConsoleIInv'
  OBVIOUS
<1>0. ASSUME UNCHANGED <<terminalLogs, offered, accepted>>,
             logPaused' \in {"yes", "no"}, viewAt' \in {"end", "above"},
             logFilter' \in Levels \cup {"ALL"}, logFile' \in Seq(Entry)
      PROVE  ConsoleIInv'
  BY <1>0 DEF ConsoleIInv, InSerialOrder, IsTail, Skipped
<1>1. ASSUME NEW level \in Levels, AddTerminalLog(level)
      PROVE  ConsoleIInv'
  BY <1>1, AddHolds
<1>2. CASE TogglePause
  BY <1>0, <1>2 DEF TogglePause, Follow, ConsoleIInv
<1>3. CASE HandleClearLogs
  <2>1. IsTail(<<>>, <<>>) /\ InSerialOrder(<<>>)
    BY ConsoleAssumption DEF IsTail, InSerialOrder, Skipped
  <2> QED
    BY <1>3, <2>1 DEF HandleClearLogs, Follow, ConsoleIInv
<1>4. CASE HandleExportLogs
  BY <1>0, <1>4 DEF HandleExportLogs, ConsoleIInv
<1>5. CASE ScrollUp
  BY <1>0, <1>5 DEF ScrollUp, ConsoleIInv
<1>6. ASSUME NEW filter \in Levels \cup {"ALL"}, SetLogFilter(filter)
      PROVE  ConsoleIInv'
  BY <1>0, <1>6 DEF SetLogFilter, ConsoleIInv
<1>7. CASE UNCHANGED consoleVars
  BY <1>0, <1>7 DEF consoleVars, ConsoleIInv
<1> QED
  BY <1>1, <1>2, <1>3, <1>4, <1>5, <1>6, <1>7 DEF ConsoleNext

(* The console keeps its types.                                            *)
LEMMA ConsoleTyped == ConsoleIInv => ConsoleTypeOK
BY DEF ConsoleIInv, ConsoleTypeOK, Entries, Entry

(* The end of what was accepted is the sub-sequence the property names.    *)
LEMMA ConsoleKeepsNewest == ConsoleIInv => KeepsNewest
<1> SUFFICES ASSUME ConsoleIInv
             PROVE  KeepsNewest
  OBVIOUS
<1>1. /\ terminalLogs \in Seq(Entry) /\ accepted \in Seq(Entry)
      /\ Len(terminalLogs) \in Nat /\ Len(accepted) \in Nat /\ MaxLogs \in Nat \ {0}
      /\ IsTail(terminalLogs, accepted)
  BY ConsoleAssumption DEF ConsoleIInv
<1>2. Len(terminalLogs) = IF Len(accepted) > MaxLogs THEN MaxLogs ELSE Len(accepted)
  BY <1>1 DEF IsTail
<1>3. PICK m \in Nat \ {0} :
        m = IF Len(accepted) > MaxLogs THEN Len(accepted) - MaxLogs + 1 ELSE 1
  <2>1. CASE Len(accepted) > MaxLogs
    <3>1. Len(accepted) - MaxLogs + 1 \in Nat \ {0}
      BY <1>1, <2>1
    <3> QED
      BY <2>1, <3>1
  <2>2. CASE ~(Len(accepted) > MaxLogs)
    BY <2>2
  <2> QED
    BY <2>1, <2>2
<1>4. Len(terminalLogs) = Len(accepted) - m + 1 /\ m <= Len(accepted) + 1
  BY <1>1, <1>2, <1>3
<1>5. \A i \in m..Len(accepted) : accepted[i] \in Entry
  BY <1>1, ElementOfSeq
<1> DEFINE t == SubSeq(accepted, m, Len(accepted))
<1>6. /\ t \in Seq(Entry)
      /\ Len(t) = IF m <= Len(accepted) THEN Len(accepted) - m + 1 ELSE 0
      /\ \A i \in 1 .. Len(accepted) - m + 1 : t[i] = accepted[m + i - 1]
  BY <1>1, <1>3, <1>5, SubSeqProperties
<1>7. Len(t) = Len(terminalLogs)
  <2>1. CASE m <= Len(accepted)
    BY <1>4, <1>6, <2>1
  <2>2. CASE ~(m <= Len(accepted))
    <3>1. Len(t) = 0
      BY <1>6, <2>2
    <3>2. Len(accepted) - m + 1 = 0
      BY <1>1, <1>3, <1>4, <2>2
    <3> QED
      BY <1>4, <3>1, <3>2
  <2> QED
    BY <2>1, <2>2
<1>8. \A i \in 1..Len(terminalLogs) : terminalLogs[i] = t[i]
  <2> SUFFICES ASSUME NEW i \in 1..Len(terminalLogs)
               PROVE  terminalLogs[i] = t[i]
    OBVIOUS
  <2>1. terminalLogs[i] = accepted[Skipped(accepted, terminalLogs) + i]
    BY <1>1 DEF IsTail
  <2>2. Skipped(accepted, terminalLogs) + i = m + i - 1
    BY <1>1, <1>3, <1>4 DEF Skipped
  <2> QED
    BY <1>4, <1>6, <2>1, <2>2
<1> HIDE DEF t
<1>9. terminalLogs = t
  BY <1>1, <1>6, <1>7, <1>8, SeqEqual
<1> QED
  BY <1>3, <1>9 DEF KeepsNewest, t

(* An export takes the console as it is: from its first line on, it has all*)
(* that was accepted.                                                      *)
LEMMA ExportStep ==
  ConsoleIInv /\ [ConsoleNext]_consoleVars =>
    [logFile' # logFile /\ logFile' # <<>>
       => \A k \in 1..Len(accepted) :
            /\ accepted[k].serial >= logFile'[1].serial
            => \E j \in 1..Len(logFile') : logFile'[j] = accepted[k]]_consoleVars
<1> SUFFICES ASSUME ConsoleIInv, ConsoleNext, logFile' # logFile, logFile' # <<>>,
                    NEW k \in 1..Len(accepted),
                    accepted[k].serial >= logFile'[1].serial
             PROVE  \E j \in 1..Len(logFile') : logFile'[j] = accepted[k]
  OBVIOUS
<1>1. logFile' = terminalLogs
  BY DEF ConsoleNext, AddTerminalLog, TogglePause, HandleClearLogs, HandleExportLogs,
         ScrollUp, SetLogFilter
<1>2. /\ terminalLogs \in Seq(Entry) /\ accepted \in Seq(Entry)
      /\ IsTail(terminalLogs, accepted) /\ InSerialOrder(accepted)
  BY DEF ConsoleIInv
<1>3. /\ Len(terminalLogs) \in Nat /\ Len(accepted) \in Nat
      /\ Len(terminalLogs) <= Len(accepted) /\ Len(terminalLogs) # 0
  BY <1>1, <1>2, ConsoleAssumption DEF IsTail
<1>4. PICK d \in Nat : Len(accepted) = Len(terminalLogs) + d
  BY <1>3, DifferenceIsNat
<1>5. terminalLogs[1] = accepted[d + 1] /\ d + 1 \in 1..Len(accepted)
  <2>1. Skipped(accepted, terminalLogs) + 1 = d + 1 /\ 1 \in 1..Len(terminalLogs)
    BY <1>3, <1>4 DEF Skipped
  <2> QED
    BY <1>2, <1>3, <1>4, <2>1 DEF IsTail
<1>6. accepted[k] \in Entry /\ accepted[d + 1] \in Entry
  BY <1>2, <1>5, ElementOfSeq
<1>7. accepted[k].serial \in Nat /\ accepted[d + 1].serial \in Nat
  BY <1>6 DEF Entry
<1>8. ~(k < d + 1)
  BY <1>1, <1>2, <1>5, <1>7 DEF InSerialOrder
<1>9. k - d \in 1..Len(terminalLogs)
  BY <1>3, <1>4, <1>8
<1>10. terminalLogs[k - d] = accepted[k]
  <2>1. Skipped(accepted, terminalLogs) + (k - d) = k
    BY <1>3, <1>4 DEF Skipped
  <2> QED
    BY <1>2, <1>9, <2>1 DEF IsTail
<1> QED
  BY <1>1, <1>9, <1>10

-----------------------------------------------------------------------------
(* The templates of the tabs.                                              *)

(* Names are keys in every list, and the list of the tab that wrote last is*)
(* the stored one.                                                         *)
StoreIInv ==
  /\ StoreTypeOK
  /\ NamesAreKeys /\ LastWriterSurvivesReload

(* At first no tab has a template.                                         *)
LEMMA StoreInitHolds == StoreInit => StoreIInv
BY StoreAssumption
DEF StoreInit, StoreIInv, StoreTypeOK, TemplateLists, Typed, Blank, NamesAreKeys, Unique,
    LastWriterSurvivesReload

(* A write leaves the same list in the tab and in the store.               *)
LEMMA WriteHolds ==
  ASSUME StoreIInv, NEW t \in Tabs, NEW list \in TemplateLists, Unique(list), Write(t, list),
         templateName' \in [Tabs -> Typed], saves' \in 0..MaxSaves
  PROVE  StoreIInv'
BY DEF Write, StoreIInv, StoreTypeOK, NamesAreKeys, LastWriterSurvivesReload

(* Without drops the templates of a name, and no others.                   *)
LEMMA WithoutHolds ==
  ASSUME NEW list \in TemplateLists, NEW name, Unique(list)
  PROVE  /\ Without(list, name) \in TemplateLists /\ Unique(Without(list, name))
         /\ \A template \in Without(list, name) : template.name # name
BY DEF Without, TemplateLists, Unique

(* A save drops the name before it adds it.                                *)
LEMMA StoreStep == StoreIInv /\ [StoreNext]_storeVars => StoreIInv'
<1> SUFFICES ASSUME StoreIInv, [StoreNext]_storeVars
             PROVE  StoreIInv'
  OBVIOUS
<1>0. /\ customTemplates \in [Tabs -> TemplateLists] /\ stored \in TemplateLists
      /\ templateName \in [Tabs -> Typed] /\ saves \in 0..MaxSaves
      /\ lastWriter \in Tabs \cup {"nobody"}
      /\ Unique(stored) /\ \A t \in Tabs : Unique(customTemplates[t])
      /\ lastWriter # "nobody" => customTemplates[lastWriter] = stored
      /\ Blank \in Typed
  BY DEF StoreIInv, StoreTypeOK, NamesAreKeys, LastWriterSurvivesReload, Blank, Typed
<1>1. ASSUME NEW t \in Tabs, OpenTab(t)
      PROVE  StoreIInv'
  BY <1>0, <1>1
  DEF OpenTab, StoreIInv, StoreTypeOK, NamesAreKeys, LastWriterSurvivesReload
<1>2. ASSUME NEW t \in Tabs, TypeName(t)
      PROVE  StoreIInv'
  BY <1>0, <1>2
  DEF TypeName, StoreIInv, StoreTypeOK, NamesAreKeys, LastWriterSurvivesReload
<1>3. ASSUME NEW t \in Tabs, HandleSaveTemplate(t)
      PROVE  StoreIInv'
  <2> DEFINE name == templateName[t].text
             kept == Without(customTemplates[t], name)
             template == [name |-> name, save |-> saves']
  <2>1. /\ name # Nothing /\ saves' = saves + 1 /\ saves' \in 1..MaxSaves
        /\ Write(t, kept \cup {template})
        /\ templateName' = [templateName EXCEPT ![t] = Blank]
    BY <1>0, <1>3, StoreAssumption DEF HandleSaveTemplate
  <2>2. name \in TrimmedNames
    BY <1>0, <2>1 DEF Typed
  <2>3. /\ kept \in TemplateLists /\ Unique(kept)
        /\ \A other \in kept : other.name # name
    BY <1>0, WithoutHolds
  <2>4. kept \cup {template} \in TemplateLists
    BY <2>1, <2>2, <2>3 DEF TemplateLists
  <2>5. Unique(kept \cup {template})
    BY <2>3 DEF Unique
  <2>6. templateName' \in [Tabs -> Typed] /\ saves' \in 0..MaxSaves
    BY <1>0, <2>1
  <2> QED
    BY <2>1, <2>4, <2>5, <2>6, WriteHolds
<1>4. ASSUME NEW t \in Tabs, HandleDeleteTemplate(t)
      PROVE  StoreIInv'
  <2>1. PICK template \in customTemplates[t] :
          Write(t, Without(customTemplates[t], template.name))
    BY <1>4 DEF HandleDeleteTemplate
  <2>2. /\ Without(customTemplates[t], template.name) \in TemplateLists
        /\ Unique(Without(customTemplates[t], template.name))
    BY <1>0, WithoutHolds
  <2> QED
    BY <1>0, <1>4, <2>1, <2>2, WriteHolds DEF HandleDeleteTemplate
<1>5. CASE UNCHANGED storeVars
  BY <1>0, <1>5
  DEF storeVars, StoreIInv, StoreTypeOK, NamesAreKeys, LastWriterSurvivesReload
<1> QED
  BY <1>1, <1>2, <1>3, <1>4, <1>5 DEF StoreNext

-----------------------------------------------------------------------------
(* The map of the pods.                                                    *)

(* The k-th pod of the list, as it is placed.                              *)
Placed(k) == [id |-> containers[k], node |-> (k - 1) % 3, host |-> 13 + k]

(* No pod is listed twice, and the inspected one, while it is listed,      *)
(* stands where it did.                                                    *)
TopologyIInv ==
  /\ TopologyTypeOK
  /\ \A j, k \in 1..Len(containers) : containers[j] = containers[k] => j = k
  /\ \A k \in 1..Len(containers) :
       containers[k] = selectedPod.id => Placed(k) = selectedPod

(* The map shows the pods of the list, each where its index puts it.       *)
LEMMA PodsArePlaced ==
  ASSUME NEW S, containers \in Seq(S)
  PROVE  PlacedPods = {Placed(k) : k \in 1..Len(containers)}
<1>1. DOMAIN containers = 1..Len(containers)
  OBVIOUS
<1> QED
  BY <1>1 DEF PlacedPods, Placed

(* Three pods, one on each node, and nothing inspected.                    *)
LEMMA TopologyInitHolds == TopologyInit => TopologyIInv
<1> SUFFICES ASSUME TopologyInit
             PROVE  TopologyIInv
  OBVIOUS
<1>1. /\ containers = <<1, 2, 3>> /\ created = 3 /\ selectedZone = AllZones
      /\ selectedPod = NoSnapshot
  BY DEF TopologyInit
<1>2. containers \in Seq(1..3) /\ Len(containers) = 3
  BY <1>1
<1>3. \A k \in 1..3 : containers[k] = k
  BY <1>1
<1>4. selectedPod.id = 0 /\ selectedPod.node = 0
  BY <1>1 DEF NoSnapshot
<1>5. TopologyTypeOK
  BY <1>1, <1>2, <1>4, TopologyAssumption DEF TopologyTypeOK, Nodes
<1> QED
  BY <1>2, <1>3, <1>4, <1>5 DEF TopologyIInv

(* The list keeps a prefix of itself and gets only new pods behind it.     *)
LEMMA ListHolds ==
  ASSUME TopologyIInv, NEW keep \in 0..Len(containers), NEW new \in Nat,
         containers' \in Seq(1..created'), Len(containers') = keep + new,
         Len(containers') <= MaxListed,
         created' \in created..MaxCreated, UNCHANGED <<selectedZone, selectedPod>>,
         \A k \in 1..keep : containers'[k] = containers[k],
         \A k \in 1..new : containers'[keep + k] = created + k
  PROVE  TopologyIInv'
<1>1. /\ containers \in Seq(1..created) /\ created \in 3..MaxCreated
      /\ selectedZone \in {AllZones} \cup Nodes /\ selectedPod.id \in 0..created
      /\ selectedPod.node \in Nodes /\ Len(containers) \in Nat
      /\ \A j, k \in 1..Len(containers) : containers[j] = containers[k] => j = k
      /\ \A k \in 1..Len(containers) :
           containers[k] = selectedPod.id => Placed(k) = selectedPod
  BY DEF TopologyIInv, TopologyTypeOK
<1>2. TopologyTypeOK'
  BY <1>1, TopologyAssumption DEF TopologyTypeOK
<1>3. ASSUME NEW k \in 1..keep
      PROVE  /\ k \in 1..Len(containers) /\ containers[k] \in 1..created
             /\ containers'[k] = containers[k] /\ containers'[k] <= created
  <2>1. k \in 1..Len(containers)
    BY <1>1
  <2>2. containers[k] \in 1..created
    BY <1>1, <2>1, ElementOfSeq
  <2> QED
    BY <1>1, <2>1, <2>2
<1>4. ASSUME NEW k \in 1..keep + new, k \notin 1..keep
      PROVE  k - keep \in 1..new /\ keep + (k - keep) = k
  BY <1>1, <1>4
<1>5. ASSUME NEW k \in 1..keep + new, k \notin 1..keep
      PROVE  /\ containers'[k] = created + (k - keep)
             /\ k - keep \in 1..new /\ containers'[k] > created
  <2>1. k - keep \in 1..new /\ keep + (k - keep) = k
    BY <1>4, <1>5
  <2>2. containers'[k] = created + (k - keep)
    BY <2>1
  <2> QED
    BY <1>1, <2>1, <2>2
<1>6. ASSUME NEW j \in 1..keep + new, NEW k \in 1..keep + new,
             containers'[j] = containers'[k]
      PROVE  j = k
  <2>1. CASE j \in 1..keep /\ k \in 1..keep
    BY <1>1, <1>3, <1>6, <2>1
  <2>2. CASE j \in 1..keep /\ k \notin 1..keep
    <3>1. containers'[j] = containers[j] /\ containers[j] \in 1..created
      BY <1>3, <2>2
    <3>2. containers'[k] = created + (k - keep) /\ k - keep \in 1..new
      BY <1>5, <2>2
    <3>3. containers[j] = created + (k - keep)
      BY <1>6, <3>1, <3>2
    <3>4. created + (k - keep) \in 1..created
      BY <3>1, <3>3
    <3> QED
      BY <1>1, <3>2, <3>4
  <2>3. CASE j \notin 1..keep /\ k \in 1..keep
    <3>1. containers'[k] = containers[k] /\ containers[k] \in 1..created
      BY <1>3, <2>3
    <3>2. containers'[j] = created + (j - keep) /\ j - keep \in 1..new
      BY <1>5, <2>3
    <3>3. containers[k] = created + (j - keep)
      BY <1>6, <3>1, <3>2
    <3>4. created + (j - keep) \in 1..created
      BY <3>1, <3>3
    <3> QED
      BY <1>1, <3>2, <3>4
  <2>4. CASE j \notin 1..keep /\ k \notin 1..keep
    <3>1. containers'[j] = created + (j - keep) /\ containers'[k] = created + (k - keep)
      BY <1>5, <2>4
    <3>2. created + (j - keep) = created + (k - keep)
      BY <1>6, <3>1
    <3> QED
      BY <1>1, <3>2
  <2> QED
    BY <2>1, <2>2, <2>3, <2>4
<1>7. ASSUME NEW k \in 1..keep + new, containers'[k] = selectedPod'.id
      PROVE  Placed(k)' = selectedPod'
  <2>0. selectedPod.id <= created /\ selectedPod' = selectedPod
    BY <1>1
  <2>1. k \in 1..keep
    BY <1>1, <1>5, <1>7, <2>0
  <2>2. containers'[k] = containers[k] /\ k \in 1..Len(containers)
    BY <1>3, <2>1
  <2>3. Placed(k) = selectedPod
    BY <1>1, <1>7, <2>0, <2>2
  <2> QED
    BY <2>0, <2>2, <2>3 DEF Placed
<1> QED
  BY <1>2, <1>6, <1>7 DEF TopologyIInv

(* The drawer is closed or takes a pod as it is listed.                    *)
LEMMA SelectHolds ==
  ASSUME TopologyIInv, UNCHANGED <<containers, created>>,
         selectedZone' \in {AllZones} \cup Nodes,
         \/ selectedPod' = selectedPod
         \/ selectedPod' = NoSnapshot
         \/ \E k \in 1..Len(containers) : selectedPod' = Placed(k)
  PROVE  TopologyIInv'
<1>1. /\ containers \in Seq(1..created) /\ created \in 3..MaxCreated
      /\ Len(containers) <= MaxListed /\ selectedPod.id \in 0..created
      /\ selectedPod.node \in Nodes
      /\ \A j, k \in 1..Len(containers) : containers[j] = containers[k] => j = k
      /\ \A k \in 1..Len(containers) :
           containers[k] = selectedPod.id => Placed(k) = selectedPod
      /\ \A k \in 1..Len(containers) : containers[k] \in 1..created
  BY DEF TopologyIInv, TopologyTypeOK
<1>2. CASE selectedPod' = selectedPod
  BY <1>1, <1>2 DEF TopologyIInv, TopologyTypeOK, Placed
<1>3. CASE selectedPod' = NoSnapshot
  <2>1. selectedPod'.id = 0 /\ selectedPod'.node = 0
    BY <1>3 DEF NoSnapshot
  <2> QED
    BY <1>1, <2>1 DEF TopologyIInv, TopologyTypeOK, Nodes
<1>4. ASSUME NEW j \in 1..Len(containers), selectedPod' = Placed(j)
      PROVE  TopologyIInv'
  <2>1. selectedPod'.id = containers[j] /\ selectedPod'.node = (j - 1) % 3
    BY <1>4 DEF Placed
  <2>2. selectedPod'.id \in 0..created /\ selectedPod'.node \in Nodes
    BY <1>1, <2>1 DEF Nodes
  <2>3. \A k \in 1..Len(containers) :
          containers[k] = selectedPod'.id => Placed(k) = selectedPod'
    BY <1>1, <1>4, <2>1
  <2>4. TopologyTypeOK'
    BY <1>1, <2>2 DEF TopologyTypeOK
  <2>5. \A k \in 1..Len(containers) : Placed(k)' = Placed(k)
    BY DEF Placed
  <2> QED
    BY <1>1, <2>3, <2>4, <2>5 DEF TopologyIInv
<1> QED
  BY <1>2, <1>3, <1>4

(* Additions, cuts, losses and restores are the one, selections the other. *)
LEMMA TopologyStep == TopologyIInv /\ [TopologyNext]_topologyVars => TopologyIInv'
<1> SUFFICES ASSUME TopologyIInv, [TopologyNext]_topologyVars
             PROVE  TopologyIInv'
  OBVIOUS
<1>0. /\ containers \in Seq(1..created) /\ created \in 3..MaxCreated
      /\ selectedZone \in {AllZones} \cup Nodes
      /\ Len(containers) \in Nat /\ Len(containers) <= MaxListed
      /\ MaxListed \in Nat /\ 3 <= MaxListed /\ MaxCreated \in Nat
  BY TopologyAssumption DEF TopologyIInv, TopologyTypeOK
<1>1. CASE AppendPods
  <2>1. PICK n \in 1..MaxListed - Len(containers) :
          /\ created' = created + n /\ created' <= MaxCreated
          /\ containers' = containers \o [k \in 1..n |-> created + k]
    BY <1>1 DEF AppendPods
  <2> DEFINE fresh == [k \in 1..n |-> created + k]
  <2>2. n \in Nat /\ created' \in created..MaxCreated /\ UNCHANGED <<selectedZone, selectedPod>>
    BY <1>0, <1>1, <2>1 DEF AppendPods
  <2>3. fresh \in Seq(1..created') /\ Len(fresh) = n
    <3>1. \A k \in 1..n : created + k \in 1..created'
      BY <1>0, <2>1, <2>2
    <3>2. fresh \in [1..n -> 1..created']
      BY <3>1
    <3> QED
      BY <2>2, <3>2
  <2>4. containers \in Seq(1..created')
    <3>1. 1..created \subseteq 1..created'
      BY <1>0, <2>2
    <3> QED
      BY <1>0, <3>1, SeqMonotonic
  <2>5. \A k \in 1..n : fresh[k] = created + k
    OBVIOUS
  <2> HIDE DEF fresh
  <2>6. /\ containers \o fresh \in Seq(1..created')
        /\ Len(containers \o fresh) = Len(containers) + n
        /\ \A i \in 1 .. Len(containers) + n : (containers \o fresh)[i] =
             IF i <= Len(containers) THEN containers[i] ELSE fresh[i - Len(containers)]
    BY <2>3, <2>4, ConcatProperties
  <2>7. containers' = containers \o fresh
    BY <2>1 DEF fresh
  <2>8. \A k \in 1..Len(containers) : containers'[k] = containers[k]
    BY <1>0, <2>2, <2>6, <2>7
  <2>9. \A k \in 1..n : containers'[Len(containers) + k] = created + k
    BY <1>0, <2>2, <2>5, <2>6, <2>7
  <2>10. Len(containers) + n <= MaxListed /\ Len(containers) \in 0..Len(containers)
    BY <1>0, <2>1
  <2> QED
    BY <2>2, <2>6, <2>7, <2>8, <2>9, <2>10, ListHolds
<1>2. CASE TruncatePods
  <2>1. PICK n \in 1..Len(containers) - 1 : containers' = SubSeq(containers, 1, n)
    BY <1>2 DEF TruncatePods
  <2>2. created' = created /\ UNCHANGED <<selectedZone, selectedPod>>
    BY <1>2 DEF TruncatePods
  <2>3. n \in 0..Len(containers) /\ n \in Int /\ 1 <= n /\ n - 1 + 1 = n /\ n <= MaxListed
    BY <1>0, <2>1
  <2>4. \A i \in 1..n : containers[i] \in 1..created
    BY <1>0, <2>3
  <2>5. /\ SubSeq(containers, 1, n) \in Seq(1..created)
        /\ Len(SubSeq(containers, 1, n)) = n
        /\ \A i \in 1..n : SubSeq(containers, 1, n)[i] = containers[i]
    BY <2>3, <2>4, SubSeqProperties
  <2>6. Len(containers') = n + 0 /\ created' \in created..MaxCreated
    BY <1>0, <2>1, <2>2, <2>3, <2>5
  <2> QED
    BY <2>1, <2>2, <2>3, <2>5, <2>6, ListHolds
<1>3. CASE LosePods
  <2>1. /\ containers' = <<>> /\ Len(containers') = 0 + 0 /\ containers' \in Seq(1..created')
        /\ created' = created /\ UNCHANGED <<selectedZone, selectedPod>>
    BY <1>3 DEF LosePods
  <2> QED
    BY <1>0, <2>1, ListHolds
<1>4. CASE RestorePod
  <2>1. /\ containers' = <<created + 1>> /\ created' = created + 1 /\ created < MaxCreated
        /\ UNCHANGED <<selectedZone, selectedPod>>
    BY <1>4 DEF RestorePod
  <2>2. created' \in 1..created' /\ created' \in created..MaxCreated
    BY <1>0, <2>1
  <2>3. containers' \in Seq(1..created') /\ Len(containers') = 0 + 1
        /\ containers'[1] = created + 1
    BY <2>1, <2>2
  <2>4. \A k \in 1..1 : containers'[0 + k] = created + k
    BY <2>3
  <2>5. 0 \in 0..Len(containers) /\ \A k \in 1..0 : containers'[k] = containers[k]
    BY <1>0
  <2>6. Len(containers') <= MaxListed
    BY <1>0, <2>3
  <2> QED
    BY <2>1, <2>2, <2>3, <2>4, <2>5, <2>6, ListHolds
<1>5. CASE SelectZone \/ CloseInspection
  BY <1>0, <1>5, SelectHolds DEF SelectZone, CloseInspection
<1>6. CASE SelectPod
  <2>1. selectedPod' \in PlacedPods
    BY <1>6 DEF SelectPod, Visible
  <2>2. \E k \in 1..Len(containers) : selectedPod' = Placed(k)
    BY <1>0, <2>1, PodsArePlaced
  <2> QED
    BY <1>0, <1>6, <2>2, SelectHolds DEF SelectPod
<1>7. CASE UNCHANGED topologyVars
  BY <1>0, <1>7, SelectHolds DEF topologyVars
<1> QED
  BY <1>1, <1>2, <1>3, <1>4, <1>5, <1>6, <1>7 DEF TopologyNext

(* The drawer agrees with the list.                                        *)
LEMMA DrawerHolds == TopologyIInv => DrawerIsInPlace
<1> SUFFICES ASSUME TopologyIInv, NEW pod \in PlacedPods, pod.id = selectedPod.id
             PROVE  pod = selectedPod
  BY DEF DrawerIsInPlace
<1>1. PICK k \in 1..Len(containers) : pod = Placed(k)
  BY PodsArePlaced DEF TopologyIInv, TopologyTypeOK
<1>2. pod.id = containers[k]
  BY <1>1 DEF Placed
<1> QED
  BY <1>1, <1>2 DEF TopologyIInv

(* How many of n pods stand on node m: those at m + 1, m + 4 and so on.    *)
Share(n, m) == (n + 2 - m) \div 3

(* The i-th pod of node m has the index m + 3i - 2, and every pod of the   *)
(* node has such an index.                                                 *)
LEMMA SharePlaces ==
  ASSUME NEW n \in Nat, NEW m \in Nodes
  PROVE  /\ Share(n, m) \in Nat
         /\ \A i \in 1..Share(n, m) :
              \E k \in 1..n : k = m + 3 * (i - 1) + 1 /\ (k - 1) % 3 = m
         /\ \A k \in 1..n : (k - 1) % 3 = m =>
              \E i \in 1..Share(n, m) : k = m + 3 * (i - 1) + 1
<1>1. m \in {0, 1, 2}
  BY DEF Nodes
<1>2. Share(n, m) \in Nat
  BY <1>1 DEF Share
<1>3. ASSUME NEW i \in 1..Share(n, m)
      PROVE  \E k \in 1..n : k = m + 3 * (i - 1) + 1 /\ (k - 1) % 3 = m
  <2>1. PICK k \in Int : k = m + 3 * (i - 1) + 1
    BY <1>1, <1>2
  <2>2. k \in 1..n
    BY <1>1, <1>2, <2>1 DEF Share
  <2>3. (k - 1) % 3 = m
    BY <1>1, <1>2, <2>1
  <2> QED
    BY <2>1, <2>2, <2>3
<1>4. ASSUME NEW k \in 1..n, (k - 1) % 3 = m
      PROVE  \E i \in 1..Share(n, m) : k = m + 3 * (i - 1) + 1
  <2>1. k - 1 \in Nat /\ (k - 1) \div 3 \in Nat /\ k - 1 = 3 * ((k - 1) \div 3) + m
    BY <1>1, <1>4
  <2>2. PICK q \in Nat : k = 3 * q + m + 1
    BY <1>1, <2>1
  <2>3. q + 1 \in 1..Share(n, m) /\ k = m + 3 * ((q + 1) - 1) + 1
    BY <1>1, <1>2, <2>2 DEF Share
  <2> QED
    BY <2>3
<1> QED
  BY <1>2, <1>3, <1>4

(* A node carries its share, counted by the bijection of the indices.      *)
LEMMA NodeLoad ==
  ASSUME TopologyIInv, NEW m \in Nodes
  PROVE  Cardinality({pod \in PlacedPods : pod.node = m}) = Share(Len(containers), m)
<1> DEFINE n == Len(containers)
           S == 1..Share(n, m)
           T == {pod \in PlacedPods : pod.node = m}
           f == [i \in S |-> Placed(m + 3 * (i - 1) + 1)]
<1>1. containers \in Seq(1..created) /\ n \in Nat /\ m \in {0, 1, 2}
  BY DEF TopologyIInv, TopologyTypeOK, Nodes
<1>2. Share(n, m) \in Nat
  BY <1>1, SharePlaces
<1>3. ASSUME NEW i \in S
      PROVE  \E k \in 1..n : k = m + 3 * (i - 1) + 1 /\ (k - 1) % 3 = m
  BY <1>1, SharePlaces
<1>4. PlacedPods = {Placed(k) : k \in 1..n}
  BY <1>1, PodsArePlaced
<1>5. ASSUME NEW i \in S
      PROVE  f[i] \in T
  <2>1. PICK k \in 1..n : k = m + 3 * (i - 1) + 1 /\ (k - 1) % 3 = m
    BY <1>3
  <2>2. f[i] = Placed(k)
    BY <2>1
  <2>3. Placed(k).node = m
    BY <2>1 DEF Placed
  <2>4. Placed(k) \in PlacedPods
    BY <1>4
  <2> QED
    BY <2>2, <2>3, <2>4
<1>6. ASSUME NEW i \in S, NEW j \in S, f[i] = f[j]
      PROVE  i = j
  <2>1. f[i].host = 13 + (m + 3 * (i - 1) + 1) /\ f[j].host = 13 + (m + 3 * (j - 1) + 1)
    BY DEF Placed
  <2> QED
    BY <1>1, <1>2, <1>6, <2>1
<1>7. ASSUME NEW pod \in T
      PROVE  \E i \in S : f[i] = pod
  <2>1. PICK k \in 1..n : pod = Placed(k)
    BY <1>4
  <2>2. (k - 1) % 3 = m
    BY <2>1 DEF Placed
  <2>3. PICK i \in S : k = m + 3 * (i - 1) + 1
    BY <1>1, <2>2, SharePlaces
  <2> QED
    BY <2>1, <2>3
<1>8. ExistsBijection(S, T)
  <2>1. f \in [S -> T]
    BY <1>5
  <2>2. f \in Bijection(S, T)
    BY <2>1, <1>6, <1>7 DEF Bijection, Injection, Surjection, IsInjective
  <2> QED
    BY <2>2 DEF ExistsBijection
<1>9. IsFiniteSet(S) /\ Cardinality(S) = Share(n, m)
  <2>1. Cardinality(S) = IF 1 > Share(n, m) THEN 0 ELSE Share(n, m) - 1 + 1
    BY <1>2, FS_Interval, 1 \in Int, Share(n, m) \in Int
  <2>2. IsFiniteSet(S)
    BY <1>2, FS_Interval
  <2> QED
    BY <1>2, <2>1, <2>2
<1> QED
  BY <1>8, <1>9, FS_Bijection

(* Two shares of three differ by one at most, and an address is an index.  *)
LEMMA PlacementHolds == TopologyIInv => PlacementIsFair
<1> SUFFICES ASSUME TopologyIInv
             PROVE  PlacementIsFair
  OBVIOUS
<1>1. containers \in Seq(1..created) /\ Len(containers) \in Nat
  BY DEF TopologyIInv, TopologyTypeOK
<1>2. ASSUME NEW m \in Nodes, NEW n \in Nodes
      PROVE  Share(Len(containers), m) <= Share(Len(containers), n) + 1
  BY <1>1 DEF Share, Nodes
<1>3. ASSUME NEW p \in PlacedPods, NEW q \in PlacedPods, p.host = q.host
      PROVE  p = q
  <2>1. PICK j \in 1..Len(containers) : p = Placed(j)
    BY <1>1, PodsArePlaced
  <2>2. PICK k \in 1..Len(containers) : q = Placed(k)
    BY <1>1, PodsArePlaced
  <2>3. 13 + j = 13 + k
    BY <1>3, <2>1, <2>2 DEF Placed
  <2> QED
    BY <1>1, <2>1, <2>2, <2>3
<1> QED
  BY <1>2, <1>3, NodeLoad DEF PlacementIsFair

-----------------------------------------------------------------------------
(* The simulator, left alone.                                              *)

(* The request rates of the four modes.                                    *)
Rates == {RateOf(m) : m \in Modes}
(* What an alert can say.                                                  *)
Messages == Faults \cup Anomalies \cup {"oom", "ddos", "cpu", "errors"}

(* The types of what LabIInv leaves open.                                  *)
LabShape ==
  /\ mode \in Modes /\ rate \in Rates
  /\ faults \subseteq Faults /\ autoScaling \in {"on", "off"}
  /\ cpuSlider \in CpuRanges \cup {"auto"}
  /\ heapSlider \in Unset..HeapSteps /\ heap \in 0..HeapSteps
  /\ anomaly \in Anomalies /\ alerts \subseteq Messages
  /\ scenario \in Scenarios \cup {"none"} /\ scenarioTimer \in Nat
  /\ prevCpu \in CpuRanges /\ seen.faults \subseteq Faults
  /\ fired \subseteq {"tick", "pods"}
  /\ clicks \in 0..MaxClicks /\ touched \in {"yes", "no"}

(* A mode brings its own rate.                                             *)
LEMMA RateOfMode ==
  /\ \A m \in Modes : RateOf(m) \in Rates
  /\ RateOf("normal") = 100 /\ RateOf("viral") = 5000 /\ RateOf("ddos") = 10000
  /\ {"normal", "viral", "ddos"} \subseteq Modes
BY DEF Rates, RateOf, Modes

(* The simulator starts at rest.                                           *)
LEMMA LabShapeInit == LabInit => LabShape
<1> SUFFICES ASSUME LabInit
             PROVE  LabShape
  OBVIOUS
<1>1. heap = 0 /\ heapSlider = -1 /\ 0 \in 0..HeapSteps /\ -1 \in Unset..HeapSteps /\ 0 \in 0..MaxClicks
  BY LabAssumption DEF LabInit, Unset
<1> QED
  BY <1>1, RateOfMode
  DEF LabInit, LabShape, Modes, Anomalies, Scenarios, CpuRanges

(* What a click has to leave in place.                                     *)
LEMMA ClickShape ==
  ASSUME LabShape, Click,
         mode' \in Modes, rate' \in Rates, faults' \subseteq Faults,
         autoScaling' \in {"on", "off"}, cpuSlider' \in CpuRanges \cup {"auto"},
         heapSlider' \in Unset..HeapSteps, heap' \in 0..HeapSteps, anomaly' \in Anomalies,
         alerts' \subseteq Messages, scenario' \in {scenario, "none"},
         scenarioTimer' = scenarioTimer
  PROVE  LabShape'
<1>1. /\ clicks' \in 0..MaxClicks /\ touched' = "yes" /\ seen'.faults = faults'
      /\ prevCpu' = prevCpu /\ fired' = {}
  BY LabAssumption DEF Click, Commit, LabShape
<1> QED
  BY <1>1 DEF LabShape

(* Buttons and sliders offer nothing else, and a template holds what the   *)
(* simulator once was.                                                     *)
LEMMA VisitorShape == LabShape /\ Visitor => LabShape'
<1> SUFFICES ASSUME LabShape, Visitor
             PROVE  LabShape'
  OBVIOUS
<1>1. /\ mode \in Modes /\ rate \in Rates
      /\ faults \subseteq Faults /\ autoScaling \in {"on", "off"}
      /\ cpuSlider \in CpuRanges \cup {"auto"}
      /\ heapSlider \in Unset..HeapSteps /\ heap \in 0..HeapSteps
      /\ anomaly \in Anomalies /\ alerts \subseteq Messages
      /\ scenario \in Scenarios \cup {"none"} /\ scenarioTimer \in Nat
      /\ seen.faults \subseteq Faults
  BY DEF LabShape
<1>2. /\ 0 \in 0..HeapSteps /\ -1 \in Unset..HeapSteps /\ "none" \in Anomalies
      /\ "hot" \in CpuRanges /\ "auto" \in CpuRanges \cup {"auto"}
      /\ Anomalies \subseteq Messages /\ Faults \subseteq Messages
  BY LabAssumption DEF Unset, Anomalies, CpuRanges, Messages
<1>3. CASE TrafficButtons
  <2>1. PICK m \in Modes : HandleTrafficChange(m) /\ Click
    BY <1>3 DEF TrafficButtons
  <2>2. heap' \in 0..HeapSteps
    BY <1>1, <1>2, <2>1 DEF HandleTrafficChange
  <2>3. /\ mode' \in Modes /\ rate' \in Rates /\ scenario' = "none"
        /\ UNCHANGED <<faults, autoScaling, cpuSlider, heapSlider, anomaly, alerts, scenarioTimer>>
    BY <2>1, RateOfMode DEF HandleTrafficChange
  <2> QED
    BY <1>1, <2>1, <2>2, <2>3, ClickShape
<1>4. CASE ScenarioButtons
  <2>1. PICK s \in Scenarios : RunScenario(s)
    BY <1>4 DEF ScenarioButtons
  <2>2. /\ scenario' = s /\ scenarioTimer' = 0 /\ faults' = {} /\ cpuSlider' = "auto"
        /\ heapSlider' = -1 /\ anomaly' = "none" /\ mode' = "normal" /\ rate' \in {100, rate}
        /\ autoScaling' = autoScaling /\ heap' = heap /\ alerts' = alerts
    BY <2>1 DEF RunScenario, Unset
  <2>3. clicks' \in 0..MaxClicks
    BY <1>4, LabAssumption DEF ScenarioButtons, LabShape
  <2>4. touched' = "no" /\ seen'.faults = {} /\ prevCpu' = prevCpu /\ fired' = {}
    BY <1>4, <2>2 DEF ScenarioButtons, Commit
  <2> QED
    BY <1>1, <1>2, <2>2, <2>3, <2>4, RateOfMode DEF LabShape
<1>5. CASE AbortButton
  BY <1>1, <1>5, ClickShape DEF AbortButton, trafficVars, sliderVars
<1>6. ASSUME NEW type \in Anomalies \ {"none"}, TriggerAnomaly(type), Click
      PROVE  LabShape'
  <2>1. /\ anomaly' = type /\ scenario' = "none" /\ alerts' = alerts \cup {type}
        /\ UNCHANGED <<autoScaling, heapSlider, heap, scenarioTimer>>
    BY <1>6 DEF TriggerAnomaly, Trigger
  <2>2. mode' \in {mode, "viral"} /\ rate' \in {rate, 5000}
    BY <1>6 DEF TriggerAnomaly, trafficVars
  <2>3. cpuSlider' \in {cpuSlider, "hot"}
    BY <1>6 DEF TriggerAnomaly
  <2>4. faults' \subseteq Faults
    BY <1>1, <1>6 DEF TriggerAnomaly, Faults
  <2> QED
    BY <1>1, <1>2, <1>6, <2>1, <2>2, <2>3, <2>4, RateOfMode, ClickShape
<1>7. CASE ClearAnomaly
  BY <1>1, <1>2, <1>7, ClickShape DEF ClearAnomaly, Resolve, trafficVars, sliderVars, scenarioVars
<1>8. ASSUME NEW f \in Faults, ChaosToggle(f), Click
      PROVE  LabShape'
  <2>1. faults' \subseteq Faults /\ alerts' \subseteq Messages
    BY <1>1, <1>2, <1>8 DEF ChaosToggle, Trigger, Resolve
  <2> QED
    BY <1>1, <1>8, <2>1, ClickShape DEF ChaosToggle, trafficVars, sliderVars, scenarioVars
<1>9. CASE ClearFaults
  BY <1>1, <1>9, ClickShape DEF ClearFaults, Resolve, trafficVars, sliderVars, scenarioVars
<1>10. CASE HandleAddContainer \/ HandleRemoveContainer
  BY <1>1, <1>10, ClickShape
  DEF HandleAddContainer, HandleRemoveContainer, trafficVars, sliderVars, scenarioVars
<1>11. CASE AutoScalingButtons
  BY <1>1, <1>11, ClickShape DEF AutoScalingButtons, trafficVars, sliderVars, scenarioVars
<1>12. CASE Sliders
  <2>1. heapSlider' \in Unset..HeapSteps /\ heap' \in 0..HeapSteps
    BY <1>1, <1>12, LabAssumption DEF Sliders, Unset
  <2> QED
    BY <1>1, <1>12, <2>1, ClickShape DEF Sliders, trafficVars, scenarioVars
<1>13. CASE ResetAuto
  <2>1. heapSlider' = -1
    BY <1>13 DEF ResetAuto, Unset
  <2> QED
    BY <1>1, <1>2, <1>13, <2>1, ClickShape DEF ResetAuto, trafficVars, scenarioVars
<1>14. CASE TemplateButtons
  <2>1. PICK t \in Templates : HandleLoadTemplate(t) /\ Click
    BY <1>14 DEF TemplateButtons
  <2>2. /\ t.mode \in Modes /\ t.rate \in Rates /\ t.faults \subseteq Faults
        /\ t.autoScaling \in {"on", "off"} /\ t.anomaly \in Anomalies
        /\ t.cpuSlider \in CpuRanges \cup {"auto"}
        /\ t.heapSlider \in Unset..HeapSteps /\ t.heap \in 0..HeapSteps
    BY TemplatesAssumption DEF Configurations, Rates
  <2> QED
    BY <1>1, <2>1, <2>2, ClickShape DEF HandleLoadTemplate
<1> QED
  BY <1>3, <1>4, <1>5, <1>6, <1>7, <1>8, <1>9, <1>10, <1>11, <1>12, <1>13, <1>14
  DEF Visitor, AnomalyButtons, ChaosToggles

(* A stage of a scenario asks for modes, rates and faults there are.       *)
LEMMA StageShape ==
  ASSUME LabShape, NEW at \in Nat
  PROVE  LET s == ScenarioStage(at) IN
         /\ s.mode \in Modes /\ s.rate \in Rates /\ s.faults \subseteq Faults
         /\ s.alerts \subseteq Messages /\ s.next \in {scenario, "none"}
<1> DEFINE Sound(s) == /\ s.mode \in Modes /\ s.rate \in Rates /\ s.faults \subseteq Faults
                       /\ s.alerts \subseteq Messages /\ s.next \in {scenario, "none"}
<1>1. /\ mode \in Modes /\ rate \in Rates /\ faults \subseteq Faults /\ alerts \subseteq Messages
      /\ scenario \in Scenarios \cup {"none"}
  BY DEF LabShape
<1>2. ASSUME NEW m \in Modes, NEW r \in Rates, NEW fs \in SUBSET Faults, NEW as \in SUBSET Messages
      PROVE  Sound(Quiet(m, r, fs, as))
  BY <1>2 DEF Quiet
<1>3. Sound(Unchanged)
  BY <1>1, <1>2 DEF Unchanged
<1>4. Sound(Over)
  BY <1>1 DEF Over, Unchanged, Quiet
<1>5. \A m \in Modes : Sound(Traffic(m))
  BY <1>1, RateOfMode DEF Traffic, Unchanged, Quiet
<1>6. {"normal", "high", "viral", "ddos"} \subseteq Modes /\ 100 \in Rates /\ 10000 \in Rates
  BY RateOfMode DEF Modes
<1>7. {"db", "auth", "timeout"} \subseteq Faults /\ {"ddos", "db"} \subseteq Messages
  BY DEF Faults, Messages
<1> HIDE DEF Sound
<1>8. Sound(BlackFriday(at))
  BY <1>3, <1>4, <1>5, <1>6 DEF BlackFriday
<1>9. Sound(ViralPost(at))
  BY <1>3, <1>4, <1>5, <1>6 DEF ViralPost
<1>10. Sound(DbOutage(at))
  <2>1. Sound(Quiet(mode, rate, faults \cup {"db"}, alerts \cup {"db"}))
    BY <1>1, <1>2, <1>7
  <2>2. Sound(Quiet(mode, rate, faults \ {"db"}, alerts \ {"db"}))
    BY <1>1, <1>2
  <2> QED
    BY <1>3, <1>4, <2>1, <2>2 DEF DbOutage
<1>11. Sound(DdosAttack(at))
  <2>1. Sound(Quiet("ddos", 10000, faults \cup {"auth", "timeout"}, alerts \cup {"ddos"}))
    BY <1>1, <1>2, <1>6, <1>7
  <2>2. Sound(Quiet(mode, rate, faults \ {"auth", "timeout"}, alerts))
    BY <1>1, <1>2
  <2>3. Sound(Quiet("normal", 100, faults, alerts \ {"ddos"}))
    BY <1>1, <1>2, <1>6
  <2> QED
    BY <1>3, <1>4, <2>1, <2>2, <2>3 DEF DdosAttack
<1>12. Sound(ScenarioStage(at))
  BY <1>1, <1>3, <1>8, <1>9, <1>10, <1>11 DEF ScenarioStage, Scenarios
<1> QED
  BY <1>12 DEF Sound

(* A percentage lies in one of the ranges.                                 *)
LEMMA FinalCpuIsRange ==
  ASSUME cpuSlider \in CpuRanges \cup {"auto"}, mode \in Modes, seen.running \in Nat
  PROVE  FinalCpu \in CpuRanges
<1>1. ASSUME cpuSlider = "auto"
      PROVE  FinalCpu \in CpuRanges
  <2>1. PICK pods \in Nat : pods # 0 /\ pods = IF seen.running = 0 THEN 1 ELSE seen.running
    OBVIOUS
  <2>2. PICK target \in Nat : target = CpuTarget(mode)
    BY DEF CpuTarget, Modes
  <2>3. PICK num \in Nat : num = 2 * target * Baseline + pods
    <3>1. Baseline \in Nat
      BY LabAssumption
    <3> QED
      BY <3>1, <2>1, <2>2
  <2>4. Spread(target) = IF num \div (2 * pods) > 100 THEN 100 ELSE num \div (2 * pods)
    BY <2>1, <2>2, <2>3 DEF Spread
  <2>5. num \div (2 * pods) \in Nat
    <3>1. PICK d \in Nat : d > 0 /\ d = 2 * pods
      BY <2>1
    <3>2. num \div d \in Nat
      BY <3>1
    <3> QED
      BY <3>1, <3>2
  <2>6. Spread(target) \in Nat
    BY <2>4, <2>5
  <2>7. \A percent \in Nat : CpuRange(percent) \in CpuRanges
    BY DEF CpuRange, CpuRanges
  <2> QED
    BY <1>1, <2>2, <2>6, <2>7 DEF FinalCpu
<1> QED
  BY <1>1 DEF FinalCpu

(* A tick adds the crash and the alerts it knows.                          *)
LEMMA TickShape ==
  ASSUME LabShape, seen.running \in Nat, LabTick
  PROVE  LabShape'
<1>1. PICK at \in Nat : at = Elapsed
  BY DEF Elapsed, LabShape
<1>2. PICK s : s = ScenarioStage(at)
  OBVIOUS
<1>3. /\ s.mode \in Modes /\ s.rate \in Rates /\ s.faults \subseteq Faults
      /\ s.alerts \subseteq Messages /\ s.next \in {scenario, "none"}
  BY <1>2, StageShape
<1>4. /\ scenarioTimer' \in {scenarioTimer, at} /\ scenario' = s.next /\ mode' = s.mode
      /\ rate' = s.rate /\ alerts' = TickAlerts(s.alerts)
      /\ faults' \subseteq s.faults \cup {"crash"}
  BY <1>1, <1>2 DEF LabTick
<1>5. alerts' \subseteq s.alerts \cup {"oom", "cpu", "errors"}
  BY <1>4 DEF TickAlerts
<1>6. FinalHeap \in 0..HeapSteps /\ Leaked \in 0..HeapSteps /\ Leaked \in Unset..HeapSteps
      /\ 0 \in 0..HeapSteps
  BY LabAssumption DEF FinalHeap, Leaked, LabShape, Unset
<1>7. heap' \in 0..HeapSteps /\ heapSlider' \in Unset..HeapSteps
  <2>1. heap' \in {0, Leaked, FinalHeap} /\ heapSlider' \in {Leaked, heapSlider}
    BY DEF LabTick
  <2> QED
    BY <1>6, <2>1 DEF LabShape
<1>8. prevCpu' \in CpuRanges
  BY FinalCpuIsRange DEF LabTick, LabShape
<1>9. /\ UNCHANGED <<autoScaling, cpuSlider, anomaly, seen, clicks, touched>>
      /\ fired' = fired \cup {"tick"}
  BY DEF LabTick
<1>10. {"crash"} \subseteq Faults /\ {"oom", "cpu", "errors"} \subseteq Messages
  BY DEF Faults, Messages
<1> QED
  BY <1>3, <1>4, <1>5, <1>7, <1>8, <1>9, <1>10 DEF LabShape

(* So no step leaves the types.                                            *)
LEMMA LabShapeStep ==
  LabShape /\ seen.running \in Nat /\ [LabNext]_labVars => LabShape'
<1> SUFFICES ASSUME LabShape, seen.running \in Nat, [LabNext]_labVars
             PROVE  LabShape'
  OBVIOUS
<1>1. CASE PodsInterval
  BY <1>1 DEF PodsInterval, LabShape, trafficVars, sliderVars, scenarioVars
<1>2. CASE OnPayload
  BY <1>2 DEF OnPayload, LabShape, trafficVars, sliderVars, scenarioVars
<1>3. CASE Render
  BY <1>3 DEF Render, Commit, LabShape, trafficVars, sliderVars, scenarioVars
<1>4. CASE UNCHANGED labVars
  BY <1>4 DEF labVars, LabShape, trafficVars, sliderVars, scenarioVars
<1> QED
  BY <1>1, <1>2, <1>3, <1>4, VisitorShape, TickShape DEF LabNext

(* How far the story of a scenario left alone has come: its faults are on  *)
(* between the stages that raise and clear them, and its last stage has    *)
(* brought the traffic back. No leak is on, so no tick adds a crash.       *)
RestoreIInv ==
  scenario # "none" /\ touched = "no" =>
    /\ anomaly = "none"
    /\ scenario = "black_friday" =>
         /\ scenarioTimer \in 0..3 /\ faults = {}
         /\ scenarioTimer = 3 => mode = "normal" /\ rate = 100
    /\ scenario = "db_outage" =>
         /\ scenarioTimer \in 0..2 /\ faults \subseteq {"db"} /\ mode = "normal"
         /\ scenarioTimer = 0 => faults = {}
         /\ scenarioTimer = 2 => faults = {} /\ "db" \notin alerts
    /\ scenario = "viral_post" =>
         /\ scenarioTimer \in 0..2 /\ faults = {}
         /\ scenarioTimer = 2 => mode = "normal" /\ rate = 100
    /\ scenario = "ddos_attack" =>
         /\ scenarioTimer \in 0..3 /\ faults \subseteq {"auth", "timeout"}
         /\ scenarioTimer \in {0, 2, 3} => faults = {}
         /\ scenarioTimer = 3 => mode = "normal" /\ rate = 100 /\ "ddos" \notin alerts

(* What ScenarioRestores says of a step.                                   *)
Restored ==
  scenario # "none" /\ scenario' = "none" /\ touched' = "no"
    => /\ mode' = "normal" /\ faults' = {}
       /\ scenario # "db_outage" => rate' = 100
       /\ scenario = "db_outage" => "db" \notin alerts'
       /\ scenario = "ddos_attack" => "ddos" \notin alerts'

(* An action of the visitor is one that touches the scenario, or begins    *)
(* another from the start.                                                 *)
LEMMA VisitorTouches ==
  Visitor => \/ touched' = "yes"
             \/ /\ touched' = "no" /\ scenario' \in Scenarios /\ scenarioTimer' = 0
                /\ anomaly' = "none" /\ faults' = {} /\ mode' = "normal"
BY DEF Visitor, Click, TrafficButtons, ScenarioButtons, AbortButton, AnomalyButtons,
       ClearAnomaly, ChaosToggles, ClearFaults, HandleAddContainer, HandleRemoveContainer,
       AutoScalingButtons, Sliders, ResetAuto, TemplateButtons, RunScenario

(* Without a leak nothing is killed, and a tick does what the timeline     *)
(* says.                                                                   *)
LEMMA StoryGoesOn ==
  ASSUME LabShape, RestoreIInv, LabTick, scenario # "none", touched = "no"
  PROVE  RestoreIInv' /\ Restored
<1>1. PICK at \in Nat : at = Elapsed
  BY DEF Elapsed, LabShape
<1>2. PICK s : s = ScenarioStage(at)
  OBVIOUS
<1>3. ~OutOfMemory /\ anomaly' = anomaly /\ touched' = "no" /\ anomaly = "none"
  BY DEF RestoreIInv, OutOfMemory, Leaking, LabTick
<1>4. /\ scenarioTimer' = at /\ at = scenarioTimer + 1
      /\ scenario' = s.next /\ mode' = s.mode /\ rate' = s.rate
      /\ faults' \subseteq s.faults /\ alerts' = TickAlerts(s.alerts)
  BY <1>1, <1>2, <1>3 DEF LabTick, Elapsed
<1>5. \A m \in {"db", "ddos"} : m \notin s.alerts => m \notin alerts'
  BY <1>4 DEF TickAlerts
<1>6. scenarioTimer \in Nat /\ scenario \in Scenarios
  BY DEF LabShape
<1>7. CASE scenario = "black_friday"
  <2>1. s = BlackFriday(at) /\ scenarioTimer \in 0..3 /\ faults = {}
        /\ (scenarioTimer = 3 => mode = "normal" /\ rate = 100)
    BY <1>2, <1>7 DEF ScenarioStage, RestoreIInv
  <2>2. CASE at = 4
    BY <1>3, <1>4, <1>7, <2>1, <2>2 DEF BlackFriday, Over, Unchanged, Quiet, RestoreIInv, Restored
  <2>3. CASE at = 3
    BY <1>3, <1>4, <1>7, <2>1, <2>3
    DEF BlackFriday, Traffic, RateOf, Unchanged, Quiet, RestoreIInv, Restored
  <2>4. CASE at \in {1, 2}
    BY <1>3, <1>4, <1>7, <2>1, <2>4
    DEF BlackFriday, Traffic, RateOf, Unchanged, Quiet, RestoreIInv, Restored
  <2> QED
    BY <1>4, <2>1, <2>2, <2>3, <2>4
<1>8. CASE scenario = "viral_post"
  <2>1. s = ViralPost(at) /\ scenarioTimer \in 0..2 /\ faults = {}
        /\ (scenarioTimer = 2 => mode = "normal" /\ rate = 100)
    BY <1>2, <1>8 DEF ScenarioStage, RestoreIInv
  <2>2. CASE at = 3
    BY <1>3, <1>4, <1>8, <2>1, <2>2 DEF ViralPost, Over, Unchanged, Quiet, RestoreIInv, Restored
  <2>3. CASE at \in {1, 2}
    BY <1>3, <1>4, <1>8, <2>1, <2>3
    DEF ViralPost, Traffic, RateOf, Unchanged, Quiet, RestoreIInv, Restored
  <2> QED
    BY <1>4, <2>1, <2>2, <2>3
<1>9. CASE scenario = "db_outage"
  <2>1. /\ s = DbOutage(at) /\ scenarioTimer \in 0..2 /\ faults \subseteq {"db"} /\ mode = "normal"
        /\ scenarioTimer = 0 => faults = {}
        /\ scenarioTimer = 2 => faults = {} /\ "db" \notin alerts
    BY <1>2, <1>9 DEF ScenarioStage, RestoreIInv
  <2>2. CASE at = 3
    BY <1>3, <1>4, <1>5, <1>9, <2>1, <2>2 DEF DbOutage, Over, Unchanged, Quiet, RestoreIInv, Restored
  <2>3. CASE at = 2
    BY <1>3, <1>4, <1>5, <1>9, <2>1, <2>3 DEF DbOutage, Quiet, RestoreIInv, Restored
  <2>4. CASE at = 1
    BY <1>3, <1>4, <1>9, <2>1, <2>4 DEF DbOutage, Quiet, RestoreIInv, Restored
  <2> QED
    BY <1>4, <2>1, <2>2, <2>3, <2>4
<1>10. CASE scenario = "ddos_attack"
  <2>1. /\ s = DdosAttack(at) /\ scenarioTimer \in 0..3 /\ faults \subseteq {"auth", "timeout"}
        /\ scenarioTimer \in {0, 2, 3} => faults = {}
        /\ scenarioTimer = 3 => mode = "normal" /\ rate = 100 /\ "ddos" \notin alerts
    BY <1>2, <1>10 DEF ScenarioStage, RestoreIInv
  <2>2. CASE at = 4
    BY <1>3, <1>4, <1>5, <1>10, <2>1, <2>2
    DEF DdosAttack, Over, Unchanged, Quiet, RestoreIInv, Restored
  <2>3. CASE at = 3
    BY <1>3, <1>4, <1>5, <1>10, <2>1, <2>3 DEF DdosAttack, Quiet, RestoreIInv, Restored
  <2>4. CASE at = 2
    BY <1>3, <1>4, <1>10, <2>1, <2>4 DEF DdosAttack, Quiet, RestoreIInv, Restored
  <2>5. CASE at = 1
    BY <1>3, <1>4, <1>10, <2>1, <2>5 DEF DdosAttack, Quiet, RestoreIInv, Restored
  <2> QED
    BY <1>4, <2>1, <2>2, <2>3, <2>4, <2>5
<1> QED
  BY <1>6, <1>7, <1>8, <1>9, <1>10 DEF Scenarios

(* Everything but a tick leaves traffic, faults and alerts alone.          *)
LEMMA RestoreStep ==
  LabShape /\ RestoreIInv /\ [LabNext]_labVars => RestoreIInv' /\ [Restored]_labVars
<1> SUFFICES ASSUME LabShape, RestoreIInv, [LabNext]_labVars
             PROVE  RestoreIInv' /\ [Restored]_labVars
  OBVIOUS
<1>1. CASE Visitor
  <2>1. RestoreIInv'
    BY <1>1, VisitorTouches DEF RestoreIInv
  <2>2. Restored
    BY <1>1, VisitorTouches DEF Restored, Scenarios
  <2> QED
    BY <2>1, <2>2
<1>2. ASSUME UNCHANGED <<anomaly, scenario, scenarioTimer, faults, mode, rate, alerts, touched>>
      PROVE  RestoreIInv' /\ Restored
  <2>1. RestoreIInv'
    BY <1>2 DEF RestoreIInv
  <2> QED
    BY <1>2, <2>1 DEF Restored
<1>3. CASE PodsInterval \/ OnPayload \/ Render \/ UNCHANGED labVars
  BY <1>2, <1>3 DEF PodsInterval, OnPayload, Render, labVars, trafficVars, scenarioVars
<1>4. CASE LabTick
  <2>1. CASE scenario # "none" /\ touched = "no"
    BY <1>4, <2>1, StoryGoesOn
  <2>2. CASE scenario = "none"
    <3>1. scenario' = "none"
      BY <1>4, <2>2 DEF LabTick, ScenarioStage, Unchanged, Quiet
    <3> QED
      BY <2>2, <3>1 DEF RestoreIInv, Restored
  <2>3. CASE touched # "no"
    <3>1. touched' # "no"
      BY <1>4, <2>3 DEF LabTick
    <3> QED
      BY <3>1 DEF RestoreIInv, Restored
  <2> QED
    BY <2>1, <2>2, <2>3
<1> QED
  BY <1>1, <1>3, <1>4 DEF LabNext

-----------------------------------------------------------------------------
(* The studio and the playground.                                          *)

(* The mutating webhook adds defaults and overwrites nothing.              *)
LEMMA MutatedFields ==
  ASSUME NEW spec, NEW field \in DOMAIN spec
  PROVE  field \in DOMAIN Mutate(spec) /\ Mutate(spec)[field] = spec[field]
BY DEF Mutate, Read

(* What the admission chain asks of an autoscaler.                         *)
Sane(name, min, max, rps, headroom) ==
  /\ name # "blank" /\ Whole(min) /\ Whole(max)
  /\ min >= Halves(1) /\ max >= min /\ rps > 0 /\ headroom \in 100..500

(* For a manifest that names a Deployment and all the fields, being        *)
(* admitted is that.                                                       *)
LEMMA AdmittedMeans ==
  ASSUME NEW spec, spec.kind = "Deployment",
         {"name", "kind", "minReplicas", "maxReplicas", "targetRPSPerPod", "headroomFactor"}
           \subseteq DOMAIN spec,
         spec["minReplicas"] \in Int, spec["maxReplicas"] \in Int
  PROVE  Admitted(spec) <=>
           Sane(spec["name"], spec["minReplicas"], spec["maxReplicas"],
                spec["targetRPSPerPod"], spec["headroomFactor"])
<1> DEFINE m == Mutate(spec)
<1>1. /\ {"name", "kind", "minReplicas", "maxReplicas", "targetRPSPerPod", "headroomFactor"}
           \subseteq DOMAIN m
      /\ m["name"] = spec["name"] /\ m["kind"] = "Deployment"
      /\ m["minReplicas"] = spec["minReplicas"] /\ m["maxReplicas"] = spec["maxReplicas"]
      /\ m["targetRPSPerPod"] = spec["targetRPSPerPod"]
      /\ m["headroomFactor"] = spec["headroomFactor"]
  BY MutatedFields
<1> HIDE DEF m
<1>2. Validate(m) <=> Sane(spec["name"], spec["minReplicas"], spec["maxReplicas"],
                           spec["targetRPSPerPod"], spec["headroomFactor"])
  BY <1>1 DEF Validate, Read, Sane
<1>3. AutoscalerSchema(m) <=>
        /\ Whole(spec["minReplicas"]) /\ spec["minReplicas"] >= Halves(1)
        /\ Whole(spec["maxReplicas"]) /\ spec["maxReplicas"] >= Halves(1)
  BY <1>1 DEF AutoscalerSchema
<1>4. Halves(1) \in Int
  BY DEF Halves
<1> QED
  BY <1>2, <1>3, <1>4 DEF Admitted, m, Sane

(* The manifest of the studio is such a one.                               *)
LEMMA StudioAdmitted ==
  ASSUME NEW p, p.min \in Int, p.max \in Int
  PROVE  Admitted(AutoscalerManifest(p)) <=> Sane(p.name, p.min, p.max, p.rps, p.headroom)
<1> DEFINE spec == AutoscalerManifest(p)
<1>1. /\ {"name", "kind", "minReplicas", "maxReplicas", "targetRPSPerPod", "headroomFactor"}
           \subseteq DOMAIN spec
      /\ spec["name"] = p.name /\ spec["kind"] = "Deployment"
      /\ spec["minReplicas"] = p.min /\ spec["maxReplicas"] = p.max
      /\ spec["targetRPSPerPod"] = p.rps
      /\ spec["headroomFactor"] = p.headroom
  BY DEF AutoscalerManifest
<1> HIDE DEF spec
<1>2. Admitted(spec) <=>
           Sane(spec["name"], spec["minReplicas"], spec["maxReplicas"],
                spec["targetRPSPerPod"], spec["headroomFactor"])
  BY <1>1, AdmittedMeans
<1> QED
  BY <1>1, <1>2 DEF spec

(* And that of the playground.                                             *)
LEMMA FormAdmitted ==
  ASSUME NEW f, f.min \in Int, f.max \in Int
  PROVE  Admitted(AutoscalerYaml(f)) <=> Sane(f.name, f.min, f.max, f.rps, f.headroom)
<1> DEFINE spec == AutoscalerYaml(f)
<1>1. /\ {"name", "kind", "minReplicas", "maxReplicas", "targetRPSPerPod", "headroomFactor"}
           \subseteq DOMAIN spec
      /\ spec["name"] = f.name /\ spec["kind"] = "Deployment"
      /\ spec["minReplicas"] = f.min /\ spec["maxReplicas"] = f.max
      /\ spec["targetRPSPerPod"] = f.rps
      /\ spec["headroomFactor"] = f.headroom
  BY DEF AutoscalerYaml
<1> HIDE DEF spec
<1>2. Admitted(spec) <=>
           Sane(spec["name"], spec["minReplicas"], spec["maxReplicas"],
                spec["targetRPSPerPod"], spec["headroomFactor"])
  BY <1>1, AdmittedMeans
<1> QED
  BY <1>1, <1>2 DEF spec

(* The validator of the playground, without its list of messages.          *)
LEMMA ValidMeans ==
  ASSUME NEW f
  PROVE  Valid(f) <=> /\ f.name = "ok" /\ f.namespace = "ok"
                      /\ ~(f.min < Halves(1)) /\ ~(f.min > f.max)
                      /\ ~(f.headroom < 100) /\ ~(f.rps < 1)
BY DEF Valid, ValidationErrors

(* The policies the controls of the studio can set up: the sliders have    *)
(* their ranges, the bounds take any number of halves.                     *)
StudioPolicies ==
  [name : StudioNames, rps : 20..500, headroom : 100..200, min : Int, max : Int,
   lock : {"yes", "no"}, block : {"yes", "no"}]

(* The policy and the copied one are such policies.                        *)
StudioIInv ==
  /\ activeTab \in StudioTabs /\ rateLimitBackend \in StudioBackends
  /\ policy \in StudioPolicies
  /\ studioClipboard \in [tab : StudioTabs \cup {"none"}, of : StudioPolicies]
  /\ studioEdits \in 0..MaxStudioEdits

(* The policy the studio starts with.                                      *)
LEMMA StudioInitHolds == StudioInit => StudioIInv
BY StudioAssumption
DEF StudioInit, StudioIInv, StudioPolicies, StudioTabs, StudioBackends, StudioNames, Halves

(* The studio keeps its types.                                             *)
LEMMA StudioTyped == StudioIInv => StudioTypeOK
BY DEF StudioIInv, StudioTypeOK, PolicyTypeOK, StudioPolicies

(* The presets are policies.                                               *)
LEMMA PresetsArePolicies == Presets \subseteq StudioPolicies
BY DEF Presets, StudioPolicies, StudioNames, Halves

(* No control leaves its range.                                            *)
LEMMA StudioStep == StudioIInv /\ [StudioNext]_studioVars => StudioIInv'
<1> SUFFICES ASSUME StudioIInv, [StudioNext]_studioVars
             PROVE  StudioIInv'
  OBVIOUS
<1>0. Edit => studioEdits' \in 0..MaxStudioEdits
  BY StudioAssumption DEF Edit, StudioIInv
<1>1. ASSUME Edit, policy' \in StudioPolicies,
             UNCHANGED <<activeTab, rateLimitBackend, studioClipboard>>
      PROVE  StudioIInv'
  BY <1>0, <1>1 DEF StudioIInv
<1>2. ASSUME NEW preset \in Presets, ApplyPreset(preset)
      PROVE  StudioIInv'
  BY <1>1, <1>2, PresetsArePolicies DEF ApplyPreset
<1>3. CASE EditName
  <2>1. PICK name \in StudioNames : policy' = [policy EXCEPT !.name = name]
    BY <1>3 DEF EditName
  <2>2. policy' \in StudioPolicies
    BY <2>1 DEF StudioIInv, StudioPolicies
  <2> QED
    BY <1>1, <1>3, <2>2 DEF EditName
<1>4. CASE MoveSlider
  <2>1. policy' \in StudioPolicies
    BY <1>4, StudioAssumption DEF MoveSlider, StudioIInv, StudioPolicies
  <2> QED
    BY <1>1, <1>4, <2>1 DEF MoveSlider
<1>5. CASE EditBound
  <2>1. PICK n \in Int : policy' \in {[policy EXCEPT !.min = n], [policy EXCEPT !.max = n]}
    BY <1>5, StudioAssumption DEF EditBound
  <2>2. policy' \in StudioPolicies
    BY <2>1 DEF StudioIInv, StudioPolicies
  <2> QED
    BY <1>1, <1>5, <2>2 DEF EditBound
<1>6. CASE ToggleFlag
  <2>1. policy' \in StudioPolicies
    BY <1>6 DEF ToggleFlag, Opposite, StudioIInv, StudioPolicies
  <2> QED
    BY <1>1, <1>6, <2>1 DEF ToggleFlag
<1>7. CASE SelectStudioTab
  BY <1>7 DEF SelectStudioTab, StudioIInv
<1>8. CASE SelectBackend
  BY <1>8 DEF SelectBackend, StudioIInv
<1>9. CASE CopyManifest
  BY <1>9 DEF CopyManifest, StudioIInv
<1>10. CASE UNCHANGED studioVars
  BY <1>10 DEF studioVars, StudioIInv
<1> QED
  BY <1>2, <1>3, <1>4, <1>5, <1>6, <1>7, <1>8, <1>9, <1>10 DEF StudioNext

(* The badge asks for the name and the bounds, which is what the sliders   *)
(* leave open.                                                             *)
LEMMA BadgeHolds == StudioIInv => BadgeIsEarned
<1> SUFFICES ASSUME StudioIInv
             PROVE  BadgeIsEarned
  OBVIOUS
<1>1. /\ policy.min \in Int /\ policy.max \in Int
      /\ policy.rps \in 20..500 /\ policy.headroom \in 100..200
  BY DEF StudioIInv, StudioPolicies
<1>2. ThreatSchema(ThreatManifest(policy)) <=>
        policy.min <= Halves(6) \/ Whole(policy.min)
  <2>1. ThreatSchema(ThreatManifest(policy)) <=> Whole(LockFloor(policy.min))
    BY DEF ThreatSchema, ThreatManifest, Read
  <2>2. Halves(6) \in Int /\ Whole(Halves(6))
    BY DEF Halves, Whole
  <2> QED
    BY <1>1, <2>1, <2>2 DEF LockFloor
<1>3. Sane(policy.name, policy.min, policy.max, policy.rps, policy.headroom) <=>
        /\ policy.name # "blank"
        /\ Halves(1) <= policy.min /\ policy.min <= policy.max
        /\ Whole(policy.min) /\ Whole(policy.max)
  <2>1. Halves(1) \in Int
    BY DEF Halves
  <2> QED
    BY <1>1, <2>1 DEF Sane
<1> QED
  BY <1>1, <1>2, <1>3, StudioAdmitted DEF BadgeIsEarned

(* A factor of at least a hundred percent, rounded, takes nothing away.    *)
LEMMA RoundedUp ==
  ASSUME NEW n \in Nat, NEW factor \in Nat, factor >= 100
  PROVE  Rounded(n, factor) \in Nat /\ Rounded(n, factor) >= n
<1>1. PICK d \in Nat : factor = 100 + d
  <2>1. factor - 100 \in Nat /\ factor = 100 + (factor - 100)
    OBVIOUS
  <2> QED
    BY <2>1
<1>2. n * d \in Nat /\ n * factor = n * 100 + n * d
  BY <1>1
<1>3. PICK rest \in Nat : n * factor = 100 * n + rest
  BY <1>2
<1> HIDE DEF Rounded
<1>4. Rounded(n, factor) = (100 * n + rest + 50) \div 100
  BY <1>3 DEF Rounded
<1> QED
  BY <1>4

(* Nor does a factor of at least one.                                      *)
LEMMA TimesGrows ==
  ASSUME NEW n \in Nat, NEW r \in Nat, r >= 1
  PROVE  n * r >= n
<1>1. PICK d \in Nat : r = 1 + d
  <2>1. r - 1 \in Nat /\ r = 1 + (r - 1)
    OBVIOUS
  <2> QED
    BY <2>1
<1>2. n * d \in Nat /\ n * r = n + n * d
  BY <1>1
<1> QED
  BY <1>2

(* Three ways to write a limit: the same rate, and a burst that is no less.*)
LEMMA BackendsHold == StudioIInv => BackendsAgree
<1> SUFFICES ASSUME StudioIInv, NEW backend \in {"nginx", "envoy", "traefik"}
             PROVE  /\ RateLimitManifest(policy, backend).rate = policy.rps
                    /\ RateLimitManifest(policy, backend).burst >= policy.rps
  BY DEF BackendsAgree, StudioBackends, RateLimitManifest
<1>1. policy.rps \in Nat /\ policy.headroom \in Nat /\ policy.headroom >= 100
  BY DEF StudioIInv, StudioPolicies
<1>2. CASE backend = "nginx"
  <2>1. Rounded(2, policy.headroom) \in Nat /\ Rounded(2, policy.headroom) >= 2
    BY <1>1, RoundedUp
  <2>2. policy.rps * Rounded(2, policy.headroom) >= policy.rps
    BY <1>1, <2>1, TimesGrows
  <2>3. RateLimitManifest(policy, backend) =
          [rate |-> policy.rps, burst |-> policy.rps * Rounded(2, policy.headroom)]
    BY <1>2, Zenon DEF RateLimitManifest
  <2> QED
    BY <2>2, <2>3
<1>3. CASE backend = "envoy"
  BY <1>1, <1>3 DEF RateLimitManifest
<1>4. CASE backend = "traefik"
  <2>1. Rounded(policy.rps, policy.headroom) >= policy.rps
    BY <1>1, RoundedUp
  <2> QED
    BY <1>4, <2>1 DEF RateLimitManifest
<1> QED
  BY <1>2, <1>3, <1>4

(* Every preset is admitted and locks within its own bounds.               *)
LEMMA PresetsAreSound ==
  ASSUME NEW preset \in Presets
  PROVE  /\ Admitted(AutoscalerManifest(preset))
         /\ ThreatManifest(preset).lockMinReplicas <= preset.max
<1>1. preset.min \in Int /\ preset.max \in Int
  BY DEF Presets, Halves
<1>2. Sane(preset.name, preset.min, preset.max, preset.rps, preset.headroom)
  BY DEF Presets, Sane, Halves, Whole
<1>3. ThreatManifest(preset).lockMinReplicas <= preset.max
  BY DEF Presets, ThreatManifest, LockFloor, Halves
<1> QED
  BY <1>1, <1>2, <1>3, StudioAdmitted

(* Several fields change only by a preset.                                 *)
LEMMA PresetStep ==
  StudioIInv /\ [StudioNext]_studioVars =>
    [(\E f, g \in DOMAIN policy :
        f # g /\ policy'[f] # policy[f] /\ policy'[g] # policy[g])
       => /\ Admitted(AutoscalerManifest(policy'))
          /\ ThreatManifest(policy').lockMinReplicas <= policy'.max]_studioVars
<1> SUFFICES ASSUME StudioIInv, StudioNext,
                    NEW f \in DOMAIN policy, NEW g \in DOMAIN policy,
                    f # g, policy'[f] # policy[f], policy'[g] # policy[g]
             PROVE  /\ Admitted(AutoscalerManifest(policy'))
                    /\ ThreatManifest(policy').lockMinReplicas <= policy'.max
  OBVIOUS
<1>1. ASSUME NEW field, NEW value
      PROVE  policy' # [policy EXCEPT ![field] = value]
  OBVIOUS
<1>2. ~EditName
  BY <1>1 DEF EditName
<1>3. ~MoveSlider
  BY <1>1 DEF MoveSlider
<1>4. ~EditBound
  BY <1>1 DEF EditBound
<1>5. ~ToggleFlag
  BY <1>1 DEF ToggleFlag
<1>6. policy' # policy
  OBVIOUS
<1>7. PICK preset \in Presets : ApplyPreset(preset)
  BY <1>2, <1>3, <1>4, <1>5, <1>6 DEF StudioNext, SelectStudioTab, SelectBackend, CopyManifest
<1> QED
  BY <1>7, PresetsAreSound DEF ApplyPreset

(* What the fields of the playground can hold.                             *)
Forms ==
  [name : FormNames, namespace : FormNames, min : Int, max : Int, rps : 20..500,
   headroom : 100..250, cooldown : [up : Int, down : Int], lock : Flags, quarantine : Flags]

(* What was exported passed the validator.                                 *)
FormIInv ==
  /\ policyType \in PolicyTypes /\ form \in Forms
  /\ exported \in [type : PolicyTypes \cup {"none"}, of : Forms]
  /\ exported.type # "none" => Valid(exported.of)
  /\ formEdits \in 0..MaxFormEdits

(* The form the playground starts with.                                    *)
LEMMA FormInitHolds == FormInit => FormIInv
BY FormAssumption DEF FormInit, FormIInv, Forms, FormNames, Flags, PolicyTypes, Halves

(* The playground keeps its types.                                         *)
LEMMA FormTyped == FormIInv => FormTypeOK
BY DEF FormIInv, FormTypeOK, Forms

(* An export is refused while the form has errors.                         *)
LEMMA FormStep == FormIInv /\ [FormNext]_formVars => FormIInv'
<1> SUFFICES ASSUME FormIInv, [FormNext]_formVars
             PROVE  FormIInv'
  OBVIOUS
<1>1. ASSUME NEW edited \in SUBSET Forms, FormEdit(edited)
      PROVE  FormIInv'
  BY <1>1, FormAssumption DEF FormEdit, FormIInv
<1>f. form \in Forms
  BY DEF FormIInv
<1>2. CASE TypeFormName
  <2>1. \A n \in FormNames : [form EXCEPT !.name = n] \in Forms /\ [form EXCEPT !.namespace = n] \in Forms
    BY <1>f DEF Forms
  <2> QED
    BY <1>1, <1>2, <2>1 DEF TypeFormName
<1>3. CASE TypeBound
  <2>1. \A n \in FormCounts : [form EXCEPT !.min = n] \in Forms /\ [form EXCEPT !.max = n] \in Forms
    BY <1>f, FormAssumption DEF Forms
  <2> QED
    BY <1>1, <1>3, <2>1 DEF TypeBound
<1>4. CASE TypeCooldown
  <2>1. \A n \in FormCounts :
          [form EXCEPT !.cooldown.up = n] \in Forms /\ [form EXCEPT !.cooldown.down = n] \in Forms
    BY <1>f, FormAssumption DEF Forms
  <2> QED
    BY <1>1, <1>4, <2>1 DEF TypeCooldown
<1>5. CASE MoveFormSlider
  <2>1. /\ \A r \in FormRates : [form EXCEPT !.rps = r] \in Forms
        /\ \A h \in FormHeadrooms : [form EXCEPT !.headroom = h] \in Forms
    BY <1>f, FormAssumption DEF Forms
  <2> QED
    BY <1>1, <1>5, <2>1 DEF MoveFormSlider
<1>6. CASE TickFormFlag
  <2>1. \A b \in Flags : [form EXCEPT !.lock = b] \in Forms /\ [form EXCEPT !.quarantine = b] \in Forms
    BY <1>f DEF Forms
  <2> QED
    BY <1>1, <1>6, <2>1 DEF TickFormFlag
<1>7. CASE SelectPolicyType
  BY <1>7 DEF SelectPolicyType, FormIInv
<1>8. CASE Export
  BY <1>8 DEF Export, FormIInv
<1>9. CASE UNCHANGED formVars
  BY <1>9 DEF formVars, FormIInv
<1> QED
  BY <1>2, <1>3, <1>4, <1>5, <1>6, <1>7, <1>8, <1>9 DEF FormNext

(* Among the forms with proper names the admitted ones are the valid ones  *)
(* of whole bounds.                                                        *)
LEMMA ValidIsAdmitted ==
  ASSUME NEW f \in Forms, f.name = "ok", f.namespace = "ok"
  PROVE  Admitted(AutoscalerYaml(f)) <=> Valid(f) /\ Whole(f.min) /\ Whole(f.max)
<1>1. /\ f.min \in Int /\ f.max \in Int /\ f.rps \in 20..500 /\ f.headroom \in 100..250
      /\ Halves(1) \in Int
  BY DEF Forms, Halves
<1> QED
  BY <1>1, FormAdmitted, ValidMeans DEF Sane

(* So what is exported is admitted if its bounds are whole, and its other  *)
(* manifests follow the form.                                              *)
LEMMA FormIsSound == FormIInv => ValidatorAgreesWithWebhook /\ ExportsAreSound
<1> SUFFICES ASSUME FormIInv
             PROVE  ValidatorAgreesWithWebhook /\ ExportsAreSound
  OBVIOUS
<1>1. ValidatorAgreesWithWebhook
  BY ValidIsAdmitted DEF FormIInv, ValidatorAgreesWithWebhook
<1> DEFINE f == exported.of
<1>2. f \in Forms /\ exported.type \in PolicyTypes \cup {"none"}
      /\ (exported.type # "none" => Valid(f))
  BY DEF FormIInv
<1>3. exported.type # "none" =>
        (Admitted(AutoscalerYaml(f)) <=> Whole(f.min) /\ Whole(f.max))
  <2>1. Valid(f) => f.name = "ok" /\ f.namespace = "ok"
    BY ValidMeans
  <2> QED
    BY <1>2, <2>1, ValidIsAdmitted
<1>4. f.min \in Int /\ f.rps \in Nat
  BY <1>2 DEF Forms
<1>5. /\ ThreatYaml(f).lockdownMinimumReplicas >= f.min
      /\ ~ThreatSchema(ThreatYaml(f))
  BY <1>4 DEF ThreatYaml, ThreatSchema, LockFloor, Halves
<1>6. RateLimitYaml(f).rate >= f.rps
  BY <1>4, RoundedUp DEF RateLimitYaml
<1> HIDE DEF f
<1>7. ExportsAreSound
  BY <1>2, <1>3, <1>5, <1>6 DEF ExportsAreSound, PolicyTypes, f
<1> QED
  BY <1>1, <1>7

-----------------------------------------------------------------------------
(* The daemon's file tailer.                                               *)

(* Among the subsets of a finite set that share a property, one has none of*)
(* them below it.                                                          *)
LEMMA MinimalSubset ==
  ASSUME NEW S, IsFiniteSet(S), NEW Bad \in SUBSET (SUBSET S), Bad # {}
  PROVE  \E s \in Bad : \A t \in Bad : ~(t \subseteq s /\ t # s)
<1>1. Bad \subseteq FiniteSubsetsOf(S)
  BY FS_FiniteSubsetsOfFinite
<1>2. \E s \in Bad : \A t \in Bad : ~(<<t, s>> \in StrictSubsetOrdering(S))
  BY <1>1, WFMin, FS_StrictSubsetOrderingWellFounded
<1>3. \A s, t \in SUBSET S : t \subseteq s /\ t # s => <<t, s>> \in StrictSubsetOrdering(S)
  BY DEF StrictSubsetOrdering
<1> QED
  BY <1>2, <1>3

(* So a set of indices has a first one.                                    *)
LEMMA FirstIn ==
  ASSUME NEW n \in Nat, NEW S \in SUBSET (1..n), S # {}
  PROVE  \E k \in S : \A j \in S : k <= j
<1> DEFINE All == 1..n
           Starts == {s \in SUBSET All : \E k \in S : s = 1..k}
<1>1. PICK h \in S : TRUE
  OBVIOUS
<1>2. 1..h \in Starts /\ IsFiniteSet(All)
  BY <1>1, FS_Interval
<1>0. Starts \in SUBSET (SUBSET All) /\ Starts # {}
  BY <1>2
<1>3. PICK s \in Starts : \A t \in Starts : ~(t \subseteq s /\ t # s)
  <2> HIDE DEF Starts, All
  <2> QED
    BY <1>0, <1>2, MinimalSubset
<1>4. PICK k \in S : s = 1..k
  BY <1>3
<1>5. ASSUME NEW j \in S, ~(k <= j)
      PROVE  FALSE
  <2>1. 1..j \in Starts /\ k \in Int /\ j \in Int
    OBVIOUS
  <2>2. 1..j \subseteq 1..k /\ 1..j # 1..k
    <3>1. k \in 1..k /\ k \notin 1..j
      BY <1>5, <2>1
    <3> QED
      BY <1>5, <2>1, <3>1
  <2> QED
    BY <1>3, <1>4, <2>1, <2>2
<1> QED
  BY <1>5

(* The order in which the pieces were written.                             *)
Rank(piece) == 2 * piece.line + (IF piece.part = "rest" THEN 1 ELSE 0)

(* A sequence of pieces in that order.                                     *)
InOrder(s) == \A j, k \in 1..Len(s) : j < k => Rank(s[j]) < Rank(s[k])

(* Everything in s was written before everything in t.                     *)
Precedes(s, t) == \A j \in 1..Len(s), k \in 1..Len(t) : Rank(s[j]) < Rank(t[k])

(* Nothing in s was written after the piece of that rank.                  *)
UpTo(s, rank) == \A j \in 1..Len(s) : Rank(s[j]) <= rank

(* The calls of ProcessLine, piece by piece, in that order.                *)
CallsInOrder(calls) ==
  /\ \A c \in 1..Len(calls) : InOrder(calls[c])
  /\ \A c, d \in 1..Len(calls) : c < d => Precedes(calls[c], calls[d])

(* s was read before what the reader has not read of the file.             *)
Ahead(s, file, taken) ==
  \A j \in 1..Len(s), k \in taken + 1 .. Len(file) : Rank(s[j]) < Rank(file[k])

(* The rank of the newest piece there can be: the head of an unfinished    *)
(* line, or the end of the last one.                                       *)
Top == IF MidLine THEN 2 * lines ELSE 2 * lines + 1

(* ProcessLine is never called with nothing.                               *)
Call == Seq(Pieces) \ {<<>>}

(* A piece is known by its rank.                                           *)
LEMMA PieceRank ==
  ASSUME NEW p \in Pieces
  PROVE  /\ Rank(p) \in Nat /\ p.line \in 1..MaxLines /\ p.part \in {"head", "rest"}
         /\ p.part = "head" => p = Head1(p.line) /\ Rank(p) = 2 * p.line
         /\ p.part = "rest" => p = Rest(p.line) /\ Rank(p) = 2 * p.line + 1
BY TailerAssumption DEF Pieces, Head1, Rest, Rank

(* u is n places of s, behind the first m.                                 *)
IsCut(u, s, m, n) ==
  /\ u \in Seq(Pieces) /\ Len(u) = n
  /\ \A i \in 1..n : u[i] = s[m + i] /\ m + i \in 1..Len(s)

(* What SubSeq returns, index by index.                                    *)
LEMMA SubSeqIsCut ==
  ASSUME NEW s \in Seq(Pieces), NEW m \in Nat, NEW n \in Nat, m + n <= Len(s)
  PROVE  IsCut(SubSeq(s, m + 1, m + n), s, m, n)
<1> DEFINE u == SubSeq(s, m + 1, m + n)
<1>0. m + 1 \in Int /\ m + n \in Int /\ m + n - (m + 1) + 1 = n
      /\ (m + 1 <= m + n <=> n # 0)
  OBVIOUS
<1>1. \A i \in m + 1 .. m + n : s[i] \in Pieces
  <2> SUFFICES ASSUME NEW i \in m + 1 .. m + n
               PROVE  s[i] \in Pieces
    OBVIOUS
  <2>1. i \in 1..Len(s)
    OBVIOUS
  <2> QED
    BY <2>1, ElementOfSeq
<1>2. /\ u \in Seq(Pieces)
      /\ Len(u) = IF m + 1 <= m + n THEN m + n - (m + 1) + 1 ELSE 0
      /\ \A i \in 1 .. m + n - (m + 1) + 1 : u[i] = s[m + 1 + i - 1]
  BY <1>0, <1>1, SubSeqProperties
<1> HIDE DEF u
<1>3. Len(u) = n
  BY <1>0, <1>2
<1>4. ASSUME NEW i \in 1..n
      PROVE  u[i] = s[m + i] /\ m + i \in 1..Len(s)
  <2>1. m + 1 + i - 1 = m + i /\ m + i \in 1..Len(s)
    OBVIOUS
  <2> QED
    BY <1>0, <1>2, <2>1
<1> QED
  BY <1>2, <1>3, <1>4 DEF IsCut, u

(* u is s with t behind it.                                                *)
IsJoin(u, s, t) ==
  /\ u \in Seq(Pieces) /\ Len(u) = Len(s) + Len(t)
  /\ \A i \in 1..Len(s) : u[i] = s[i] /\ i \in 1..Len(u)
  /\ \A i \in 1..Len(t) : u[Len(s) + i] = t[i] /\ Len(s) + i \in 1..Len(u)
  /\ \A k \in 1..Len(u) : k \in 1..Len(s) \/ \E i \in 1..Len(t) : k = Len(s) + i

(* What a concatenation is, index by index.                                *)
LEMMA ConcatIsJoin ==
  ASSUME NEW s \in Seq(Pieces), NEW t \in Seq(Pieces)
  PROVE  IsJoin(s \o t, s, t)
<1>0. Len(s) \in Nat /\ Len(t) \in Nat
  OBVIOUS
<1>1. /\ s \o t \in Seq(Pieces)
      /\ Len(s \o t) = Len(s) + Len(t)
      /\ \A i \in 1 .. Len(s) + Len(t) : (s \o t)[i] =
           IF i <= Len(s) THEN s[i] ELSE t[i - Len(s)]
  BY ConcatProperties
<1>2. \A i \in 1..Len(s) : (s \o t)[i] = s[i] /\ i \in 1..Len(s \o t)
  BY <1>0, <1>1
<1>3. ASSUME NEW i \in 1..Len(t)
      PROVE  (s \o t)[Len(s) + i] = t[i] /\ Len(s) + i \in 1..Len(s \o t)
  <2>1. Len(s) + i \in 1..Len(s) + Len(t) /\ ~(Len(s) + i <= Len(s)) /\ Len(s) + i - Len(s) = i
    BY <1>0
  <2> QED
    BY <1>1, <2>1
<1>4. ASSUME NEW k \in 1..Len(s \o t)
      PROVE  k \in 1..Len(s) \/ \E i \in 1..Len(t) : k = Len(s) + i
  <2>1. k \in 1..Len(s) \/ (k - Len(s) \in 1..Len(t) /\ k = Len(s) + (k - Len(s)))
    BY <1>0, <1>1
  <2> QED
    BY <2>1
<1> QED
  BY <1>1, <1>2, <1>3, <1>4 DEF IsJoin

(* Pieces behind older pieces: in order, and ahead of or behind whatever   *)
(* both parts are.                                                         *)
LEMMA JoinInOrder ==
  ASSUME NEW s \in Seq(Pieces), NEW t \in Seq(Pieces), NEW u, IsJoin(u, s, t)
  PROVE  /\ InOrder(s) /\ InOrder(t) /\ Precedes(s, t) => InOrder(u)
         /\ \A r : UpTo(s, r) /\ UpTo(t, r) => UpTo(u, r)
         /\ \A x : Precedes(x, s) /\ Precedes(x, t) => Precedes(x, u)
<1>0. Len(s) \in Nat /\ Len(t) \in Nat
  OBVIOUS
<1>1. ASSUME InOrder(s), InOrder(t), Precedes(s, t),
             NEW j \in 1..Len(u), NEW k \in 1..Len(u), j < k
      PROVE  Rank(u[j]) < Rank(u[k])
  <2>1. CASE k \in 1..Len(s)
    <3>1. j \in 1..Len(s)
      BY <1>0, <1>1, <2>1
    <3> QED
      BY <1>1, <2>1, <3>1 DEF IsJoin, InOrder
  <2>2. ASSUME NEW i \in 1..Len(t), k = Len(s) + i
        PROVE  Rank(u[j]) < Rank(u[k])
    <3>1. u[k] = t[i]
      BY <2>2 DEF IsJoin
    <3>2. CASE j \in 1..Len(s)
      BY <1>1, <3>1, <3>2 DEF IsJoin, Precedes
    <3>3. ASSUME NEW h \in 1..Len(t), j = Len(s) + h
          PROVE  Rank(u[j]) < Rank(u[k])
      <4>1. h < i /\ u[j] = t[h]
        BY <1>0, <1>1, <2>2, <3>3 DEF IsJoin
      <4> QED
        BY <1>1, <3>1, <4>1 DEF InOrder
    <3> QED
      BY <3>2, <3>3 DEF IsJoin
  <2> QED
    BY <2>1, <2>2 DEF IsJoin
<1>2. ASSUME NEW r, UpTo(s, r), UpTo(t, r)
      PROVE  UpTo(u, r)
  <2> SUFFICES ASSUME NEW k \in 1..Len(u)
               PROVE  Rank(u[k]) <= r
    BY DEF UpTo
  <2>1. \/ k \in 1..Len(s) /\ u[k] = s[k]
        \/ \E i \in 1..Len(t) : u[k] = t[i]
    BY DEF IsJoin
  <2> QED
    BY <1>2, <2>1 DEF UpTo
<1>3. ASSUME NEW x, Precedes(x, s), Precedes(x, t)
      PROVE  Precedes(x, u)
  <2> SUFFICES ASSUME NEW j \in 1..Len(x), NEW k \in 1..Len(u)
               PROVE  Rank(x[j]) < Rank(u[k])
    BY DEF Precedes
  <2>1. \/ k \in 1..Len(s) /\ u[k] = s[k]
        \/ \E i \in 1..Len(t) : u[k] = t[i]
    BY DEF IsJoin
  <2> QED
    BY <1>3, <2>1 DEF Precedes
<1> QED
  BY <1>1, <1>2, <1>3 DEF InOrder

(* A part of what is in order is in order.                                 *)
LEMMA CutInOrder ==
  ASSUME NEW s \in Seq(Pieces), NEW m \in Nat, NEW n \in Nat, NEW u, IsCut(u, s, m, n)
  PROVE  /\ InOrder(s) => InOrder(u)
         /\ \A r : UpTo(s, r) => UpTo(u, r)
         /\ \A x : Precedes(x, s) => Precedes(x, u)
         /\ \A x : Precedes(s, x) => Precedes(u, x)
<1>1. Len(u) = n /\ \A i \in 1..Len(u) : u[i] = s[m + i] /\ m + i \in 1..Len(s)
  BY DEF IsCut
<1>2. ASSUME InOrder(s), NEW j \in 1..Len(u), NEW k \in 1..Len(u), j < k
      PROVE  Rank(u[j]) < Rank(u[k])
  <2>1. m + j < m + k
    BY <1>1, <1>2
  <2> QED
    BY <1>1, <1>2, <2>1 DEF InOrder
<1> QED
  BY <1>1, <1>2 DEF InOrder, UpTo, Precedes

(* One more call, after all the others.                                    *)
LEMMA CallsGrow ==
  ASSUME NEW calls \in Seq(Call), NEW s \in Call, CallsInOrder(calls), InOrder(s),
         \A c \in 1..Len(calls) : Precedes(calls[c], s)
  PROVE  /\ Append(calls, s) \in Seq(Call) /\ CallsInOrder(Append(calls, s))
         /\ \A c \in 1..Len(Append(calls, s)) :
              \/ c \in 1..Len(calls) /\ Append(calls, s)[c] = calls[c]
              \/ Append(calls, s)[c] = s
<1> DEFINE more == Append(calls, s)
<1>1. /\ more \in Seq(Call) /\ Len(calls) \in Nat /\ Len(more) = Len(calls) + 1
      /\ \A c \in 1..Len(calls) : more[c] = calls[c]
      /\ more[Len(calls) + 1] = s
  BY AppendProperties
<1> HIDE DEF more
<1>2. \A c \in 1..Len(more) : c \in 1..Len(calls) \/ c = Len(calls) + 1
  BY <1>1
<1>3. ASSUME NEW c \in 1..Len(more)
      PROVE  InOrder(more[c])
  BY <1>1, <1>2 DEF CallsInOrder
<1>4. ASSUME NEW c \in 1..Len(more), NEW d \in 1..Len(more), c < d
      PROVE  Precedes(more[c], more[d])
  <2>1. c \in 1..Len(calls)
    BY <1>1, <1>2, <1>4
  <2>2. CASE d \in 1..Len(calls)
    BY <1>1, <1>4, <2>1, <2>2 DEF CallsInOrder
  <2>3. CASE d = Len(calls) + 1
    BY <1>1, <2>1, <2>3
  <2> QED
    BY <1>2, <2>2, <2>3
<1> QED
  BY <1>1, <1>2, <1>3, <1>4 DEF CallsInOrder, more

(* Handed on, in the buffer, not read yet: each was written before the     *)
(* next, no piece is in two of them, and the newest of them all is the     *)
(* newest that was written. It is what a new line needs to find its place  *)
(* behind everything.                                                      *)
OrderIInv ==
  /\ tailed \in Seq(Pieces) /\ successor \in Seq(Pieces) /\ buffer \in Seq(Pieces)
  /\ handed \in Seq(Call) /\ offset \in Nat /\ lines \in 0..MaxLines
  /\ MidLine => Log[Len(Log)] = Head1(lines)
  /\ UpTo(tailed, Top) /\ UpTo(successor, Top) /\ UpTo(buffer, Top)
  /\ \A c \in Calls : UpTo(handed[c], Top)
  /\ InOrder(tailed) /\ InOrder(successor) /\ InOrder(buffer) /\ CallsInOrder(handed)
  /\ \A c \in Calls : Precedes(handed[c], buffer)
  /\ Ahead(buffer, tailed, offset)
  /\ \A c \in Calls : Ahead(handed[c], tailed, offset)

(* Nothing is in any order.                                                *)
LEMMA EmptyInOrder ==
  /\ <<>> \in Seq(Pieces) /\ InOrder(<<>>) /\ CallsInOrder(<<>>)
  /\ \A r : UpTo(<<>>, r)
  /\ \A x : Precedes(x, <<>>)
  /\ \A file, taken : Ahead(<<>>, file, taken)
  /\ \A x : \A taken \in Nat : Ahead(x, <<>>, taken)
BY DEF InOrder, CallsInOrder, UpTo, Precedes, Ahead

(* At first there is neither a log nor a reader.                           *)
LEMMA OrderInitHolds == TailerInit => OrderIInv
<1> SUFFICES ASSUME TailerInit
             PROVE  OrderIInv
  OBVIOUS
<1>1. /\ tailed = <<>> /\ successor = <<>> /\ buffer = <<>> /\ handed = <<>>
      /\ offset = 0 /\ lines = 0 /\ rotation = {}
  BY DEF TailerInit
<1>2. lines \in 0..MaxLines /\ Calls = {}
  BY <1>1, TailerAssumption DEF Calls
<1>3. ~MidLine
  BY <1>1 DEF MidLine, Log
<1> QED
  BY <1>1, <1>2, <1>3, EmptyInOrder DEF OrderIInv

(* Nothing of the file changes but what the reader has of it.              *)
LEMMA ReadingKeepsTop ==
  ASSUME UNCHANGED fileVars
  PROVE  Top' = Top /\ MidLine' = MidLine /\ Log' = Log
BY DEF fileVars, Top, MidLine, Log

(* What the invariant asks of a step of the reader.                        *)
LEMMA ReadHolds ==
  ASSUME OrderIInv, UNCHANGED fileVars,
         buffer' \in Seq(Pieces), handed' \in Seq(Call), offset' \in Nat,
         UpTo(buffer', Top), \A c \in Calls' : UpTo(handed'[c], Top),
         InOrder(buffer'), CallsInOrder(handed'),
         \A c \in Calls' : Precedes(handed'[c], buffer'),
         Ahead(buffer', tailed, offset'),
         \A c \in Calls' : Ahead(handed'[c], tailed, offset')
  PROVE  OrderIInv'
<1>1. UNCHANGED <<tailed, successor, lines, Top, MidLine, Log>>
  BY ReadingKeepsTop DEF fileVars
<1> QED
  BY <1>1 DEF OrderIInv

(* Pieces behind everything there is.                                      *)
LEMMA GrowHolds ==
  ASSUME OrderIInv, NEW new \in Seq(Pieces), AppendToLog(new),
         InOrder(new), \A j \in 1..Len(new) : Rank(new[j]) > Top,
         UpTo(new, Top'), Top \in Nat, Top' \in Nat, Top <= Top',
         UNCHANGED <<readerVars, rotation>>, lines' \in 0..MaxLines,
         MidLine' => Log'[Len(Log')] = Head1(lines')
  PROVE  OrderIInv'
<1>1. UNCHANGED <<offset, buffer, handed>>
  BY DEF readerVars
<1>2. ASSUME NEW s \in Seq(Pieces), UpTo(s, Top)
      PROVE  UpTo(s, Top') /\ Precedes(s, new)
  <2> SUFFICES ASSUME NEW j \in 1..Len(s)
               PROVE  Rank(s[j]) <= Top' /\ \A k \in 1..Len(new) : Rank(s[j]) < Rank(new[k])
    BY DEF UpTo, Precedes
  <2>1. Rank(s[j]) \in Nat /\ Rank(s[j]) <= Top
    BY <1>2, PieceRank, ElementOfSeq DEF UpTo
  <2>2. \A k \in 1..Len(new) : Rank(new[k]) \in Nat
    BY PieceRank, ElementOfSeq
  <2> QED
    BY <2>1, <2>2
<1>3. ASSUME NEW s \in Seq(Pieces), UpTo(s, Top), InOrder(s)
      PROVE  /\ s \o new \in Seq(Pieces) /\ InOrder(s \o new) /\ UpTo(s \o new, Top')
             /\ IsJoin(s \o new, s, new)
  BY <1>2, <1>3, ConcatIsJoin, JoinInOrder DEF IsJoin
<1>4. \A c \in Calls : handed[c] \in Seq(Pieces)
  BY ElementOfSeq DEF OrderIInv, Calls, Call
<1>5. /\ \A c \in Calls : UpTo(handed[c], Top')
      /\ UpTo(buffer, Top') /\ UpTo(tailed, Top') /\ UpTo(successor, Top')
  BY <1>2, <1>4 DEF OrderIInv
<1>6. CASE "renamed" \in rotation
  <2>1. tailed' = tailed /\ successor' = successor \o new
    BY <1>6 DEF AppendToLog
  <2>2. successor' \in Seq(Pieces) /\ InOrder(successor') /\ UpTo(successor', Top')
    BY <1>3, <2>1 DEF OrderIInv
  <2> QED
    BY <1>1, <1>5, <2>1, <2>2 DEF OrderIInv, Calls
<1>7. CASE "renamed" \notin rotation
  <2>1. successor' = successor /\ tailed' = tailed \o new
    BY <1>7 DEF AppendToLog
  <2>2. /\ tailed' \in Seq(Pieces) /\ InOrder(tailed') /\ UpTo(tailed', Top')
        /\ IsJoin(tailed', tailed, new)
    BY <1>3, <2>1 DEF OrderIInv
  <2>3. ASSUME NEW s \in Seq(Pieces), UpTo(s, Top), Ahead(s, tailed, offset)
        PROVE  Ahead(s, tailed', offset)
    <3> SUFFICES ASSUME NEW j \in 1..Len(s), NEW k \in offset + 1 .. Len(tailed')
                 PROVE  Rank(s[j]) < Rank(tailed'[k])
      BY DEF Ahead
    <3>1. offset \in Nat /\ k \in 1..Len(tailed') /\ Len(tailed) \in Nat
      BY <2>2 DEF OrderIInv
    <3>2. CASE k \in 1..Len(tailed)
      <4>1. k \in offset + 1 .. Len(tailed) /\ tailed'[k] = tailed[k]
        BY <2>2, <3>1, <3>2 DEF IsJoin
      <4> QED
        BY <2>3, <4>1 DEF Ahead
    <3>3. ASSUME NEW i \in 1..Len(new), tailed'[k] = new[i]
          PROVE  Rank(s[j]) < Rank(tailed'[k])
      BY <1>2, <2>3, <3>3 DEF Precedes
    <3> QED
      BY <2>2, <3>1, <3>2, <3>3 DEF IsJoin
  <2>4. Ahead(buffer, tailed', offset) /\ \A c \in Calls : Ahead(handed[c], tailed', offset)
    BY <1>4, <2>3 DEF OrderIInv
  <2> QED
    BY <1>1, <1>5, <2>1, <2>2, <2>4 DEF OrderIInv, Calls
<1> QED
  BY <1>6, <1>7

(* The newest rank belongs to the last line.                               *)
LEMMA TopType ==
  ASSUME OrderIInv
  PROVE  Top \in Nat /\ Top <= 2 * lines + 1 /\ lines \in Nat /\ (~MidLine => Top = 2 * lines + 1)
         /\ (MidLine => Top = 2 * lines)
BY TailerAssumption DEF OrderIInv, Top

(* A line is written, whole or its first half, behind the last one.        *)
LEMMA WriteLineHolds ==
  ASSUME OrderIInv, WriteLine
  PROVE  OrderIInv'
<1>1. /\ ~MidLine /\ lines' = lines + 1 /\ lines' \in 1..MaxLines
      /\ UNCHANGED <<readerVars, rotation>> /\ rotation' = rotation
  BY TailerAssumption DEF WriteLine, OrderIInv
<1>2. Top = 2 * lines + 1 /\ lines \in Nat /\ Top \in Nat
  BY <1>1, TopType
<1>3. /\ Head1(lines') \in Pieces /\ Rest(lines') \in Pieces
      /\ Head1(lines').part = "head" /\ Rest(lines').part = "rest"
      /\ Rank(Head1(lines')) = 2 * lines' /\ Rank(Rest(lines')) = 2 * lines' + 1
  BY <1>1 DEF Pieces, Head1, Rest, Rank
<1>4. CASE AppendToLog(<<Head1(lines'), Rest(lines')>>)
  <2> DEFINE new == <<Head1(lines'), Rest(lines')>>
  <2>1. new \in Seq(Pieces) /\ Len(new) = 2 /\ new[1] = Head1(lines') /\ new[2] = Rest(lines')
    BY <1>3
  <2>0. AppendToLog(new)
    BY <1>4
  <2> HIDE DEF new
  <2>2. Log' = Log \o new /\ Log \in Seq(Pieces)
    BY <1>1, <2>0, <2>1 DEF AppendToLog, Log, OrderIInv
  <2>3. Len(Log') = Len(Log) + 2 /\ Len(Log) \in Nat /\ Log'[Len(Log) + 2] = Rest(lines')
    <3>1. IsJoin(Log', Log, new) /\ 2 \in 1..Len(new) /\ Len(Log) \in Nat
      BY <2>1, <2>2, ConcatIsJoin
    <3> QED
      BY <2>1, <3>1 DEF IsJoin
  <2>4. ~MidLine'
    BY <1>3, <2>3 DEF MidLine
  <2>5. Top' = 2 * lines' + 1
    BY <2>4 DEF Top
  <2>6. InOrder(new) /\ UpTo(new, Top')
    BY <1>1, <1>2, <1>3, <2>1, <2>5 DEF InOrder, UpTo
  <2>7. \A j \in 1..Len(new) : Rank(new[j]) > Top
    BY <1>1, <1>2, <1>3, <2>1
  <2>8. Top' \in Nat /\ Top <= Top' /\ lines' \in 0..MaxLines
    BY <1>1, <1>2, <2>5
  <2> QED
    BY <1>1, <1>2, <2>0, <2>1, <2>4, <2>6, <2>7, <2>8, GrowHolds
<1>5. CASE AppendToLog(<<Head1(lines')>>)
  <2> DEFINE new == <<Head1(lines')>>
  <2>1. new \in Seq(Pieces) /\ Len(new) = 1 /\ new[1] = Head1(lines')
    BY <1>3
  <2>0. AppendToLog(new)
    BY <1>5
  <2> HIDE DEF new
  <2>2. Log' = Log \o new /\ Log \in Seq(Pieces)
    BY <1>1, <2>0, <2>1 DEF AppendToLog, Log, OrderIInv
  <2>3. Len(Log') = Len(Log) + 1 /\ Len(Log) \in Nat /\ Log'[Len(Log) + 1] = Head1(lines')
    <3>1. IsJoin(Log', Log, new) /\ 1 \in 1..Len(new) /\ Len(Log) \in Nat
      BY <2>1, <2>2, ConcatIsJoin
    <3> QED
      BY <2>1, <3>1 DEF IsJoin
  <2>4. MidLine'
    <3>1. Log' # <<>>
      BY <2>1, <2>2, <2>3
    <3> QED
      BY <1>3, <2>3, <3>1 DEF MidLine
  <2>5. Top' = 2 * lines'
    BY <2>4 DEF Top
  <2>6. InOrder(new) /\ UpTo(new, Top')
    BY <1>1, <1>2, <1>3, <2>1, <2>5 DEF InOrder, UpTo
  <2>7. \A j \in 1..Len(new) : Rank(new[j]) > Top
    BY <1>1, <1>2, <1>3, <2>1
  <2>8. Top' \in Nat /\ Top <= Top' /\ lines' \in 0..MaxLines
    BY <1>1, <1>2, <2>5
  <2>9. Log'[Len(Log')] = Head1(lines')
    BY <2>3
  <2> QED
    BY <1>1, <1>2, <2>0, <2>1, <2>6, <2>7, <2>8, <2>9, GrowHolds
<1> QED
  BY <1>4, <1>5 DEF WriteLine

(* The rest of a line is newer than its head and than nothing that follows.*)
LEMMA WriteRestHolds ==
  ASSUME OrderIInv, WriteRest
  PROVE  OrderIInv'
<1>1. /\ MidLine /\ lines' = lines /\ Log[Len(Log)] = Head1(lines)
      /\ Log # <<>> /\ UNCHANGED <<readerVars, rotation>> /\ rotation' = rotation
  BY DEF WriteRest, OrderIInv, MidLine
<1>2. Top = 2 * lines /\ lines \in Nat /\ Top \in Nat
  BY <1>1, TopType
<1>3. Log \in Seq(Pieces) /\ Log[Len(Log)] \in Pieces
  <2>1. Log \in Seq(Pieces)
    BY DEF Log, OrderIInv
  <2>2. Len(Log) \in 1..Len(Log)
    BY <1>1, <2>1
  <2> QED
    BY <2>1, <2>2, ElementOfSeq
<1>4. lines \in 1..MaxLines /\ Log[Len(Log)].line = lines
  BY <1>1, <1>3, PieceRank DEF Head1
<1>5. Rest(lines) \in Pieces /\ Rank(Rest(lines)) = 2 * lines + 1 /\ Rest(lines).part = "rest"
  BY <1>4 DEF Pieces, Rest, Rank
<1> DEFINE new == <<Rest(lines)>>
<1>6. new \in Seq(Pieces) /\ Len(new) = 1 /\ new[1] = Rest(lines)
  BY <1>5
<1>7. AppendToLog(new)
  BY <1>4 DEF WriteRest
<1> HIDE DEF new
<1>8. Log' = Log \o new
  BY <1>1, <1>6, <1>7 DEF AppendToLog, Log, OrderIInv
<1>9. Len(Log') = Len(Log) + 1 /\ Len(Log) \in Nat /\ Log'[Len(Log) + 1] = Rest(lines)
  <2>1. IsJoin(Log', Log, new) /\ 1 \in 1..Len(new) /\ Len(Log) \in Nat
    BY <1>3, <1>6, <1>8, ConcatIsJoin
  <2> QED
    BY <1>6, <2>1 DEF IsJoin
<1>10. ~MidLine'
  BY <1>5, <1>9 DEF MidLine
<1>11. Top' = 2 * lines + 1
  BY <1>1, <1>10 DEF Top
<1>12. InOrder(new) /\ UpTo(new, Top')
  BY <1>2, <1>5, <1>6, <1>11 DEF InOrder, UpTo
<1>13. \A j \in 1..Len(new) : Rank(new[j]) > Top
  BY <1>2, <1>5, <1>6
<1>14. Top' \in Nat /\ Top <= Top' /\ lines' \in 0..MaxLines
  BY <1>1, <1>2, <1>11 DEF OrderIInv
<1> QED
  BY <1>1, <1>2, <1>6, <1>7, <1>10, <1>12, <1>13, <1>14, GrowHolds

(* After a rotation the log is empty.                                      *)
LEMMA RotationHolds ==
  ASSUME OrderIInv, Rename \/ Cut
  PROVE  OrderIInv'
<1>1. ~MidLine /\ UNCHANGED <<readerVars, lines>>
  BY DEF Rename, Cut
<1>2. /\ Log' = <<>>
      /\ \/ tailed' = tailed /\ successor' = <<>>
         \/ tailed' = <<>> /\ successor' = successor
  BY DEF Rename, Cut, Log
<1>3. ~MidLine'
  BY <1>2 DEF MidLine
<1>4. Top' = Top
  BY <1>1, <1>3 DEF Top
<1>5. UNCHANGED <<offset, buffer, handed>> /\ offset \in Nat
  BY <1>1 DEF readerVars, OrderIInv
<1>6. /\ tailed' \in Seq(Pieces) /\ successor' \in Seq(Pieces)
      /\ UpTo(tailed', Top) /\ UpTo(successor', Top)
      /\ InOrder(tailed') /\ InOrder(successor')
  BY <1>2, EmptyInOrder DEF OrderIInv
<1>7. Ahead(buffer, tailed', offset) /\ \A c \in Calls : Ahead(handed[c], tailed', offset)
  BY <1>2, <1>5, EmptyInOrder DEF OrderIInv
<1> QED
  BY <1>1, <1>3, <1>4, <1>5, <1>6, <1>7 DEF OrderIInv, Calls

(* A restart reads the file at the path from its first piece.              *)
LEMMA RestartHolds ==
  ASSUME OrderIInv, RestartTailer
  PROVE  OrderIInv'
<1>1. /\ tailed' = Log /\ successor' = <<>> /\ rotation' = {} /\ offset' = 0
      /\ buffer' = <<>> /\ handed' = <<>> /\ lines' = lines
  BY DEF RestartTailer
<1>2. Log' = Log
  BY <1>1 DEF Log
<1>3. MidLine' = MidLine
  BY <1>2 DEF MidLine
<1>4. Top' = Top
  BY <1>1, <1>3 DEF Top
<1>5. tailed' \in Seq(Pieces) /\ UpTo(tailed', Top) /\ InOrder(tailed')
  BY <1>1 DEF Log, OrderIInv
<1>6. Calls' = {} /\ offset' \in Nat /\ handed' \in Seq(Call)
  BY <1>1 DEF Calls
<1> QED
  BY <1>1, <1>2, <1>3, <1>4, <1>5, <1>6, EmptyInOrder DEF OrderIInv

(* The line that HandLine hands on ends with the first newline.            *)
LEMMA FirstNewline ==
  ASSUME OrderIInv, HandLine
  PROVE  \E k \in Newlines :
           /\ \A j \in Newlines : k <= j
           /\ handed' = Append(handed, SubSeq(buffer, 1, k))
           /\ buffer' = SubSeq(buffer, k + 1, Len(buffer))
           /\ UNCHANGED <<fileVars, offset>>
<1>1. Len(buffer) \in Nat /\ Newlines \in SUBSET (1..Len(buffer)) /\ Newlines # {}
  BY DEF OrderIInv, Newlines, HandLine
<1>2. \E k \in Newlines : \A j \in Newlines : k <= j
  BY <1>1, FirstIn
<1>3. PICK k : k = CHOOSE i \in Newlines : \A j \in Newlines : i <= j
  OBVIOUS
<1>4. k \in Newlines /\ \A j \in Newlines : k <= j
  BY <1>2, <1>3
<1> QED
  BY <1>3, <1>4 DEF HandLine

(* The line goes from the front of the buffer to the end of the calls.     *)
LEMMA HandHolds ==
  ASSUME OrderIInv, NEW k \in 1..Len(buffer),
         handed' = Append(handed, SubSeq(buffer, 1, k)),
         buffer' = SubSeq(buffer, k + 1, Len(buffer)),
         UNCHANGED <<fileVars, offset>>
  PROVE  OrderIInv'
<1>1. /\ buffer \in Seq(Pieces) /\ Len(buffer) \in Nat /\ handed \in Seq(Call)
      /\ InOrder(buffer) /\ CallsInOrder(handed) /\ UpTo(buffer, Top)
      /\ offset \in Nat /\ Ahead(buffer, tailed, offset)
      /\ \A c \in Calls : /\ Precedes(handed[c], buffer) /\ UpTo(handed[c], Top)
                          /\ Ahead(handed[c], tailed, offset)
  BY DEF OrderIInv
<1> DEFINE pre == SubSeq(buffer, 1, k)
           post == SubSeq(buffer, k + 1, Len(buffer))
<1>2. IsCut(pre, buffer, 0, k)
  <2>1. 0 + k <= Len(buffer) /\ 0 + 1 = 1 /\ 0 + k = k /\ k \in Nat
    BY <1>1
  <2> QED
    BY <1>1, <2>1, SubSeqIsCut
<1>3. PICK n \in Nat : Len(buffer) = k + n
  <2>1. Len(buffer) - k \in Nat /\ Len(buffer) = k + (Len(buffer) - k)
    BY <1>1
  <2> QED
    BY <2>1
<1>4. IsCut(post, buffer, k, n)
  <2>1. k + n <= Len(buffer) /\ k \in Nat
    BY <1>3
  <2>2. IsCut(SubSeq(buffer, k + 1, k + n), buffer, k, n)
    BY <1>1, <2>1, SubSeqIsCut
  <2> QED
    BY <1>3, <2>2
<1> HIDE DEF pre, post
<1>5. pre \in Call /\ InOrder(pre) /\ UpTo(pre, Top) /\ \A c \in Calls : Precedes(handed[c], pre)
  <2>1. pre \in Call
    BY <1>2 DEF IsCut, Call
  <2> QED
    BY <1>1, <1>2, <2>1, CutInOrder
<1>6. post \in Seq(Pieces) /\ InOrder(post) /\ UpTo(post, Top) /\ \A c \in Calls : Precedes(handed[c], post)
  <2>1. k \in Nat /\ post \in Seq(Pieces)
    BY <1>4 DEF IsCut
  <2> QED
    BY <1>1, <1>4, <2>1, CutInOrder
<1>7. Precedes(pre, post)
  <2> SUFFICES ASSUME NEW i \in 1..Len(pre), NEW j \in 1..Len(post)
               PROVE  Rank(pre[i]) < Rank(post[j])
    BY DEF Precedes
  <2>1. i \in 1..k /\ pre[i] = buffer[0 + i] /\ 0 + i \in 1..Len(buffer)
    BY <1>2 DEF IsCut
  <2>2. post[j] = buffer[k + j] /\ k + j \in 1..Len(buffer) /\ j \in 1..n
    BY <1>4 DEF IsCut
  <2>3. 0 + i < k + j
    BY <2>1, <2>2
  <2> QED
    BY <1>1, <2>1, <2>2, <2>3 DEF InOrder
<1>8. Ahead(pre, tailed, offset)
  BY <1>1, <1>2 DEF Ahead, IsCut
<1>9. Ahead(post, tailed, offset)
  BY <1>1, <1>4 DEF Ahead, IsCut
<1>10. /\ handed' \in Seq(Call) /\ CallsInOrder(handed')
       /\ \A c \in Calls' : (c \in Calls /\ handed'[c] = handed[c]) \/ handed'[c] = pre
  BY <1>1, <1>5, CallsGrow DEF Calls, pre
<1>11. buffer' = post /\ offset' = offset /\ UNCHANGED fileVars
  BY DEF post
<1>12. \A c \in Calls' : /\ Precedes(handed'[c], post) /\ UpTo(handed'[c], Top)
                         /\ Ahead(handed'[c], tailed, offset)
  BY <1>1, <1>5, <1>6, <1>7, <1>8, <1>10
<1> QED
  BY <1>1, <1>6, <1>9, <1>10, <1>11, <1>12, ReadHolds

(* What is read comes behind what is in the buffer, from where the reader  *)
(* stood.                                                                  *)
LEMMA FillHolds ==
  ASSUME OrderIInv, Fill
  PROVE  OrderIInv'
<1>1. /\ buffer \in Seq(Pieces) /\ tailed \in Seq(Pieces) /\ Len(tailed) \in Nat
      /\ handed \in Seq(Call) /\ InOrder(tailed) /\ UpTo(tailed, Top)
      /\ InOrder(buffer) /\ CallsInOrder(handed) /\ UpTo(buffer, Top)
      /\ offset \in Nat /\ Ahead(buffer, tailed, offset)
      /\ \A c \in Calls : /\ Precedes(handed[c], buffer) /\ UpTo(handed[c], Top)
                          /\ Ahead(handed[c], tailed, offset)
  BY DEF OrderIInv
<1>2. PICK k \in offset + 1 .. Len(tailed) :
        buffer' = buffer \o SubSeq(tailed, offset + 1, k) /\ offset' = k
  BY DEF Fill
<1>3. UNCHANGED <<fileVars, handed>> /\ k \in Nat
  BY <1>1 DEF Fill
<1>4. PICK n \in Nat : k = offset + n
  <2>1. k - offset \in Nat /\ k = offset + (k - offset)
    BY <1>1
  <2> QED
    BY <2>1
<1> DEFINE got == SubSeq(tailed, offset + 1, offset + n)
<1>5. IsCut(got, tailed, offset, n)
  BY <1>1, <1>4, SubSeqIsCut
<1>6. got \in Seq(Pieces) /\ InOrder(got) /\ UpTo(got, Top)
  <2>1. got \in Seq(Pieces)
    BY <1>5 DEF IsCut
  <2> HIDE DEF got
  <2> QED
    BY <1>1, <1>5, <2>1, CutInOrder
<1>7. buffer' = buffer \o got /\ IsJoin(buffer', buffer, got) /\ buffer' \in Seq(Pieces)
  <2>1. buffer' = buffer \o got
    BY <1>2, <1>4
  <2> HIDE DEF got
  <2> QED
    BY <1>1, <1>6, <2>1, ConcatIsJoin DEF IsJoin
<1> HIDE DEF got
<1>8. \A i \in 1..Len(got) : got[i] = tailed[offset + i] /\ offset + i \in offset + 1 .. Len(tailed)
  BY <1>1, <1>5 DEF IsCut
<1>9. ASSUME NEW s, Ahead(s, tailed, offset)
      PROVE  Precedes(s, got) /\ Ahead(s, tailed, k)
  <2>1. Precedes(s, got)
    BY <1>8, <1>9 DEF Precedes, Ahead
  <2>2. \A j \in k + 1 .. Len(tailed) : j \in offset + 1 .. Len(tailed)
    BY <1>1, <1>4
  <2> QED
    BY <1>9, <2>1, <2>2 DEF Ahead
<1>10. Ahead(got, tailed, k)
  <2> SUFFICES ASSUME NEW i \in 1..Len(got), NEW j \in k + 1 .. Len(tailed)
               PROVE  Rank(got[i]) < Rank(tailed[j])
    BY DEF Ahead
  <2>1. i \in 1..n /\ got[i] = tailed[offset + i] /\ offset + i \in 1..Len(tailed)
    BY <1>5 DEF IsCut
  <2>2. offset + i < j /\ j \in 1..Len(tailed)
    BY <1>1, <1>4, <2>1
  <2> QED
    BY <1>1, <2>1, <2>2 DEF InOrder
<1>11. Ahead(buffer', tailed, k)
  <2> SUFFICES ASSUME NEW i \in 1..Len(buffer'), NEW j \in k + 1 .. Len(tailed)
               PROVE  Rank(buffer'[i]) < Rank(tailed[j])
    BY DEF Ahead
  <2>1. Ahead(buffer, tailed, k)
    BY <1>1, <1>9
  <2> QED
    BY <1>7, <1>10, <2>1 DEF IsJoin, Ahead
<1>12. InOrder(buffer') /\ UpTo(buffer', Top)
  BY <1>1, <1>6, <1>7, <1>9, JoinInOrder
<1>13. \A c \in Calls : Precedes(handed[c], buffer') /\ Ahead(handed[c], tailed, k)
  BY <1>1, <1>6, <1>7, <1>9, JoinInOrder
<1>14. Calls' = Calls /\ handed' = handed
  BY <1>3 DEF Calls
<1> QED
  BY <1>1, <1>2, <1>3, <1>7, <1>11, <1>12, <1>13, <1>14, ReadHolds

(* At the end of the file the buffer goes to the calls as a whole.         *)
LEMMA EndHolds ==
  ASSUME OrderIInv, HitEnd
  PROVE  OrderIInv'
<1>1. /\ buffer \in Seq(Pieces)
      /\ handed \in Seq(Call)
      /\ InOrder(buffer) /\ CallsInOrder(handed) /\ UpTo(buffer, Top)
      /\ offset \in Nat /\ Ahead(buffer, tailed, offset)
      /\ \A c \in Calls : /\ Precedes(handed[c], buffer) /\ UpTo(handed[c], Top)
                          /\ Ahead(handed[c], tailed, offset)
  BY DEF OrderIInv
<1>2. buffer' = <<>> /\ UNCHANGED <<fileVars, offset>>
      /\ handed' = IF buffer = <<>> THEN handed ELSE Append(handed, buffer)
  BY DEF HitEnd, HandRemainder
<1>3. /\ buffer' \in Seq(Pieces) /\ InOrder(buffer') /\ UpTo(buffer', Top)
      /\ Ahead(buffer', tailed, offset) /\ \A c \in Calls' : Precedes(handed'[c], buffer')
  BY <1>2, EmptyInOrder
<1>4. CASE buffer = <<>>
  <2>1. handed' = handed /\ Calls' = Calls
    BY <1>2, <1>4 DEF Calls
  <2> QED
    BY <1>1, <1>2, <1>3, <2>1, ReadHolds
<1>5. CASE buffer # <<>>
  <2>1. handed' = Append(handed, buffer) /\ buffer \in Call
    BY <1>1, <1>2, <1>5 DEF Call
  <2>2. /\ handed' \in Seq(Call) /\ CallsInOrder(handed')
        /\ \A c \in Calls' : (c \in Calls /\ handed'[c] = handed[c]) \/ handed'[c] = buffer
    BY <1>1, <2>1, CallsGrow DEF Calls
  <2>3. \A c \in Calls' : UpTo(handed'[c], Top) /\ Ahead(handed'[c], tailed, offset)
    BY <1>1, <2>2
  <2> QED
    BY <1>1, <1>2, <1>3, <2>2, <2>3, ReadHolds
<1> QED
  BY <1>4, <1>5

(* So every step of the application, the node and the reader keeps the     *)
(* order.                                                                  *)
LEMMA OrderStep == OrderIInv /\ [TailerNext]_tailerVars => OrderIInv'
<1> SUFFICES ASSUME OrderIInv, [TailerNext]_tailerVars
             PROVE  OrderIInv'
  OBVIOUS
<1>1. CASE UNCHANGED <<fileVars, offset, buffer, handed>>
  <2>1. Calls' = Calls
    BY <1>1 DEF Calls
  <2> QED
    BY <1>1, <2>1, ReadHolds DEF OrderIInv
<1>2. CASE BeginLineRead \/ ExitTailer \/ StopTailer \/ UNCHANGED tailerVars
  BY <1>1, <1>2 DEF BeginLineRead, ExitTailer, StopTailer, tailerVars, readerVars
<1>3. CASE HandLine
  BY <1>3, FirstNewline, HandHolds DEF Newlines
<1> QED
  BY <1>2, <1>3, WriteLineHolds, WriteRestHolds, RotationHolds, RestartHolds, FillHolds,
     EndHolds DEF TailerNext, TailerStep

(* What is in strict order is there once.                                  *)
LEMMA OrderIsNothingTwice == OrderIInv => NothingTwice
<1> SUFFICES ASSUME OrderIInv, NEW c \in Calls, NEW d \in Calls,
                    NEW j \in 1..Len(handed[c]), NEW k \in 1..Len(handed[d]),
                    c < d \/ (c = d /\ j < k)
             PROVE  LET p == handed[c][j]
                        q == handed[d][k]
                    IN  p.line < q.line \/ (p.line = q.line /\ p.part = "head" /\ q.part = "rest")
  BY DEF NothingTwice
<1>1. handed[c] \in Seq(Pieces) /\ handed[d] \in Seq(Pieces)
  BY ElementOfSeq DEF OrderIInv, Calls, Call
<1>2. handed[c][j] \in Pieces /\ handed[d][k] \in Pieces
  BY <1>1, ElementOfSeq
<1>3. Rank(handed[c][j]) < Rank(handed[d][k])
  BY DEF OrderIInv, CallsInOrder, InOrder, Precedes, Calls
<1>4. ASSUME NEW p \in Pieces, NEW q \in Pieces, Rank(p) < Rank(q)
      PROVE  p.line < q.line \/ (p.line = q.line /\ p.part = "head" /\ q.part = "rest")
  <2>1. p.line \in Nat /\ q.line \in Nat
    BY PieceRank, TailerAssumption
  <2>2. (Rank(p) = 2 * p.line /\ p.part = "head") \/ (Rank(p) = 2 * p.line + 1 /\ p.part = "rest")
    BY PieceRank
  <2>3. (Rank(q) = 2 * q.line /\ q.part = "head") \/ (Rank(q) = 2 * q.line + 1 /\ q.part = "rest")
    BY PieceRank
  <2> QED
    BY <1>4, <2>1, <2>2, <2>3
<1> QED
  BY <1>2, <1>3, <1>4

(* No end of s parts what was written at once.                             *)
Together(s, w) ==
  \A k \in 1..Len(s) : s[k].line \in w =>
    \/ s[k].part = "head" /\ k + 1 \in 1..Len(s) /\ s[k + 1] = Rest(s[k].line)
    \/ s[k].part = "rest" /\ k - 1 \in 1..Len(s) /\ s[k - 1] = Head1(s[k].line)

(* A file of which b pieces are handed on and those up to taken are in     *)
(* the buffer: neither place is inside of a line of w that is all there.   *)
InStep(b, buf, taken, file, w) ==
  /\ b \in Nat /\ taken = b + Len(buf) /\ taken <= Len(file)
  /\ \A k \in 1..Len(buf) : buf[k] = file[b + k]
  /\ b + 1 <= Len(file) /\ file[b + 1].line \in w => file[b + 1].part = "head"

(* Unless the file was cut, the buffer is a piece of the file; it begins   *)
(* where a line begins, or at least not inside of one that was written at  *)
(* once, and no call ends inside of one.                                   *)
WholeIInv ==
  /\ whole \subseteq 1..lines
  /\ Together(tailed, whole) /\ Together(successor, whole)
  /\ "cut" \notin rotation =>
       /\ \E b : InStep(b, buffer, offset, tailed, whole)
       /\ \A c \in Calls : Together(handed[c], whole)

(* Nothing is parted in an empty sequence.                                 *)
LEMMA EmptyTogether == \A w : Together(<<>>, w)
BY DEF Together

(* At first no line is written.                                            *)
LEMMA WholeInitHolds == TailerInit => WholeIInv
<1> SUFFICES ASSUME TailerInit
             PROVE  WholeIInv
  OBVIOUS
<1>1. /\ tailed = <<>> /\ successor = <<>> /\ buffer = <<>> /\ handed = <<>>
      /\ offset = 0 /\ lines = 0 /\ whole = {}
  BY DEF TailerInit
<1>2. InStep(0, <<>>, 0, <<>>, {})
  BY DEF InStep
<1>3. Calls = {}
  BY <1>1 DEF Calls
<1> QED
  BY <1>1, <1>2, <1>3, EmptyTogether DEF WholeIInv

(* No line of either part is parted in the whole.                          *)
LEMMA JoinTogether ==
  ASSUME NEW s \in Seq(Pieces), NEW t \in Seq(Pieces), NEW u, NEW w, IsJoin(u, s, t),
         Together(s, w), Together(t, w)
  PROVE  Together(u, w)
<1> SUFFICES ASSUME NEW k \in 1..Len(u), u[k].line \in w
             PROVE  \/ u[k].part = "head" /\ k + 1 \in 1..Len(u) /\ u[k + 1] = Rest(u[k].line)
                    \/ u[k].part = "rest" /\ k - 1 \in 1..Len(u) /\ u[k - 1] = Head1(u[k].line)
  BY DEF Together
<1>0. Len(s) \in Nat /\ Len(t) \in Nat
  OBVIOUS
<1>1. CASE k \in 1..Len(s)
  <2>1. u[k] = s[k]
    BY <1>1 DEF IsJoin
  <2>2. \/ s[k].part = "head" /\ k + 1 \in 1..Len(s) /\ s[k + 1] = Rest(s[k].line)
        \/ s[k].part = "rest" /\ k - 1 \in 1..Len(s) /\ s[k - 1] = Head1(s[k].line)
    BY <1>1, <2>1 DEF Together
  <2> QED
    BY <2>1, <2>2 DEF IsJoin
<1>2. ASSUME NEW i \in 1..Len(t), k = Len(s) + i
      PROVE  \/ u[k].part = "head" /\ k + 1 \in 1..Len(u) /\ u[k + 1] = Rest(u[k].line)
             \/ u[k].part = "rest" /\ k - 1 \in 1..Len(u) /\ u[k - 1] = Head1(u[k].line)
  <2>1. u[k] = t[i]
    BY <1>2 DEF IsJoin
  <2>2. \/ t[i].part = "head" /\ i + 1 \in 1..Len(t) /\ t[i + 1] = Rest(t[i].line)
        \/ t[i].part = "rest" /\ i - 1 \in 1..Len(t) /\ t[i - 1] = Head1(t[i].line)
    BY <2>1 DEF Together
  <2>3. k + 1 = Len(s) + (i + 1) /\ k - 1 = Len(s) + (i - 1)
    BY <1>0, <1>2
  <2>4. \A j \in 1..Len(t) : u[Len(s) + j] = t[j] /\ Len(s) + j \in 1..Len(u)
    BY DEF IsJoin
  <2>5. CASE t[i].part = "head" /\ i + 1 \in 1..Len(t) /\ t[i + 1] = Rest(t[i].line)
    BY <2>1, <2>3, <2>4, <2>5
  <2>6. CASE t[i].part = "rest" /\ i - 1 \in 1..Len(t) /\ t[i - 1] = Head1(t[i].line)
    BY <2>1, <2>3, <2>4, <2>6
  <2> QED
    BY <2>2, <2>5, <2>6
<1> QED
  BY <1>1, <1>2 DEF IsJoin

(* A newer line that was written at once is not among the older pieces.    *)
LEMMA StayTogether ==
  ASSUME NEW s \in Seq(Pieces), NEW w, NEW v, NEW r, UpTo(s, r), Together(s, w),
         \A p \in Pieces : Rank(p) <= r => (p.line \in v <=> p.line \in w)
  PROVE  Together(s, v)
<1>1. \A k \in 1..Len(s) : s[k] \in Pieces /\ Rank(s[k]) <= r
  BY ElementOfSeq DEF UpTo
<1> QED
  BY <1>1 DEF Together

(* New pieces that are together leave together what was.                   *)
LEMMA WholeGrows ==
  ASSUME OrderIInv, WholeIInv, NEW new \in Seq(Pieces), AppendToLog(new),
         Together(new, whole'), UNCHANGED <<readerVars, rotation>>,
         whole' \subseteq 1..lines',
         \A p \in Pieces : Rank(p) <= Top => (p.line \in whole' <=> p.line \in whole)
  PROVE  WholeIInv'
<1>1. UNCHANGED <<offset, buffer, handed, rotation>> /\ Calls' = Calls
  BY DEF readerVars, Calls
<1>2. ASSUME NEW s \in Seq(Pieces), UpTo(s, Top), Together(s, whole)
      PROVE  Together(s, whole')
  BY <1>2, StayTogether
<1>3. ASSUME NEW s \in Seq(Pieces), UpTo(s, Top), Together(s, whole)
      PROVE  Together(s \o new, whole') /\ IsJoin(s \o new, s, new)
  BY <1>2, <1>3, ConcatIsJoin, JoinTogether
<1>4. Together(tailed, whole') /\ Together(successor, whole')
  BY <1>2 DEF OrderIInv, WholeIInv
<1>5. \A c \in Calls : handed[c] \in Seq(Pieces) /\ UpTo(handed[c], Top)
  BY ElementOfSeq DEF OrderIInv, Calls, Call
<1>6. "cut" \notin rotation => \A c \in Calls : Together(handed[c], whole')
  BY <1>2, <1>5 DEF WholeIInv
<1>7. ASSUME NEW k \in 1..Len(tailed)
      PROVE  tailed[k].line \in whole' <=> tailed[k].line \in whole
  <2>1. tailed[k] \in Pieces /\ Rank(tailed[k]) <= Top
    BY ElementOfSeq DEF OrderIInv, UpTo
  <2> QED
    BY <2>1
<1>8. tailed \in Seq(Pieces) /\ Len(tailed) \in Nat
  BY DEF OrderIInv
<1>9. CASE "renamed" \in rotation
  <2>1. tailed' = tailed /\ successor' = successor \o new
    BY <1>9 DEF AppendToLog
  <2>2. Together(successor', whole')
    BY <1>3, <2>1 DEF OrderIInv, WholeIInv
  <2>3. ASSUME NEW b, InStep(b, buffer, offset, tailed, whole)
        PROVE  InStep(b, buffer, offset, tailed, whole')
    <3>1. b + 1 <= Len(tailed) => b + 1 \in 1..Len(tailed)
      BY <1>8, <2>3 DEF InStep
    <3> QED
      BY <1>7, <2>3, <3>1 DEF InStep
  <2> QED
    BY <1>1, <1>4, <1>6, <2>1, <2>2, <2>3 DEF WholeIInv
<1>10. CASE "renamed" \notin rotation
  <2>1. successor' = successor /\ tailed' = tailed \o new
    BY <1>10 DEF AppendToLog
  <2>2. Together(tailed', whole') /\ IsJoin(tailed', tailed, new)
    BY <1>3, <2>1 DEF OrderIInv, WholeIInv
  <2>3. ASSUME NEW b, InStep(b, buffer, offset, tailed, whole)
        PROVE  InStep(b, buffer, offset, tailed', whole')
    <3>1. /\ b \in Nat /\ offset = b + Len(buffer) /\ offset <= Len(tailed)
          /\ Len(buffer) \in Nat
      BY <2>3 DEF InStep, OrderIInv
    <3>2. offset <= Len(tailed')
      BY <1>8, <2>2, <3>1 DEF IsJoin
    <3>3. ASSUME NEW k \in 1..Len(buffer)
          PROVE  buffer[k] = tailed'[b + k]
      <4>1. b + k \in 1..Len(tailed)
        BY <1>8, <3>1
      <4> QED
        BY <2>2, <2>3, <4>1 DEF InStep, IsJoin
    <3>4. ASSUME b + 1 <= Len(tailed'), tailed'[b + 1].line \in whole'
          PROVE  tailed'[b + 1].part = "head"
      <4>1. CASE b + 1 \in 1..Len(tailed)
        <5>1. tailed'[b + 1] = tailed[b + 1] /\ b + 1 <= Len(tailed)
          BY <1>8, <2>2, <4>1 DEF IsJoin
        <5> QED
          BY <1>7, <2>3, <3>4, <4>1, <5>1 DEF InStep
      <4>2. CASE b + 1 \notin 1..Len(tailed)
        <5>1. b = Len(tailed) /\ b + 1 \in 1..Len(tailed')
          <6>1. b = Len(tailed)
            BY <1>8, <3>1, <4>2
          <6>2. tailed' \in Seq(Pieces)
            BY <2>2 DEF IsJoin
          <6> QED
            BY <3>1, <3>4, <6>1, <6>2
        <5>2. PICK i \in 1..Len(new) : b + 1 = Len(tailed) + i
          BY <2>2, <4>2, <5>1 DEF IsJoin
        <5>3. i = 1 /\ tailed'[b + 1] = new[1]
          BY <1>8, <2>2, <5>1, <5>2 DEF IsJoin
        <5> QED
          BY <3>4, <5>2, <5>3 DEF Together
      <4> QED
        BY <4>1, <4>2
    <3> QED
      BY <3>1, <3>2, <3>3, <3>4 DEF InStep
  <2> QED
    BY <1>1, <1>4, <1>6, <2>1, <2>2, <2>3 DEF WholeIInv
<1> QED
  BY <1>9, <1>10

(* A line that is written at once adds both its pieces; half a line is not *)
(* one of those.                                                           *)
LEMMA WriteStaysWhole ==
  ASSUME OrderIInv, WholeIInv, WriteLine \/ WriteRest
  PROVE  WholeIInv'
<1>0. lines \in Nat /\ whole \subseteq 1..lines
  BY TopType DEF WholeIInv
<1>1. CASE WriteLine
  <2>1. /\ ~MidLine /\ lines' = lines + 1 /\ lines' \in 1..MaxLines
        /\ UNCHANGED <<readerVars, rotation>>
    BY <1>0, <1>1, TailerAssumption DEF WriteLine
  <2>2. Top = 2 * lines + 1
    BY <2>1, TopType
  <2>3. ASSUME NEW p \in Pieces, Rank(p) <= Top
        PROVE  p.line # lines'
    <3>1. p.line \in Nat /\ (Rank(p) = 2 * p.line \/ Rank(p) = 2 * p.line + 1)
      BY PieceRank, TailerAssumption
    <3> QED
      BY <1>0, <2>1, <2>2, <2>3, <3>1
  <2>4. /\ Head1(lines') \in Pieces /\ Rest(lines') \in Pieces
        /\ Head1(lines').part = "head" /\ Rest(lines').part = "rest"
        /\ Head1(lines').line = lines' /\ Rest(lines').line = lines'
    BY <2>1 DEF Pieces, Head1, Rest
  <2>5. lines' \notin whole /\ whole \subseteq 1..lines' /\ lines' \in 1..lines'
    BY <1>0, <2>1
  <2>6. CASE AppendToLog(<<Head1(lines'), Rest(lines')>>) /\ whole' = whole \cup {lines'}
    <3> DEFINE new == <<Head1(lines'), Rest(lines')>>
    <3>1. new \in Seq(Pieces) /\ Len(new) = 2 /\ new[1] = Head1(lines') /\ new[2] = Rest(lines')
      BY <2>4
    <3>2. AppendToLog(new)
      BY <2>6
    <3> HIDE DEF new
    <3>3. Together(new, whole')
      BY <2>4, <3>1 DEF Together
    <3>4. /\ whole' \subseteq 1..lines'
          /\ \A p \in Pieces : Rank(p) <= Top => (p.line \in whole' <=> p.line \in whole)
      BY <2>3, <2>5, <2>6
    <3> QED
      BY <2>1, <3>1, <3>2, <3>3, <3>4, WholeGrows
  <2>7. CASE AppendToLog(<<Head1(lines')>>) /\ whole' = whole
    <3> DEFINE new == <<Head1(lines')>>
    <3>1. new \in Seq(Pieces) /\ Len(new) = 1 /\ new[1] = Head1(lines')
      BY <2>4
    <3>2. AppendToLog(new)
      BY <2>7
    <3> HIDE DEF new
    <3>3. Together(new, whole')
      BY <2>4, <2>5, <2>7, <3>1 DEF Together
    <3> QED
      BY <2>1, <2>5, <2>7, <3>1, <3>2, <3>3, WholeGrows
  <2> QED
    BY <1>1, <2>6, <2>7 DEF WriteLine
<1>2. CASE WriteRest
  <2>1. /\ MidLine /\ Log # <<>> /\ Log[Len(Log)].part = "head"
        /\ UNCHANGED <<readerVars, rotation, whole, lines>>
        /\ AppendToLog(<<Rest(Log[Len(Log)].line)>>)
    BY <1>2 DEF WriteRest, MidLine
  <2>2. Log \in Seq(Pieces) /\ Together(Log, whole)
    BY DEF Log, OrderIInv, WholeIInv
  <2>3. Len(Log) \in 1..Len(Log) /\ Len(Log) + 1 \notin 1..Len(Log)
    BY <2>1, <2>2
  <2>4. Log[Len(Log)] \in Pieces
    BY <2>2, <2>3, ElementOfSeq
  <2>5. PICK l : l = Log[Len(Log)].line
    OBVIOUS
  <2>6. l \in 1..MaxLines /\ l \notin whole
    BY <2>1, <2>2, <2>3, <2>4, <2>5, PieceRank DEF Together
  <2>7. Rest(l) \in Pieces /\ Rest(l).line = l
    BY <2>6 DEF Pieces, Rest
  <2> DEFINE new == <<Rest(l)>>
  <2>8. new \in Seq(Pieces) /\ Len(new) = 1 /\ new[1] = Rest(l) /\ AppendToLog(new)
    BY <2>1, <2>5, <2>7
  <2> HIDE DEF new
  <2>9. Together(new, whole') /\ whole' = whole /\ lines' = lines
    BY <2>1, <2>6, <2>7, <2>8 DEF Together
  <2> QED
    BY <1>0, <2>1, <2>8, <2>9, WholeGrows
<1> QED
  BY <1>1, <1>2

(* A rename leaves the open file as it is, a cut ends the promise, a       *)
(* restart begins with the first piece of a file.                          *)
LEMMA MishapStaysWhole ==
  ASSUME OrderIInv, WholeIInv, Rename \/ Cut \/ RestartTailer
  PROVE  WholeIInv'
<1>0. whole' = whole /\ lines' = lines
  BY DEF Rename, Cut, RestartTailer
<1>1. CASE Rename
  <2>1. UNCHANGED <<offset, buffer, handed, tailed, Calls>> /\ successor' = <<>>
        /\ ("cut" \notin rotation' => "cut" \notin rotation)
    BY <1>1 DEF Rename, readerVars, Calls
  <2> QED
    BY <1>0, <2>1, EmptyTogether DEF WholeIInv
<1>2. CASE Cut
  <2>1. successor' = successor /\ tailed' = <<>> /\ "cut" \in rotation'
    BY <1>2 DEF Cut
  <2> QED
    BY <1>0, <2>1, EmptyTogether DEF WholeIInv
<1>3. CASE RestartTailer
  <2>1. /\ tailed' = Log /\ successor' = <<>> /\ offset' = 0
        /\ buffer' = <<>> /\ handed' = <<>> /\ Calls' = {}
    BY <1>3 DEF RestartTailer, Calls
  <2>2. Log \in Seq(Pieces) /\ Together(Log, whole)
    BY DEF Log, OrderIInv, WholeIInv
  <2>3. InStep(0, <<>>, 0, Log, whole)
    <3>1. 1 <= Len(Log) /\ Log[1].line \in whole => Log[1].part = "head"
      BY <2>2 DEF Together
    <3> QED
      BY <2>2, <3>1 DEF InStep
  <2> QED
    BY <1>0, <2>1, <2>2, <2>3, EmptyTogether DEF WholeIInv
<1> QED
  BY <1>1, <1>2, <1>3

(* What is handed on ends behind a newline or with the file.               *)
LEMMA HandedTogether ==
  ASSUME OrderIInv, NEW w, NEW b, InStep(b, buffer, offset, tailed, w), Together(tailed, w),
         NEW k \in 1..Len(buffer), NEW pre, IsCut(pre, buffer, 0, k),
         buffer[k].part = "rest" \/ (k = Len(buffer) /\ offset >= Len(tailed))
  PROVE  Together(pre, w)
<1>0. /\ b \in Nat /\ Len(buffer) \in Nat /\ Len(tailed) \in Nat /\ offset = b + Len(buffer)
      /\ offset <= Len(tailed) /\ k \in Nat /\ Len(pre) = k
  BY DEF OrderIInv, InStep, IsCut
<1>1. ASSUME NEW j \in 1..k
      PROVE  pre[j] = tailed[b + j] /\ pre[j] = buffer[j] /\ b + j \in 1..Len(tailed)
  <2>1. pre[j] = buffer[0 + j] /\ 0 + j = j /\ j \in 1..Len(buffer)
    BY <1>0 DEF IsCut
  <2>2. buffer[j] = tailed[b + j]
    BY <2>1 DEF InStep
  <2> QED
    BY <1>0, <2>1, <2>2
<1> SUFFICES ASSUME NEW j \in 1..k, pre[j].line \in w
             PROVE  \/ pre[j].part = "head" /\ j + 1 \in 1..k /\ pre[j + 1] = Rest(pre[j].line)
                    \/ pre[j].part = "rest" /\ j - 1 \in 1..k /\ pre[j - 1] = Head1(pre[j].line)
  BY <1>0 DEF Together
<1>2. pre[j] = tailed[b + j] /\ pre[j] = buffer[j] /\ b + j \in 1..Len(tailed)
  BY <1>1
<1>3. CASE /\ tailed[b + j].part = "head" /\ b + j + 1 \in 1..Len(tailed)
           /\ tailed[b + j + 1] = Rest(tailed[b + j].line)
  <2>1. j # k
    <3>1. CASE buffer[k].part = "rest"
      BY <1>2, <1>3, <3>1
    <3>2. CASE k = Len(buffer) /\ offset >= Len(tailed)
      BY <1>0, <1>3, <3>2
    <3> QED
      BY <3>1, <3>2
  <2>2. j + 1 \in 1..k /\ b + (j + 1) = b + j + 1
    BY <1>0, <2>1
  <2>3. pre[j + 1] = tailed[b + (j + 1)]
    BY <1>1, <2>2
  <2> QED
    BY <1>2, <1>3, <2>2, <2>3
<1>4. CASE /\ tailed[b + j].part = "rest" /\ b + j - 1 \in 1..Len(tailed)
           /\ tailed[b + j - 1] = Head1(tailed[b + j].line)
  <2>1. j # 1
    <3> SUFFICES ASSUME j = 1
                 PROVE  FALSE
      OBVIOUS
    <3>1. b + 1 <= Len(tailed) /\ tailed[b + 1].line \in w /\ tailed[b + 1].part = "rest"
      BY <1>0, <1>2, <1>4
    <3> QED
      BY <3>1 DEF InStep
  <2>2. j - 1 \in 1..k /\ b + (j - 1) = b + j - 1
    BY <1>0, <2>1
  <2>3. pre[j - 1] = tailed[b + (j - 1)]
    BY <1>1, <2>2
  <2> QED
    BY <1>2, <1>4, <2>2, <2>3
<1>5. PICK m \in 1..Len(tailed) : m = b + j
  BY <1>2
<1>6. \/ tailed[m].part = "head" /\ m + 1 \in 1..Len(tailed) /\ tailed[m + 1] = Rest(tailed[m].line)
      \/ tailed[m].part = "rest" /\ m - 1 \in 1..Len(tailed) /\ tailed[m - 1] = Head1(tailed[m].line)
  BY <1>2, <1>5 DEF Together
<1>7. \/ /\ tailed[b + j].part = "head" /\ b + j + 1 \in 1..Len(tailed)
         /\ tailed[b + j + 1] = Rest(tailed[b + j].line)
      \/ /\ tailed[b + j].part = "rest" /\ b + j - 1 \in 1..Len(tailed)
         /\ tailed[b + j - 1] = Head1(tailed[b + j].line)
  <2>1. m = b + j /\ m + 1 = b + j + 1 /\ m - 1 = b + j - 1
    BY <1>0, <1>5
  <2> QED
    BY <1>6, <2>1, Zenon
<1> QED
  BY <1>3, <1>4, <1>7

(* The calls and one more.                                                 *)
LEMMA CallTogether ==
  ASSUME OrderIInv, NEW s \in Call, NEW w, Together(s, w),
         \A c \in Calls : Together(handed[c], w), handed' = Append(handed, s)
  PROVE  \A c \in Calls' : Together(handed'[c], w)
<1>1. handed \in Seq(Call) /\ Len(handed) \in Nat
  BY DEF OrderIInv
<1>2. /\ Len(handed') = Len(handed) + 1 /\ handed'[Len(handed) + 1] = s
      /\ \A c \in 1..Len(handed) : handed'[c] = handed[c]
  BY <1>1, AppendProperties
<1>3. \A c \in Calls' : c \in Calls \/ c = Len(handed) + 1
  BY <1>1, <1>2 DEF Calls
<1> QED
  BY <1>2, <1>3 DEF Calls

(* The line handed on ends with a newline, so the next one begins behind   *)
(* it.                                                                     *)
LEMMA HandStaysWhole ==
  ASSUME OrderIInv, WholeIInv, NEW k \in 1..Len(buffer), buffer[k].part = "rest",
         handed' = Append(handed, SubSeq(buffer, 1, k)),
         buffer' = SubSeq(buffer, k + 1, Len(buffer)),
         UNCHANGED <<fileVars, offset>>
  PROVE  WholeIInv'
<1>0. UNCHANGED <<tailed, successor, rotation, whole, lines, offset>>
  BY DEF fileVars
<1>1. CASE "cut" \in rotation
  BY <1>0, <1>1 DEF WholeIInv
<1>2. CASE "cut" \notin rotation
  <2>1. PICK b : InStep(b, buffer, offset, tailed, whole)
    BY <1>2 DEF WholeIInv
  <2>2. /\ buffer \in Seq(Pieces) /\ Len(buffer) \in Nat /\ tailed \in Seq(Pieces)
        /\ Len(tailed) \in Nat /\ b \in Nat /\ offset = b + Len(buffer)
        /\ offset <= Len(tailed) /\ k \in Nat /\ k <= Len(buffer)
    BY <2>1 DEF InStep, OrderIInv
  <2>3. IsCut(SubSeq(buffer, 1, k), buffer, 0, k)
    <3>1. 0 + k <= Len(buffer) /\ 0 + 1 = 1 /\ 0 + k = k
      BY <2>2
    <3> QED
      BY <2>2, <3>1, SubSeqIsCut
  <2>4. Together(SubSeq(buffer, 1, k), whole)
    BY <2>1, <2>3, HandedTogether DEF WholeIInv
  <2>5. SubSeq(buffer, 1, k) \in Call
    <3>1. SubSeq(buffer, 1, k) \in Seq(Pieces) /\ Len(SubSeq(buffer, 1, k)) = k /\ k # 0
      BY <2>3 DEF IsCut
    <3> HIDE DEF IsCut
    <3>2. Len(<<>>) = 0
      OBVIOUS
    <3> QED
      BY <3>1, <3>2, Zenon DEF Call
  <2>6. \A c \in Calls' : Together(handed'[c], whole)
    BY <1>2, <2>4, <2>5, CallTogether DEF WholeIInv
  <2>7. PICK n \in Nat : Len(buffer) = k + n
    <3>1. Len(buffer) - k \in Nat /\ Len(buffer) = k + (Len(buffer) - k)
      BY <2>2
    <3> QED
      BY <3>1
  <2>8. IsCut(buffer', buffer, k, n)
    <3>1. k + n <= Len(buffer)
      BY <2>7
    <3>2. IsCut(SubSeq(buffer, k + 1, k + n), buffer, k, n)
      BY <2>2, <3>1, SubSeqIsCut
    <3> QED
      BY <2>7, <3>2
  <2>9. b + k \in Nat /\ offset = b + k + Len(buffer') /\ Len(buffer') = n
    BY <2>2, <2>7, <2>8 DEF IsCut
  <2>10. ASSUME NEW j \in 1..Len(buffer')
         PROVE  buffer'[j] = tailed[b + k + j]
    <3>1. buffer'[j] = buffer[k + j] /\ k + j \in 1..Len(buffer)
      BY <2>8, <2>9 DEF IsCut
    <3>2. buffer[k + j] = tailed[b + (k + j)] /\ b + (k + j) = b + k + j
      BY <2>1, <2>2, <2>9, <3>1 DEF InStep
    <3> QED
      BY <3>1, <3>2
  <2>11. ASSUME b + k + 1 <= Len(tailed), tailed[b + k + 1].line \in whole
         PROVE  tailed[b + k + 1].part = "head"
    <3>1. b + k + 1 \in 1..Len(tailed) /\ b + k + 1 - 1 = b + k
      BY <2>2, <2>11
    <3>2. \/ tailed[b + k + 1].part = "head"
          \/ tailed[b + k] = Head1(tailed[b + k + 1].line)
      <4>1. PICK m \in 1..Len(tailed) : m = b + k + 1
        BY <3>1
      <4>2. tailed[m].line \in whole /\ Together(tailed, whole)
        BY <2>11, <4>1 DEF WholeIInv
      <4>3. tailed[m].part = "head" \/ tailed[m - 1] = Head1(tailed[m].line)
        BY <4>2 DEF Together
      <4>4. m - 1 = b + k
        BY <2>2, <4>1
      <4> QED
        BY <4>1, <4>3, <4>4, Zenon
    <3>3. buffer[k] = tailed[b + k]
      BY <2>1 DEF InStep
    <3> QED
      BY <3>2, <3>3 DEF Head1
  <2>12. InStep(b + k, buffer', offset, tailed, whole)
    BY <2>2, <2>9, <2>10, <2>11 DEF InStep
  <2> QED
    BY <1>0, <2>6, <2>12 DEF WholeIInv
<1> QED
  BY <1>1, <1>2

(* A read may end inside of a line: the buffer goes on from there.         *)
LEMMA FillStaysWhole ==
  ASSUME OrderIInv, WholeIInv, Fill
  PROVE  WholeIInv'
<1>0. UNCHANGED <<tailed, successor, rotation, whole, lines, handed, Calls>>
  BY DEF Fill, fileVars, Calls
<1>1. CASE "cut" \in rotation
  BY <1>0, <1>1 DEF WholeIInv
<1>2. CASE "cut" \notin rotation
  <2>1. PICK b : InStep(b, buffer, offset, tailed, whole)
    BY <1>2 DEF WholeIInv
  <2>2. /\ buffer \in Seq(Pieces) /\ Len(buffer) \in Nat /\ tailed \in Seq(Pieces)
        /\ Len(tailed) \in Nat /\ b \in Nat /\ offset = b + Len(buffer)
        /\ offset <= Len(tailed) /\ offset \in Nat
    BY <2>1 DEF InStep, OrderIInv
  <2>3. PICK k \in offset + 1 .. Len(tailed) :
          buffer' = buffer \o SubSeq(tailed, offset + 1, k) /\ offset' = k
    BY DEF Fill
  <2>4. PICK n \in Nat : k = offset + n
    <3>1. k - offset \in Nat /\ k = offset + (k - offset)
      BY <2>2
    <3> QED
      BY <3>1
  <2> DEFINE got == SubSeq(tailed, offset + 1, offset + n)
  <2>5. IsCut(got, tailed, offset, n)
    BY <2>2, <2>4, SubSeqIsCut
  <2>6. got \in Seq(Pieces) /\ Len(got) = n
    BY <2>5 DEF IsCut
  <2>7. buffer' = buffer \o got
    BY <2>3, <2>4
  <2> HIDE DEF got
  <2>8. IsJoin(buffer', buffer, got)
    BY <2>2, <2>6, <2>7, ConcatIsJoin
  <2>9. offset' = b + Len(buffer') /\ offset' <= Len(tailed)
    BY <2>2, <2>3, <2>4, <2>6, <2>8 DEF IsJoin
  <2>10. ASSUME NEW j \in 1..Len(buffer')
         PROVE  buffer'[j] = tailed[b + j]
    <3>1. CASE j \in 1..Len(buffer)
      BY <2>1, <2>8, <3>1 DEF IsJoin, InStep
    <3>2. ASSUME NEW i \in 1..Len(got), j = Len(buffer) + i
          PROVE  buffer'[j] = tailed[b + j]
      <4>1. buffer'[j] = got[i] /\ got[i] = tailed[offset + i]
        BY <2>5, <2>6, <2>8, <3>2 DEF IsJoin, IsCut
      <4>2. offset + i = b + j
        BY <2>2, <3>2
      <4> QED
        BY <4>1, <4>2
    <3> QED
      BY <2>8, <3>1, <3>2 DEF IsJoin
  <2>11. InStep(b, buffer', offset', tailed, whole)
    BY <2>1, <2>2, <2>9, <2>10 DEF InStep
  <2> QED
    BY <1>0, <1>2, <2>11 DEF WholeIInv
<1> QED
  BY <1>1, <1>2

(* The end of the file is the end of every line that was written at once.  *)
LEMMA EndStaysWhole ==
  ASSUME OrderIInv, WholeIInv, HitEnd
  PROVE  WholeIInv'
<1>0. /\ UNCHANGED <<tailed, successor, rotation, whole, lines, offset>>
      /\ buffer' = <<>> /\ offset >= Len(tailed)
      /\ handed' = IF buffer = <<>> THEN handed ELSE Append(handed, buffer)
  BY DEF HitEnd, HandRemainder, fileVars
<1>1. CASE "cut" \in rotation
  BY <1>0, <1>1 DEF WholeIInv
<1>2. CASE "cut" \notin rotation
  <2>1. PICK b : InStep(b, buffer, offset, tailed, whole)
    BY <1>2 DEF WholeIInv
  <2>2. /\ buffer \in Seq(Pieces) /\ Len(buffer) \in Nat
        /\ Len(tailed) \in Nat /\ b \in Nat /\ offset = b + Len(buffer)
        /\ offset <= Len(tailed) /\ offset \in Nat
    BY <2>1 DEF InStep, OrderIInv
  <2>3. InStep(offset, <<>>, offset, tailed, whole)
    BY <1>0, <2>2 DEF InStep
  <2>4. \A c \in Calls' : Together(handed'[c], whole)
    <3>1. CASE buffer = <<>>
      BY <1>0, <1>2, <3>1 DEF WholeIInv, Calls
    <3>2. CASE buffer # <<>>
      <4>1. buffer \in Call /\ handed' = Append(handed, buffer) /\ Len(buffer) \in 1..Len(buffer)
        BY <1>0, <2>2, <3>2 DEF Call
      <4>2. IsCut(buffer, buffer, 0, Len(buffer))
        <5>1. \A i \in 1..Len(buffer) : 0 + i = i
          BY <2>2
        <5> QED
          BY <2>2, <5>1 DEF IsCut
      <4>3. Together(buffer, whole)
        BY <1>0, <2>1, <4>1, <4>2, HandedTogether DEF WholeIInv
      <4> QED
        BY <1>2, <4>1, <4>3, CallTogether DEF WholeIInv
    <3> QED
      BY <3>1, <3>2
  <2> QED
    BY <1>0, <2>3, <2>4 DEF WholeIInv
<1> QED
  BY <1>1, <1>2

(* So every step keeps whole lines whole.                                  *)
LEMMA WholeStep == OrderIInv /\ WholeIInv /\ [TailerNext]_tailerVars => WholeIInv'
<1> SUFFICES ASSUME OrderIInv, WholeIInv, [TailerNext]_tailerVars
             PROVE  WholeIInv'
  OBVIOUS
<1>1. CASE UNCHANGED <<fileVars, offset, buffer, handed>>
  <2>1. UNCHANGED <<tailed, successor, rotation, whole, lines, offset, buffer, handed, Calls>>
    BY <1>1 DEF Calls, fileVars
  <2> QED
    BY <2>1 DEF WholeIInv
<1>2. CASE BeginLineRead \/ ExitTailer \/ StopTailer \/ UNCHANGED tailerVars
  BY <1>1, <1>2 DEF BeginLineRead, ExitTailer, StopTailer, tailerVars, readerVars
<1>3. CASE HandLine
  BY <1>3, FirstNewline, HandStaysWhole DEF Newlines
<1> QED
  BY <1>2, <1>3, WriteStaysWhole, MishapStaysWhole, FillStaysWhole, EndStaysWhole
  DEF TailerNext, TailerStep

(* A call that parts no such line has both its pieces or none.             *)
LEMMA WholeIsWhole == WholeIInv => WholeLinesStayWhole
<1> SUFFICES ASSUME WholeIInv, "cut" \notin rotation, NEW c \in Calls, NEW i \in whole
             PROVE  In(Rest(i), c) <=> In(Head1(i), c)
  BY DEF WholeLinesStayWhole
<1>1. Together(handed[c], whole)
  BY DEF WholeIInv
<1>2. /\ Rest(i).line = i /\ Rest(i).part = "rest"
      /\ Head1(i).line = i /\ Head1(i).part = "head"
  BY DEF Rest, Head1
<1> QED
  BY <1>1, <1>2 DEF Together, In

(* What the goroutine and the node leave in their own variables.           *)
TailerShape ==
  /\ rotation \subseteq {"renamed", "cut"} /\ mishaps \in 0..MaxMishaps
  /\ tailer \in {"checking", "reading", "ended"} /\ stopped \in {"open", "closed"}

(* The goroutine starts with a look at stopCh.                             *)
LEMMA TailerShapeInit == TailerInit => TailerShape
BY TailerAssumption DEF TailerInit, TailerShape

(* No step leaves these values.                                            *)
LEMMA TailerShapeStep == TailerShape /\ [TailerNext]_tailerVars => TailerShape'
<1> SUFFICES ASSUME TailerShape, [TailerNext]_tailerVars
             PROVE  TailerShape'
  OBVIOUS
<1>1. Mishap => mishaps' \in 0..MaxMishaps
  BY TailerAssumption DEF Mishap, TailerShape
<1>2. CASE WriteLine \/ WriteRest
  BY <1>2 DEF WriteLine, WriteRest, TailerShape, readerVars
<1>3. CASE Rename \/ Cut
  <2>1. Mishap /\ UNCHANGED <<tailer, stopped>> /\ rotation' \subseteq {"renamed", "cut"}
    BY <1>3 DEF Rename, Cut, TailerShape, readerVars
  <2> QED
    BY <1>1, <2>1 DEF TailerShape
<1>4. CASE RestartTailer
  <2>1. Mishap /\ tailer' = "checking" /\ stopped' = "open" /\ rotation' = {}
    BY <1>4 DEF RestartTailer
  <2> QED
    BY <1>1, <2>1 DEF TailerShape
<1>5. CASE TailerStep \/ ExitTailer
  <2>1. UNCHANGED <<rotation, stopped, mishaps>> /\ tailer' \in {tailer, "checking", "reading", "ended"}
    BY <1>5 DEF TailerStep, ExitTailer, BeginLineRead, HandLine, Fill, HitEnd, HandRemainder, fileVars
  <2> QED
    BY <2>1 DEF TailerShape
<1>6. CASE StopTailer \/ UNCHANGED tailerVars
  BY <1>6 DEF StopTailer, tailerVars, TailerShape, readerVars, fileVars
<1> QED
  BY <1>2, <1>3, <1>4, <1>5, <1>6 DEF TailerNext

(* The three together are the type invariant.                              *)
LEMMA TailerTyped == OrderIInv /\ WholeIInv /\ TailerShape => TailerTypeOK
<1> SUFFICES ASSUME OrderIInv, WholeIInv, TailerShape
             PROVE  TailerTypeOK
  OBVIOUS
<1>1. handed \in Seq(Seq(Pieces) \ {<<>>})
  BY DEF OrderIInv, Call
<1>2. {tailed, successor, buffer} \subseteq Seq(Pieces)
  BY DEF OrderIInv
<1>3. whole \subseteq 1..lines /\ lines \in 0..MaxLines /\ offset \in Nat
  BY DEF OrderIInv, WholeIInv
<1> QED
  BY <1>1, <1>2, <1>3 DEF TailerTypeOK, TailerShape

-----------------------------------------------------------------------------
(* The types of the block list, the stream hook and the pages.             *)

(* No address is blocked.                                                  *)
LEMMA BlocklistTypeInit == BlocklistInit => BlocklistTypeOK
BY DEF BlocklistInit, BlocklistTypeOK

(* Time left is a number or over.                                          *)
LEMMA BlocklistTypeStep == BlocklistTypeOK /\ [BlocklistNext]_blocklistVars => BlocklistTypeOK'
<1> SUFFICES ASSUME BlocklistTypeOK, [BlocklistNext]_blocklistVars
             PROVE  BlocklistTypeOK'
  OBVIOUS
<1>1. ASSUME NEW ip \in Ips, NEW duration \in Durations, BlockIP(ip, duration)
      PROVE  BlocklistTypeOK'
  <2>1. duration \in Nat
    BY BlocklistAssumption
  <2> QED
    BY <1>1, <2>1 DEF BlockIP, BlocklistTypeOK
<1>2. CASE CleanupExpired
  BY <1>2 DEF CleanupExpired, BlocklistTypeOK
<1>3. CASE BlocklistTick
  <2>1. \A t \in {-1} \cup Nat : Later(t) \in {-1} \cup Nat
    BY DEF Later
  <2> QED
    BY <1>3, <2>1 DEF BlocklistTick, BlocklistTypeOK
<1>4. CASE UNCHANGED blocklistVars
  BY <1>4 DEF blocklistVars, BlocklistTypeOK
<1> QED
  BY <1>1, <1>2, <1>3, <1>4 DEF BlocklistNext

(* The hook starts with a source or without support.                       *)
LEMMA StreamTypeInit == StreamInit => StreamTypeOK
BY DEF StreamInit, StreamTypeOK, SourceNames, Saturation, Away

(* A failure arms a delay.                                                 *)
LEMMA NextDelay ==
  ASSUME NEW fails \in 0..Saturation, failCount' = Smaller(Saturation, fails + 1),
         timer' = Delay(failCount'), lastDelay' = timer'
  PROVE  timer' \in Nat /\ lastDelay' \in Nat /\ failCount' \in 0..Saturation
<1>1. failCount' \in 1..Saturation /\ failCount' \in 0..Saturation
  BY DEF Smaller, Saturation
<1> QED
  BY <1>1, DelayPositive

(* A simulated tick names a number of replicas: one more, one less only    *)
(* above a target, or the same.                                            *)
LEMMA SimulatedType ==
  ASSUME replicas \in Nat, SimulatedTick
  PROVE  from' = "simulation" /\ replicas' \in Nat
<1>1. CASE from = "nobody"
  BY <1>1, StreamAssumption DEF SimulatedTick
<1>2. CASE from # "nobody"
  <2>1. PICK target \in MinTarget..MaxTarget : replicas' \in SimulatedCounts(replicas, target)
    BY <1>2 DEF SimulatedTick
  <2>2. target \in Nat
    BY StreamAssumption
  <2>3. SimulatedCounts(replicas, target) \subseteq Nat
    BY <2>2 DEF SimulatedCounts
  <2> QED
    BY <2>1, <2>3 DEF SimulatedTick
<1> QED
  BY <1>1, <1>2

(* openStream, from a timer or from an effect that starts.                 *)
LEMMA OpeningType ==
  ASSUME StreamTypeOK, NEW address \in {"good", "bad"}, NEW fails \in 0..Saturation,
         OpenStream(address, fails), url' \in {"good", "bad"},
         UNCHANGED <<mounted, support, shown, sim, dataVars, server>>
  PROVE  StreamTypeOK'
<1>1. CASE address = "good"
  <2>1. PICK name \in SourceNames : Connect(name, fails)
    BY <1>1 DEF OpenStream
  <2>2. /\ sources' \subseteq SourceNames /\ opened' \subseteq sources'
        /\ esRef' \in SourceNames /\ conn' = "connecting"
    BY <2>1 DEF Connect, StreamTypeOK
  <2>3. timer' \in Nat /\ lastDelay' \in Nat /\ failCount' \in 0..Saturation
    BY <2>1 DEF Connect, StreamTypeOK
  <2> QED
    BY <2>2, <2>3 DEF StreamTypeOK, dataVars
<1>2. CASE address # "good"
  <2>1. Refused(fails)
    BY <1>2 DEF OpenStream
  <2>2. /\ sources' \subseteq SourceNames /\ opened' \subseteq sources'
        /\ esRef' = "null" /\ conn' \in {"simulated", "disconnected"}
    BY <2>1 DEF Refused, StreamTypeOK, Away
  <2>3. timer' \in Nat /\ lastDelay' \in Nat /\ failCount' \in 0..Saturation
    BY <2>1, NextDelay DEF Refused
  <2> QED
    BY <2>2, <2>3 DEF StreamTypeOK, dataVars
<1> QED
  BY <1>1, <1>2

(* The hook keeps its types.                                               *)
LEMMA StreamTypeStep == StreamTypeOK /\ [StreamNext]_streamVars => StreamTypeOK'
<1> SUFFICES ASSUME StreamTypeOK, [StreamNext]_streamVars
             PROVE  StreamTypeOK'
  OBVIOUS
<1>1. ASSUME NEW es \in sources, OnOpen(es)
      PROVE  StreamTypeOK'
  BY <1>1 DEF OnOpen, StreamTypeOK, Saturation, dataVars
<1>2. ASSUME NEW es \in sources, OnError(es)
      PROVE  StreamTypeOK'
  <2>1. timer' \in Nat /\ lastDelay' \in Nat /\ failCount' \in 0..Saturation
    BY <1>2, NextDelay DEF OnError, ScheduleReconnect, StreamTypeOK
  <2>2. /\ sources' \subseteq SourceNames /\ opened' \subseteq sources'
        /\ esRef' = "null" /\ conn' \in {"simulated", "disconnected"}
    BY <1>2 DEF OnError, StreamTypeOK, Away
  <2> QED
    BY <1>2, <2>1, <2>2 DEF OnError, StreamTypeOK, dataVars
<1>3. CASE TimerFires
  BY <1>3, OpeningType DEF TimerFires, StreamTypeOK
<1>4. CASE CommitState
  <2>1. from' \in {"nobody", "simulation", "daemon"} /\ replicas' \in Nat
    BY <1>4, SimulatedType DEF CommitState, StreamTypeOK, dataVars
  <2> QED
    BY <1>4, <2>1 DEF CommitState, StreamTypeOK, transportVars
<1>5. CASE SimulationFires
  BY <1>5, SimulatedType DEF SimulationFires, StreamTypeOK, transportVars
<1>6. ASSUME NEW es \in sources, OnMessage(es)
      PROVE  StreamTypeOK'
  BY <1>6, StreamAssumption DEF OnMessage, StreamTypeOK, transportVars
<1>7. CASE ChangeUrl
  <2>1. url' \in {"good", "bad"} /\ 0 \in 0..Saturation
    BY <1>7 DEF ChangeUrl, Saturation
  <2> QED
    BY <1>7, <2>1, OpeningType DEF ChangeUrl
<1>8. CASE Unmount
  BY <1>8 DEF Unmount, StreamTypeOK, dataVars
<1>9. CASE ServerChanges
  BY <1>9 DEF ServerChanges, StreamTypeOK, transportVars, dataVars
<1>10. CASE UNCHANGED streamVars
  BY <1>10 DEF streamVars, StreamTypeOK, transportVars, dataVars
<1> QED
  BY <1>1, <1>2, <1>3, <1>4, <1>5, <1>6, <1>7, <1>8, <1>9, <1>10 DEF StreamNext, Transport

(* The states of the sign-in form.                                         *)
SigninForms ==
  [mode : RequestKinds, loading : {"on", "off"}, error : {"none", "shown"},
   step : {"form", "success"}]

(* SessionTypeOK, with a name for the forms.                               *)
SessionShape ==
  /\ page \in Routes /\ session \in Sessions /\ headerUser \in Sessions
  /\ viewer \in {"absent", "loading", "guest", "user"}
  /\ viewer = "absent" <=> page # "dashboard"
  /\ asks \in [Askers -> Nat] /\ orphans \in [RequestKinds -> Nat]
  /\ signin \in SigninForms
  /\ request \in RequestKinds \cup {"none"}
  /\ pushes \in Nat /\ signouts \in Nat /\ acts \in 0..MaxVisitorActs

(* A document has just been loaded.                                        *)
LEMMA SessionTypeInit == SessionInit => SessionShape
BY SessionAssumption
DEF SessionInit, SessionShape, SigninForms, FreshForm, NoOrphans, AsksAtLoad, Askers, Routes,
    RequestKinds, Sessions

(* A route is pushed.                                                      *)
LEMMA GoToType ==
  ASSUME SessionShape, NEW p \in Routes, NEW remaining \in [Askers -> Nat], GoTo(p, remaining),
         session' \in Sessions, headerUser' \in Sessions,
         pushes' \in Nat, signouts' \in Nat, acts' \in 0..MaxVisitorActs
  PROVE  SessionShape'
<1>1. CASE p = page
  BY <1>1 DEF GoTo, SessionShape, requestVars
<1>2. CASE p # page
  <2>1. asks' \in [Askers -> Nat]
    <3>1. p \in Askers /\ remaining[p] \in Nat
      BY DEF Askers
    <3>2. PICK n \in Nat : asks' = [remaining EXCEPT ![p] = n]
      BY <1>2, <3>1 DEF GoTo
    <3> QED
      BY <3>1, <3>2
  <2>2. orphans' \in [RequestKinds -> Nat]
    BY <1>2 DEF GoTo, SessionShape
  <2>3. signin' \in SigninForms /\ request' = "none"
    BY <1>2 DEF GoTo, FreshForm, SigninForms, RequestKinds
  <2>4. page' = p /\ viewer' = IF p = "dashboard" THEN "loading" ELSE "absent"
    BY <1>2 DEF GoTo
  <2> QED
    BY <2>1, <2>2, <2>3, <2>4 DEF SessionShape
<1> QED
  BY <1>1, <1>2

(* A document is loaded.                                                   *)
LEMMA LoadType ==
  ASSUME SessionShape, NEW p \in Routes, Load(p), session' \in Sessions,
         acts' \in 0..MaxVisitorActs
  PROVE  SessionShape'
<1>1. asks' \in [Askers -> Nat] /\ orphans' \in [RequestKinds -> Nat]
  BY DEF Load, AsksAtLoad, NoOrphans, Askers
<1>2. signin' \in SigninForms /\ request' = "none" /\ pushes' = 0 /\ signouts' = 0
  BY DEF Load, FreshForm, SigninForms, RequestKinds
<1>3. page' = p /\ headerUser' = "none" /\ viewer' = IF p = "dashboard" THEN "loading" ELSE "absent"
  BY DEF Load
<1> QED
  BY <1>1, <1>2, <1>3 DEF SessionShape, Sessions

(* A question is answered once.                                            *)
LEMMA AnsweredShape ==
  ASSUME SessionShape, NEW who \in Askers, Asked(who)
  PROVE  Answered(who) \in [Askers -> Nat]
BY DEF Answered, Asked, SessionShape

(* Who is told shows a session.                                            *)
LEMMA NotifyType ==
  ASSUME SessionShape, NEW s \in Sessions, Notify(s), page' = page
  PROVE  /\ session' \in Sessions /\ headerUser' \in Sessions
         /\ viewer' \in {"absent", "loading", "guest", "user"}
         /\ viewer' = "absent" <=> page' # "dashboard"
BY DEF Notify, SessionShape, ShownAs

(* The visitor acts.                                                       *)
LEMMA ActType ==
  SessionShape /\ Act => acts' \in 0..MaxVisitorActs
BY SessionAssumption DEF SessionShape, Act

(* The handlers of the form leave a form.                                  *)
LEMMA FormFields ==
  ASSUME NEW f \in SigninForms
  PROVE  /\ \A m \in RequestKinds : [f EXCEPT !.mode = m, !.error = "none"] \in SigninForms
         /\ [f EXCEPT !.error = "none", !.loading = "on"] \in SigninForms
         /\ [f EXCEPT !.loading = "off", !.error = "shown"] \in SigninForms
         /\ [f EXCEPT !.loading = "off", !.step = "success"] \in SigninForms
         /\ [f EXCEPT !.error = "shown"] \in SigninForms
         /\ f.mode \in RequestKinds
BY DEF SigninForms

(* The pages keep their types.                                             *)
LEMMA SessionTypeStep == SessionShape /\ [SessionNext]_sessionVars => SessionShape'
<1> SUFFICES ASSUME SessionShape, [SessionNext]_sessionVars
             PROVE  SessionShape'
  OBVIOUS
<1>1. /\ page \in Routes /\ session \in Sessions /\ headerUser \in Sessions
      /\ viewer \in {"absent", "loading", "guest", "user"}
      /\ viewer = "absent" <=> page # "dashboard"
      /\ asks \in [Askers -> Nat] /\ orphans \in [RequestKinds -> Nat]
      /\ signin \in SigninForms
      /\ request \in RequestKinds \cup {"none"}
      /\ pushes \in Nat /\ signouts \in Nat /\ acts \in 0..MaxVisitorActs
  BY DEF SessionShape
<1>2. /\ {"home", "login", "dashboard"} = Routes /\ {"none", "user"} = Sessions
      /\ {"header", "home", "login", "dashboard"} = Askers
      /\ {"signin", "signup"} = RequestKinds
  BY DEF Routes, Sessions, Askers, RequestKinds
<1>3. CASE Visit
  BY <1>1, <1>3, ActType, GoToType DEF Visit
<1>4. CASE Reload
  BY <1>1, <1>4, ActType, LoadType DEF Reload
<1>5. CASE SessionChanges
  <2>1. /\ session' \in Sessions /\ headerUser' \in Sessions
        /\ viewer' \in {"absent", "loading", "guest", "user"}
        /\ viewer' = "absent" <=> page' # "dashboard"
    BY <1>5, NotifyType DEF SessionChanges
  <2>2. acts' \in 0..MaxVisitorActs /\ UNCHANGED <<page, asks, signin, request, orphans, pushes, signouts>>
    BY <1>5, ActType DEF SessionChanges, requestVars
  <2> QED
    BY <1>1, <2>1, <2>2 DEF SessionShape
<1>6. CASE ToggleMode
  <2>1. signin' \in SigninForms
    BY <1>1, <1>2, <1>6, FormFields DEF ToggleMode
  <2> QED
    BY <1>1, <1>6, <2>1, ActType DEF ToggleMode, SessionShape
<1>7. CASE SubmitForm
  <2>1. signin' \in SigninForms /\ request' \in RequestKinds
    BY <1>1, <1>7, FormFields DEF SubmitForm
  <2> QED
    BY <1>1, <1>7, <2>1, ActType DEF SubmitForm, SessionShape
<1>8. CASE GoogleSignIn
  <2>1. acts' \in 0..MaxVisitorActs
    BY <1>8, ActType DEF GoogleSignIn
  <2>2. CASE Load("dashboard") /\ session' \in {"user", session}
    BY <1>1, <1>2, <2>1, <2>2, LoadType
  <2>3. CASE /\ signin' = [signin EXCEPT !.error = "shown"]
             /\ UNCHANGED <<page, session, headerUser, viewer, asks, request, orphans, pushes, signouts>>
    <3>1. signin' \in SigninForms
      BY <1>1, <2>3, FormFields
    <3> QED
      BY <1>1, <2>1, <2>3, <3>1 DEF SessionShape
  <2> QED
    BY <1>8, <2>2, <2>3 DEF GoogleSignIn
<1>9. CASE PressLogOut
  <2>1. acts' \in 0..MaxVisitorActs /\ signouts' \in Nat
    BY <1>1, <1>9, ActType DEF PressLogOut
  <2> QED
    BY <1>1, <1>9, <2>1 DEF PressLogOut, SessionShape, requestVars
<1>10. CASE HeaderAnswered
  <2>1. asks' \in [Askers -> Nat] /\ headerUser' \in Sessions
    BY <1>1, <1>2, <1>10, AnsweredShape DEF HeaderAnswered
  <2> QED
    BY <1>1, <1>10, <2>1 DEF HeaderAnswered, SessionShape, requestVars
<1>11. CASE DashboardAnswered
  <2>1. asks' \in [Askers -> Nat] /\ viewer' \in {"guest", "user"} /\ page = "dashboard"
    BY <1>1, <1>2, <1>11, AnsweredShape DEF DashboardAnswered, ShownAs
  <2> QED
    BY <1>1, <1>11, <2>1 DEF DashboardAnswered, SessionShape, requestVars
<1>12. ASSUME NEW who \in {"home", "login"}, RedirectAnswered(who)
       PROVE  SessionShape'
  <2>1. Answered(who) \in [Askers -> Nat]
    BY <1>2, <1>12, AnsweredShape DEF RedirectAnswered
  <2>2. UNCHANGED <<session, headerUser, pushes, signouts, acts>>
    BY <1>12 DEF RedirectAnswered
  <2>3. CASE session = "user"
    BY <1>1, <1>2, <1>12, <2>1, <2>2, <2>3, GoToType DEF RedirectAnswered
  <2>4. CASE session # "user"
    BY <1>1, <1>12, <2>1, <2>2, <2>4 DEF RedirectAnswered, SessionShape, requestVars
  <2> QED
    BY <2>3, <2>4
<1>13. CASE RequestRefused
  <2>1. signin' \in SigninForms /\ request' = "none"
    BY <1>1, <1>13, FormFields DEF RequestRefused
  <2> QED
    BY <1>1, <1>13, <2>1 DEF RequestRefused, SessionShape
<1>14. ASSUME NEW kind \in RequestKinds, Granted(kind), page' = page
       PROVE  /\ session' \in Sessions /\ headerUser' \in Sessions
              /\ viewer' \in {"absent", "loading", "guest", "user"}
              /\ viewer' = "absent" <=> page' # "dashboard"
  BY <1>1, <1>2, <1>14, NotifyType DEF Granted
<1>15. CASE RequestGranted
  <2>1. request \in RequestKinds /\ Granted(request) /\ page' = page
    BY <1>1, <1>15 DEF RequestGranted
  <2>2. signin' \in SigninForms /\ request' = "none"
    BY <1>1, <1>15, FormFields DEF RequestGranted
  <2>3. pushes' \in Nat
    BY <1>1, <1>15 DEF RequestGranted
  <2> QED
    BY <1>1, <1>14, <1>15, <2>1, <2>2, <2>3 DEF RequestGranted, SessionShape
<1>16. ASSUME NEW kind \in RequestKinds, OrphanAnswered(kind)
       PROVE  SessionShape'
  <2>1. orphans' \in [RequestKinds -> Nat] /\ page' = page
        /\ UNCHANGED <<asks, signin, request, signouts, acts>>
    BY <1>1, <1>16 DEF OrphanAnswered
  <2>2. CASE UNCHANGED <<session, headerUser, viewer, pushes>>
    BY <1>1, <2>1, <2>2 DEF SessionShape
  <2>3. CASE Granted(kind) /\ pushes' = pushes + 1
    <3>1. pushes' \in Nat
      BY <1>1, <2>3
    <3> QED
      BY <1>1, <1>14, <2>1, <2>3, <3>1 DEF SessionShape
  <2> QED
    BY <1>16, <2>2, <2>3 DEF OrphanAnswered
<1>17. CASE PushFires
  <2>1. pushes' \in Nat /\ UNCHANGED <<session, headerUser, signouts, acts>> /\ GoTo("dashboard", asks)
    BY <1>1, <1>17 DEF PushFires
  <2> QED
    BY <1>1, <1>2, <2>1, GoToType
<1>18. CASE SignOutAnswered
  <2>1. /\ signouts' \in Nat /\ UNCHANGED <<pushes, acts>> /\ GoTo("login", asks)
        /\ session' \in Sessions /\ headerUser' \in Sessions
    BY <1>1, <1>2, <1>18 DEF SignOutAnswered
  <2> QED
    BY <1>1, <1>2, <2>1, GoToType
<1>19. CASE UNCHANGED sessionVars
  BY <1>1, <1>19 DEF sessionVars, SessionShape
<1> QED
  BY <1>3, <1>4, <1>5, <1>6, <1>7, <1>8, <1>9, <1>10, <1>11, <1>12, <1>13, <1>15, <1>16,
     <1>17, <1>18, <1>19 DEF SessionNext

(* It is SessionTypeOK.                                                    *)
LEMMA SessionTyped == SessionShape => SessionTypeOK
BY DEF SessionShape, SessionTypeOK, SigninForms, Askers

-----------------------------------------------------------------------------
(* The parts together.                                                     *)

(* A step of the whole is a step of each part, most often a stutter.       *)
LEMMA StepOfEachPart ==
  [PartsNext]_partsVars =>
    /\ [ConsoleNext]_consoleVars /\ [StoreNext]_storeVars /\ [TopologyNext]_topologyVars
    /\ [BadgesNext]_badgeVars /\ [DiagramNext]_diagramVars /\ [HeroNext]_heroVars
    /\ [TailerNext]_tailerVars /\ [BlocklistNext]_blocklistVars /\ [SessionNext]_sessionVars
    /\ [StreamNext]_streamVars /\ [LabNext]_labVars /\ [StudioNext]_studioVars
    /\ [FormNext]_formVars /\ UNCHANGED part
BY DEF PartsNext, OthersIdle, partsVars

(* The console is the end of what was accepted, template names are keys    *)
(* and a reload finds what the last writer shows, and the drawer and the   *)
(* zones agree with the pods, for every limit, name, tab and number of     *)
(* pods (dashboard/page.tsx:225-391, ClusterTopologyMap.tsx:39-156).       *)
THEOREM PartsListsAreInStep == PartsSpec => []ListsAreInStep
<1> DEFINE Inv == ConsoleIInv /\ StoreIInv /\ TopologyIInv
<1>1. PartsInit => Inv
  BY ConsoleInitHolds, StoreInitHolds, TopologyInitHolds DEF PartsInit
<1>2. Inv /\ [PartsNext]_partsVars => Inv'
  BY StepOfEachPart, ConsoleStep, StoreStep, TopologyStep
<1>3. Inv => ListsAreInStep
  BY ConsoleKeepsNewest, DrawerHolds, PlacementHolds DEF StoreIInv, ListsAreInStep
<1> QED
  BY <1>1, <1>2, <1>3, PTL DEF PartsSpec

(* At every moment the drawing of either animation belongs to one stage of *)
(* its story, timers grow by resumes alone, and a badge of the home page   *)
(* stands on an accepted write, for any number of clicks                   *)
(* (ArchitectureDiagram.tsx, HeroPipelineFlow.tsx, page.tsx:195-213).      *)
THEOREM PartsAnimationsAreInStep == PartsSpec => []AnimationsAreInStep
<1> DEFINE Inv == DiagramIInv /\ HeroTypeOK /\ OneTimeoutWhilePlaying /\ BadgesIInv
<1>1. PartsInit => Inv
  BY DiagramInitHolds, HeroTypeInit, BadgesInitHolds
  DEF PartsInit, HeroInit, OneTimeoutWhilePlaying
<1>2. Inv /\ [PartsNext]_partsVars => Inv'
  BY StepOfEachPart, DiagramStep, HeroTypeStep, HeroStep, BadgesStep
<1>3. Inv => AnimationsAreInStep
  BY DrawingTellsOneStory, HeroStory
  DEF DiagramIInv, DiagramTypeOK, BadgesIInv, AnimationsAreInStep
<1> QED
  BY <1>1, <1>2, <1>3, PTL DEF PartsSpec

(* Nothing of a log is processed twice or out of order and no line that    *)
(* was written at once is parted, for every number of lines, of rotations  *)
(* and of restarts and wherever a read ends; and an address is blocked for *)
(* the time of its last BlockIP (server.go:141-167, waf.go:35-92).         *)
THEOREM PartsNothingTwiceNothingEarly == PartsSpec => []NothingTwiceNothingEarly
<1> DEFINE Inv == OrderIInv /\ WholeIInv /\ BlocklistIInv
<1>1. PartsInit => Inv
  BY OrderInitHolds, WholeInitHolds, BlocklistInitHolds DEF PartsInit
<1>2. Inv /\ [PartsNext]_partsVars => Inv'
  BY StepOfEachPart, OrderStep, WholeStep, BlocklistStep
<1>3. BlocklistIInv => BlockedForItsTime
  BY DEF BlocklistIInv, BlockedForItsTime, IsBlocked
<1>4. Inv => NothingTwiceNothingEarly
  BY <1>3, OrderIsNothingTwice, WholeIsWhole DEF NothingTwiceNothingEarly
<1> QED
  BY <1>1, <1>2, <1>4, PTL DEF PartsSpec

(* The badge and the "valid" mark are earned in the admission chain, and   *)
(* the manifests beside the autoscaler follow it, for every number that    *)
(* can be typed and every position of the sliders (PolicyStudio.tsx:77-212, *)
(* CrdPlayground.tsx:27-167, admission.go).                                *)
THEOREM PartsManifestsAreSound == PartsSpec => []ManifestsAreSound
<1> DEFINE Inv == StudioIInv /\ FormIInv
<1>1. PartsInit => Inv
  BY StudioInitHolds, FormInitHolds DEF PartsInit
<1>2. Inv /\ [PartsNext]_partsVars => Inv'
  BY StepOfEachPart, StudioStep, FormStep
<1>3. Inv => ManifestsAreSound
  BY BadgeHolds, BackendsHold, FormIsSound DEF ManifestsAreSound
<1> QED
  BY <1>1, <1>2, <1>3, PTL DEF PartsSpec

(* A scenario left alone ends with normal traffic, no fault, and none of   *)
(* the alerts it raised, for every number of pods, every payload and       *)
(* template and whatever happened before it (dashboard/page.tsx:437-684).  *)
THEOREM PartsScenarioRestores == PartsSpec => ScenarioRestores
<1> DEFINE Inv == LabIInv /\ LabShape /\ RestoreIInv
<1>1. PartsInit => Inv
  <2>1. LabInit => RestoreIInv
    BY DEF LabInit, RestoreIInv
  <2> QED
    BY <2>1, LabInitHolds, LabShapeInit DEF PartsInit
<1>2. Inv /\ [PartsNext]_partsVars => Inv'
  BY StepOfEachPart, LabStep, LabShapeStep, RestoreStep DEF LabIInv
<1>3. Inv /\ [PartsNext]_partsVars => [Restored]_labVars
  BY StepOfEachPart, RestoreStep
<1> QED
  BY <1>1, <1>2, <1>3, PTL DEF PartsSpec, ScenarioRestores, Restored

(* No event shortens the back-off, leaves a gap in an export, changes      *)
(* several parameters unless to those of a sound preset, takes a snippet's *)
(* badge down early, skips a stage before the first resume or moves the    *)
(* stage during a pause (useDaemonStream.ts:189-197, dashboard/page.tsx,   *)
(* PolicyStudio.tsx, snippet.tsx:66-83, ArchitectureDiagram.tsx:32-60).    *)
THEOREM PartsStepsKeepTheirLimits == PartsSpec => StepsKeepTheirLimits
<1> DEFINE Inv == DelayIInv /\ ConsoleIInv /\ StudioIInv /\ BadgesIInv /\ DiagramIInv
<1>1. PartsInit => Inv
  <2>1. StreamInit => DelayIInv
    BY DEF StreamInit, DelayIInv, Saturation
  <2> QED
    BY <2>1, ConsoleInitHolds, StudioInitHolds, BadgesInitHolds, DiagramInitHolds DEF PartsInit
<1>2. Inv /\ [PartsNext]_partsVars => Inv'
  BY StepOfEachPart, DelayStep, ConsoleStep, StudioStep, BadgesStep, DiagramStep
<1>3. PartsSpec => []Inv
  BY <1>1, <1>2, PTL DEF PartsSpec
<1>4. PartsSpec => BackoffGrows
  <2>1. DelayIInv /\ [PartsNext]_partsVars =>
          [timer' > 0 /\ timer' # timer
             => timer' <= 30000 /\ (timer' >= lastDelay \/ failCount' = 1)]_streamVars
    BY StepOfEachPart, DelayStep DEF Waits
  <2> QED
    BY <1>3, <2>1, PTL DEF PartsSpec, BackoffGrows
<1>5. PartsSpec => ExportHasNoGap
  <2>1. ConsoleIInv /\ [PartsNext]_partsVars =>
          [logFile' # logFile /\ logFile' # <<>>
             => \A k \in 1..Len(accepted) :
                  /\ accepted[k].serial >= logFile'[1].serial
                  => \E j \in 1..Len(logFile') : logFile'[j] = accepted[k]]_consoleVars
    BY StepOfEachPart, ExportStep
  <2> QED
    BY <1>3, <2>1, PTL DEF PartsSpec, ExportHasNoGap
<1>6. PartsSpec => PresetRepairs
  <2>1. StudioIInv /\ [PartsNext]_partsVars =>
          [(\E f, g \in DOMAIN policy :
              f # g /\ policy'[f] # policy[f] /\ policy'[g] # policy[g])
             => /\ Admitted(AutoscalerManifest(policy'))
                /\ ThreatManifest(policy').lockMinReplicas <= policy'.max]_studioVars
    BY StepOfEachPart, PresetStep
  <2> QED
    BY <1>3, <2>1, PTL DEF PartsSpec, PresetRepairs
<1>7. PartsSpec => SnippetKeepsItsTime
  <2>1. BadgesIInv /\ [PartsNext]_partsVars =>
          [\A b \in Clearing : b \in copied /\ b \notin copied' => armedFor'[b] = 0]_badgeVars
    BY StepOfEachPart, SnippetStep
  <2> QED
    BY <1>3, <2>1, PTL DEF PartsSpec, SnippetKeepsItsTime
<1>8. PartsSpec => InOrderUntilResumed /\ PausedIsStill
  <2>1. DiagramIInv /\ [PartsNext]_partsVars =>
          /\ [resumes = 0 /\ presses' = presses /\ stage' # stage
                => stage' = Following(stage)]_diagramVars
          /\ [paused = "yes" /\ presses' = presses => stage' = stage]_diagramVars
    BY StepOfEachPart, DiagramSteps
  <2> QED
    BY <1>3, <2>1, PTL DEF PartsSpec, InOrderUntilResumed, PausedIsStill
<1> QED
  BY <1>4, <1>5, <1>6, <1>7, <1>8 DEF StepsKeepTheirLimits

(* Every part keeps its types, for every value of every constant.          *)
THEOREM PartsTyped == PartsSpec => []PartsTypeOK
<1> DEFINE Daemons == /\ OrderIInv /\ WholeIInv /\ TailerShape /\ BlocklistTypeOK
                      /\ StreamTypeOK /\ SessionShape
           Boards == /\ LabIInv /\ LabShape /\ ConsoleIInv /\ StoreIInv /\ TopologyIInv
           Pages == /\ StudioIInv /\ FormIInv /\ BadgesIInv /\ DiagramIInv /\ HeroTypeOK
           Inv == part \in PartNames /\ Daemons /\ Boards /\ Pages
<1>1. PartsInit => Inv
  BY OrderInitHolds, WholeInitHolds, TailerShapeInit, BlocklistTypeInit, StreamTypeInit,
     SessionTypeInit, LabInitHolds, LabShapeInit, ConsoleInitHolds, StoreInitHolds,
     TopologyInitHolds, StudioInitHolds, FormInitHolds, BadgesInitHolds, DiagramInitHolds,
     HeroTypeInit DEF PartsInit
<1>2. Inv /\ [PartsNext]_partsVars => Inv'
  <2>1. Daemons /\ [PartsNext]_partsVars => Daemons'
    BY StepOfEachPart, OrderStep, WholeStep, TailerShapeStep, BlocklistTypeStep,
       StreamTypeStep, SessionTypeStep
  <2>2. Boards /\ [PartsNext]_partsVars => Boards'
    BY StepOfEachPart, LabStep, LabShapeStep, ConsoleStep, StoreStep, TopologyStep DEF LabIInv
  <2>3. Pages /\ [PartsNext]_partsVars => Pages'
    BY StepOfEachPart, StudioStep, FormStep, BadgesStep, DiagramStep, HeroTypeStep
  <2> HIDE DEF Daemons, Boards, Pages
  <2> QED
    BY <2>1, <2>2, <2>3, StepOfEachPart
<1>3. Inv => PartsTypeOK
  <2>1. Boards => LabTypeOK
    BY DEF LabIInv, LabShape, LabTypeOK, Rates, Messages
  <2>2. Daemons => TailerTypeOK /\ BlocklistTypeOK /\ SessionTypeOK /\ StreamTypeOK
    BY TailerTyped, SessionTyped
  <2>3. Boards => ConsoleTypeOK /\ StoreTypeOK /\ TopologyTypeOK
    BY ConsoleTyped DEF StoreIInv, TopologyIInv
  <2>4. Pages => StudioTypeOK /\ FormTypeOK /\ BadgesTypeOK /\ DiagramTypeOK /\ HeroTypeOK
    BY StudioTyped, FormTyped, BadgesTyped DEF DiagramIInv
  <2> HIDE DEF Daemons, Boards, Pages
  <2> QED
    BY <2>1, <2>2, <2>3, <2>4 DEF PartsTypeOK
<1> QED
  BY <1>1, <1>2, <1>3, PTL DEF PartsSpec

(* A part runs among the others as it runs by itself, so what is proved of *)
(* it alone holds of the whole.                                            *)
THEOREM PartsRunEachPart ==
  PartsSpec => StreamSpec /\ BlocklistSpec /\ SessionSpec /\ BadgesSpec /\ HeroSpec
<1>1. PartsInit => StreamInit /\ BlocklistInit /\ SessionInit /\ BadgesInit /\ HeroInit
  BY DEF PartsInit
<1> QED
  BY <1>1, StepOfEachPart, PTL
  DEF PartsSpec, StreamSpec, BlocklistSpec, SessionSpec, BadgesSpec, HeroSpec

=============================================================================
