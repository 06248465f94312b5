# LogStrata: specification and verification

LogStrata scales a workload from its access log. A **daemon** tails the log,
counts requests in a sliding window, watches for brute-force logins and keeps
a replica count of its own. A **controller** polls the daemon's status,
decides the workload's replica count, and falls back to the native HPA when
the daemon goes silent. A **web site** shows both: a dashboard fed by the
daemon's event stream, or by a simulation of it, policy editors, and animated
explanations. This directory holds TLA+ models of that code, their TLC
configurations and TLAPS proofs. `PROJECT.json` lists components, runs,
mutations, the map from definitions to source lines, findings, hazards and
theorems; this file explains them.

Line numbers are those of the files under `pkg/`, `cmd/` and `src/`.

## 1. Inventory

### Daemon and controller

| Part | State | Operations | What is hard | What makes it correct |
|---|---|---|---|---|
| Circuit breaker `pkg/controller/failover.go` | circuit, two streaks, two timestamps | RecordHeartbeat, RecordFailure, CheckLiveness, ShouldYieldToHPA | three callers (poll loop, HTTP handler, timers) in any order | closes only on good signals, trips within budget, never by a timer alone into CLOSED |
| Scaling engine `pkg/scaler/scaler.go` | time and type of the last scaling | Evaluate | cooldowns, lock, rounding and bounds meet in one decision | bounds; capacity is not taken away early; a steady load gets its count |
| Sliding window `pkg/engine/engine.go` | ring of one-second buckets | Record, GetSnapshot | slots shared by seconds, late and reordered records, samples cut off | every snapshot is the exact sum over its window, its percentiles are in order |
| Anomaly detector `pkg/detector/detector.go` | failures per address, block expiries, lock expiry | InspectLog, EvaluateWindow, IsScaleDownLocked, GetBlockedIPs | pruning by stamps that arrive out of order | floods are blocked, nothing else is; the lock covers every block |
| Daemon server `cmd/logstrata-daemon/server.go` | count, last decision, threats, under `ds.mu` | ProcessLine, evaluation loop, status and stream handlers, Stop | many goroutines, one RWMutex held while a client reads | consistent answers, progress of every line and of the loop |
| File tailer, same file | a reader and its position | read, sleep, stop, restart | partial lines, renamed and cut files | every line once, whole and in order; it reaches the end |
| Policy reconciler `pkg/controller/reconciler.go` | an engine | Reconcile | runs on reported, not measured, counts | a patch is in bounds and honours the lock |
| Controller `cmd/logstrata-controller/controller.go` | poll loop, breaker, last patch, mitigations, history | FetchTelemetry, Step, handlers, Stop | breaker and Step in different critical sections; time; dead daemon | failsafe engages in time, never spuriously, and control returns |
| Notifier `pkg/notifier/notifier.go` | none | Dispatch | fire and forget, one goroutine each | (no promise of order or delivery) |
| Blocklist manager `pkg/waf/waf.go` | entries with TTL | BlockIP, IsBlocked, CleanupExpired | expiry against cleanup; unused by both processes | blocked for the time of the last block, to the instant |
| Admission `pkg/admission/admission.go`, `deploy/crds` | none | validate, mutate | the same limits written again in two editors | the editors' manifests are what the cluster admits |

The tailer and ingest requests call `ProcessLine`, which feeds the window and
the detector under their own mutexes and then `ds.mu`. The evaluation loop
reads both and writes the daemon's count under `ds.mu`. `/api/v1/status` reads
all of it under `ds.mu.RLock`. The controller's loop gets that status over HTTP,
feeds the breaker, asks it, and runs `Step` under `cs.mu`;
`GET /api/v1/reconciliations` consults the breaker's timers meanwhile. Nothing
feeds the workload's actual size back to either process, and nothing is
persisted.

### Web site

| Part | State | Operations | What is hard | What makes it correct |
|---|---|---|---|---|
| Stream hook `hooks/useDaemonStream.ts` | EventSource, back-off, simulation interval, connection state | open, message, error, reconnect, change of address, unmount | events and timers of a replaced source; the interval follows the *committed* state | the state shown is that of the transport; nothing outlives the component; it reconnects |
| Simulator `app/dashboard/page.tsx` | traffic, faults, anomaly, scenario, alerts, pods | one-second tick, clicks, payloads | clicks and the tick read the values of an older render; the tick's own interval is restarted by every commit | limits hold, alerts are current, scenarios restore what they changed; if the tick goes on firing they end and an empty cluster revives |
| Log terminal, same file | entries, pause, filter | append, clear, export | a ref that follows the state one effect later | the newest lines, no gap in an export |
| Templates, same file | list per tab, local storage | save, load, delete | tabs overwrite each other's lists | names are keys, the last writer sees what a reload brings |
| Pod map `components/ClusterTopologyMap.tsx` | zone, inspected pod | select, close | the list changes under an open drawer | even placement, the drawer names the right node |
| Sign-in, header, dashboard guard `sign-in-flow-1.tsx`, `Header.tsx` | route, session as each sees it, pending requests and pushes | visit, submit, log out | answers to pages that are gone, other tabs, refused requests | all places agree with the session; nobody waits for ever |
| Policy studio `PolicyStudio.tsx`, CRD playground `CrdPlayground.tsx` | form, tab, back end | edit, preset, export | validation written three times | badges and "valid" marks are earned, back ends agree |
| Copy badges (five components) | badge, timers | click, clipboard's answer, timer | timers that nothing cancels, refused clipboards | a badge comes down, and says the truth where it waited for it |
| Architecture animation `ArchitectureDiagram.tsx` | stage, timer | pause, resume, select, timeout | two timeouts of which one can be cleared | one story per stage, in order until resumed, still while paused |
| Hero pipeline `flow/HeroPipelineFlow.tsx` | scenario, play, timer | tabs, play, timeout | timer against clicks | one timeout while playing, one story per scenario |

These parts share no variable with each other, but for the payloads and pods
that reach the simulator and the pod map as inputs.

### Not modelled

* **Log parser** `pkg/parser`: regular expressions and number parsing from text
  to a record, without state; the models take records.
* **Rate-limiter, WAF and NetworkPolicy generators**: text in, text out. The
  studio's four back ends, which produce the same things, are modelled as to
  the limits they contain.
* **Diagnostic CLI** `cmd/logstrata-cli`: a sequential front end, one call after
  the other; its offline evaluator reuses the engines modelled here.
* **Documentation pages, benchmark view, landing-page content**: constant text
  with tabs and search. Statements made there are what several findings quote.
* **Charts, manifests, scripts, flags, signals and listeners**: deployment. Two
  controller replicas without leader election are what a next module would add.

## 2. Modules

| Module | Models | How it corresponds |
|---|---|---|
| `Breaker` | what a circuit breaker promises | abstract: circuit and last signal only |
| `Watchdog` | failover.go | one action per method, each being one critical section of `w.mu`; timestamps are ages that saturate just beyond the limit they are compared with, counters saturate at their limit |
| `MCWatchdog` | `Watchdog` plus a probe counter | the counter is what the tests speak of and the code does not keep |
| `DecisionEngine` | scaler.go | `Decide` is the chain of returns of Evaluate, `Remember` what it stores; load is requests per window, so the float formula is a rounded-up quotient of whole numbers |
| `ScalingLoop` | the daemon's tick, server.go:125-134 | one action from Lock to Unlock; load and lock belong to the environment |
| `Clock` | the daemon's clock | the seconds a record that is stored now can be stamped with; extended by the next two |
| `SlidingWindow` | engine.go | `Record` and the sums and percentiles of `GetSnapshot`; `seen` is a history of all that was recorded |
| `Detector`, `MCDetector` | detector.go | the list of failures of an address is a tally per second, as it is only filtered and counted; expiries are absolute times; `failed` is a history |
| `Daemon` | server.go | program counters for the lines of ProcessLine, the loop, the status handler and the event stream; `holders`, `writer` and the pending writers are the RWMutex |
| `Snapshots` | what the clients of status and stream may rely on | abstract: decisions and answers in single steps; `Daemon` implements it |
| `Controller` | controller.go with reconciler.go, notifier.go | program counter of the loop, ticker with its one-place channel, HTTP timeout, Step as one critical section; `INSTANCE Watchdog`, `EXTENDS DecisionEngine` |
| `ScalingSystem` | both processes | two instances of `DecisionEngine`; the daemon's evaluation is one step, the controller's poll and the `Step` that acts on its answer are two; restarts. `patchAge` and `patchedBy` are a history of the last patch |
| `LogTailer` | StartFileTailer, server.go:141-168 | a line is a head and a rest with the newline, so that a read can end inside it; buffer and offset are the bufio.Reader; renaming, cutting and restarting are external |
| `Blocklist` | waf.go:19-92 | one action per method; time left instead of expiry times; `promised` is the history of the last block |
| `Session` | sign-in-flow-1.tsx, Header.tsx, the guard of dashboard/page.tsx | a counter per kind of question still unanswered; `orphans` are the requests and `pushes` the timers of a page that was left |
| `DaemonStream` | useDaemonStream.ts | `conn` is the state set, `shown` the one React committed; sources have names, and a closed one delivers nothing |
| `ChaosLab` | the simulator of dashboard/page.tsx | `seen` is what the last render showed, which clicks and the tick read; `fired` are the intervals that fired since, and a commit starts the tick's over; a template is one of the `Configurations` that can be saved |
| `LogConsole`, `TemplateStore`, `Topology` | the terminal, templates and pod map | entries carry serial numbers; a list of templates is a set of names, each with the save that wrote it; a pod is a number and its place an operator of its index |
| `Admission` | admission.go and the two CRDs | operators on records of the fields a manifest has; `Mutate` fills the fields that are missing; counts are in halves, as a number field yields 1.5 and the cluster's integers refuse it |
| `PolicyStudio`, `CrdPlayground` | the two editors | EXTEND `Admission`; the manifests are records, the badges operators |
| `CopyBadges` | the badges of five components | three kinds of badge: that wait for the clipboard, that do not, that clear their earlier timer |
| `ArchitectureDiagram`, `HeroPipeline` | the two animations | the timers are state; what nodes, edges and widgets show are functions of the stage |
| `Parts` | one of 13 independent parts, chosen at the start | a behaviour is one part's behaviour while the rest stays where it begins: the state space is the sum of theirs and not the product |

Components compose: `Controller` contains `Watchdog` and `DecisionEngine`,
`ScalingLoop` extends `DecisionEngine`, `ScalingSystem` instantiates it twice,
the two editors extend `Admission`. Parts that never meet are gathered in
`Parts`, where nothing is said about two of them.

Definitions whose names start with `Faulty`, `Blind`, `Mute`, `Unpruned`,
`Doubled`, `Restless`, `LockBlind`, `Deaf`, `Hasty`, `Forgetful`, `Stacking` or
`NeverExpired` are variants with a plausible bug. No specification uses them;
each is put in the place of the definition of the same name to see that a
property can fail. Where a property of `Parts` is a conjunction every conjunct
has a variant of its own that breaks it; `PROJECT.json` names one for each
property.

External, modelled from how the code uses it: the workload (it has the count
last patched to it; the code logs its patch and would send it to Kubernetes),
the daemon as the HTTP client and the browser see it (up or down),
`sync.RWMutex` (a waiting writer keeps new readers out), the log file, its
writer and its rotation, the authentication service, browser storage and
clipboard, React's commits, traffic and threats.

## 3. Runs

| Run | Question | Bounds, and why they are enough |
|---|---|---|
| `watchdog` | Do the streaks and the circuit agree under every interleaving, and is it a circuit breaker? | the production limits 3, 8 s, 15 s at one tick a second; saturation makes it complete for them |
| `scaling_loop` | Spacing of scalings, reported target, convergence | 1 to 4 replicas, cooldowns 2 and 4, loads below, at and above a whole pod and far above the maximum: every branch of Evaluate and every overlap of the cooldowns occurs |
| `window` | Is every snapshot exact? | a ring of 3, time 0..4 (more than one turn), records up to 2 s late, 2 per second, one tallied class beside the untallied one, three kinds of record, one latency kept per second so that the cap bites; trailing lengths -1..4 |
| `detector` | Floods blocked, nothing else, lock covers blocks | two addresses, window 1, limit 2, block 2, lateness 1, time 0..4: a block can expire, be renewed and a record be pruned and come late |
| `daemon` | Consistent answers; does everything progress? | a worker, a status reader, an event stream and the loop; 1 or 2 replicas; a list cap of 1 and two anomalous windows, so that breaches trim and the loop's untrimmed appends push the list beyond its cap twice |
| `controller` | Does the failsafe engage in time, never spuriously, and release? What survives a stall? | timings in the production order (poll 1, client timeout 2; 2 failures, heartbeat 4, cool-off 7); a report with no count and one with a count outside the policy; stalls of 1, which the heartbeat timeout covers, and 5, which outlast it, so that the loop also yields; webhook on |
| `system` | Do the two engines together bound and follow the load, with restarts and answers that are out of date? | policies that differ as in production (150 and 120 rps per pod become 5 and 4), up to 3 replicas so that a raise can be followed by a higher one, cooldowns 1 and 2, loads of one pod, of two and beyond the maximum, restarts of either process at any point of a poll |
| `parts` | Does each remaining part keep its promises by itself? | below |

Four runs show a disagreement (section 6): `watchdog_probes`, `daemon_lock`,
`controller_mitigations`, `system_follows`.

Bounds of `parts`: 2 lines and 2 mishaps (a line behind, one half written, and
a rotation followed by a restart); 2 addresses blocked for 1 or 3; 3 acts of a
visitor (sign in, leave, log out) with answers in any order; a reconnection
delay of 4 s, which reaches the cut at 30 s within the saturated failure count;
3 pods of which 2 are the baseline, 2 steps of memory, payloads with 0 and with
4 pods (absent and above the limit), 2 clicks, the tick, the pods' interval and
payloads in any order between two commits;
a terminal of 2 lines fed 3; 2 tabs, 2 names, 2 saves; up to 4 of 6 pods ever
created over 3 nodes; 2 edits in either editor with values at both ends of each
slider, in and outside of each number field and a fraction (counts are in
halves: 13 and 3 are 6.5 and 1.5); 3 copies, one badge of each of the
three kinds; 3 presses on either animation (pause, resume, select).

What the properties say, beside the type invariants:

* `ClosedWithinBudget`, `OneStreak`: the two streaks never contradict each
  other or a closed circuit. `ImplementsBreaker`: the watchdog refines `Breaker`
  under the mapping circuit <- state, evidence <- the signal read off the streaks.
* `DownsSpaced`, `UpsSpaced`: the engine remembers one scaling only, yet a
  lowering always waits a whole cooldown after *any* scaling, and two raises
  are an up cooldown apart even with a lowering between them. `Settles`: a
  steady load without a lock gets its count.
* `RingIsExact`, `SnapshotIsExact`: late records never evict or pollute a
  bucket the window still needs; sums, the last second and percentiles follow.
* `FloodIsBlocked`, `BlockedOnlyByFlood`: the two directions of detection,
  with lateness accounted for on the correct side of each. `LockCoversBlocks`:
  no block outlives the lock.
* `AnswersAreSnapshots`: the daemon refines `Snapshots` under the mapping count
  <- the count, target <- the decision it will store, told <- what a reader
  began to read: an answer is what held at one moment, never a mix of two
  evaluations.
  `LinesComplete`, `LoopDecides`: no goroutine waits for ever, and a stream whose
  client does not read holds up nobody, as it flushes outside the mutex.
* `FailsafeEngages`: a daemon dead for longer than `DetectionBound` (the stall
  plus one more poll than the budget, each at its slowest) finds the circuit out
  of CLOSED. `NoSpuriousTrip`: if the heartbeat timeout covers the gap between
  heartbeats, a daemon up for longer than it is never the cause of a trip.
  `Recovers`: under the same condition control returns for good.
  `NoPatchWhileOpen`: only a loop that lost more than the heartbeat timeout
  between its answer and its Step patches while OPEN. `PatchesInBounds`: no
  report, however absurd its count, takes the patch out of the policy.
* `FollowsWhereEnginesDiffer`: for loads the two policies answer differently
  the workload ends at the controller's answer. `LockKeepsReportedCount`: a
  patch that cuts under a held lock stays above the daemon's count, unless the
  daemon raised it or engaged the lock after it composed the answer that `Step`
  acts on; each of the two exceptions does happen. `CutsSpaced`: a cut of the
  workload comes a down cooldown after its last patch, but for one by a
  controller that was restarted since, and for a raise from a reported count
  that is below what the workload has.
* `ThreatsBounded`: ProcessLine takes off what it adds over the cap of the list
  of threats; the loop does not, so the list outgrows the cap by one entry for
  each anomalous window, and by nothing else.

The properties of `parts` are grouped, each conjunct speaking of one part:

| Property | Conjuncts |
|---|---|
| `NothingTwiceNothingEarly` | tailer: `NothingTwice`, `WholeLinesStayWhole`; blocklist: `BlockedForItsTime` |
| `EveryoneAgrees` | header and dashboard against the session, whenever no answer of theirs is on its way |
| `ViewFollowsTransport` | `StateMatchesTransport`, `NothingLeaks` |
| `PodsAndAlertsAreCurrent` | `PodsBounded` (a tick and a click on a stale render can each pass the limit, or what a payload made of it, by one), `CpuAlertIsCurrent` |
| `ListsAreInStep` | `KeepsNewest`; `NamesAreKeys`, `LastWriterSurvivesReload`; `DrawerIsInPlace`, `PlacementIsFair` |
| `ManifestsAreSound` | studio: `BadgeIsEarned`, `BackendsAgree`; playground: `ValidatorAgreesWithWebhook`, `ExportsAreSound`; both but for fractions, which the form takes and the cluster refuses |
| `AnimationsAreInStep` | `ChainsBounded`, `TellsOneStory`; `OneTimeoutWhilePlaying`, `PipelineTellsOneStory`; `HomeBadgesAreTrue` |
| `BackgroundWorkEnds` | `TailerCatchesUp`, `EntriesGo` |
| `VisitorsGetIn` | `SignInEnds`, `SignedInReachDashboard` |
| `StreamReconnects` | `Reconnects` |
| `ScenarioRestores` | a scenario left alone ends in normal traffic without its faults and alerts; alerts and pods from before it stay, by the code |
| `LabRecovers` | if the tick goes on firing (`TickGoesOn`): `ScenarioEnds`, `ClusterRevives` |
| `ScreensGoOn` | `LoopGoesOn`, `CycleVisitsAll`, `BadgeComesDown` |
| `StepsKeepTheirLimits` | `BackoffGrows`, `ExportHasNoGap`, `PresetRepairs`, `SnippetKeepsItsTime`, `InOrderUntilResumed`, `PausedIsStill` |

Deadlock is checked except in `window`, `detector` and `parts`. The clocks of
the first two are bounded and so the models stop; in `parts` a tailer that was
stopped, or an editor whose edits are used up, has nothing more to do. In the
other modules some environment step is always possible, so that deadlock
freedom says little there; progress is stated by the liveness properties.

### Bounds, by name

`MaxTime` (the clock of `SlidingWindow` and `Detector`), `MaxPerSecond`
(records stamped with one second) and `MaxLate` (seconds between parsing a line
and storing it), all three of `Clock`, `MaxAnomalies` (anomalous windows in a behaviour: the loop's entries are never trimmed),
`Stalls` (each behaviour of the controller loses at most one of these between
answer and Step), `StatusHorizon` (where the history of the daemon's status
saturates), `MaxLines`, `MaxMishaps`, `MaxVisitorActs`, `MaxClicks`,
`MaxEntries`, `MaxSaves`, `MaxListed`, `MaxCreated`, `MaxStudioEdits`,
`MaxFormEdits`, `MaxCopies`, `MaxPresses`, `MaxHeroClicks` (what users and the
environment do), `Saturation` (failures counted by the hook, beyond which its
delay no longer changes). `MaxSamples`, `MaxLogs`, `MaxPods` and `ThreatCap` are
not bounds of the models but limits of the code, made small. Ages saturate and
are no bounds: no test tells values beyond the limit apart.

### Fairness

* `ScalingLoop`, `ScalingSystem`, `Controller`: weak fairness of the loop and
  of time. A Go ticker keeps firing and the runtime schedules every runnable
  goroutine; `Stop` ends the loop, and the properties say so. Nothing is assumed
  of traffic, the daemon's health or handlers.
* `Daemon`: strong fairness of each acquisition of `ds.mu`, since `sync.Mutex`
  hands over to a goroutine that starved for a millisecond and RWMutex lets no
  new reader pass a waiting writer; weak fairness of everything that needs no
  mutex. Clients are assumed to read the *status* they asked for, which is not
  the code's doing: the listener has no write timeout (hazard at server.go:216).
  Nothing is asked of the client of a stream.
* `Parts`: the tailer's goroutine runs and a line begun is finished
  (`TailerFairness`); time passes and the cleanup's ticker fires
  (`BlocklistFairness`); requests are answered or refused (`SessionFairness`);
  the browser opens or fails what it was asked to open, timers fire and React
  commits (`StreamFairness`, `TimeoutFairness`). Of the simulator only payloads and
  commits are fair (`LabFairness`). Nothing is assumed of its tick: every commit
  with another array of pods clears its interval and arms a new one of 1000 ms
  (dashboard/page.tsx:892-899), and the pods' interval makes another array every
  1000 ms (line 551), so which of the two comes first is the browser's timing.
  `LabRecovers` is therefore conditional: if the tick fires again and again, a
  scenario ends and a cluster revives. It may never fire in the model, and then
  neither need happen.

## 4. Proofs

All theorems hold for every value of the constants that meets the named
assumptions of their modules: `WatchdogAssumption`, `PolicyAssumption`,
`LoadsAssumption`, `ClockAssumption`, `WindowAssumption`, `DetectorAssumption`,
`DaemonAssumption`, `ControllerAssumption`, `SystemAssumption`, and for the
parts `TailerAssumption`, `BlocklistAssumption`, `SessionAssumption`,
`StreamAssumption`, `LabAssumption`, `TemplatesAssumption`,
`ConsoleAssumption`, `StoreAssumption`, `TopologyAssumption`,
`StudioAssumption`, `FormAssumption`, `BadgeAssumption`, `DiagramAssumption`,
`HeroAssumption`. TLC evaluates every one of them in the runs. They ask for
numbers to be numbers and sets to have a type, and beyond that:

* a policy's minimum is no more than its maximum, as the admission webhook
  demands (admission.go:191) and the defaults have it; in `Daemon` it is less.
  Limits and intervals that the code divides by, or that a timer is made from,
  are not 0;
* ScaleUpCooldown <= ScaleDownCooldown (`LoadsAssumption`), as both
  constructors have it;
* MaxLate < BufferSize (`WindowAssumption`): a record is stored before the ring
  comes round to its slot;
* `Templates \subseteq Configurations` (`TemplatesAssumption`): a template that
  is loaded is one that `handleSaveTemplate` can have saved;
* the limits leave room for the three pods the dashboard starts with
  (`TopologyAssumption`), a baseline is among the pods allowed
  (`LabAssumption`), sliders stop at their ends (`StudioAssumption`,
  `FormAssumption`).

Each safety theorem follows the same argument: the inductive invariant holds
initially, is kept by every step, and implies the property. Every invariant
and every action property that a passing run checks is proved; what is left to
TLC is liveness.

| Module | Theorems | Inductive invariant and why it is needed |
|---|---|---|
| `WatchdogProofs` | type, `ClosedWithinBudget`, `OneStreak`, refinement of `Breaker` | the three conjoined: HALF_OPEN can only close with failures cleared because the streaks exclude each other |
| `DecisionEngineProofs` | `DesiredInBounds` | none; lemmas on rounding up and on the shape of a decision |
| `ScalingLoopProofs` | type, `ReplicasInBounds`, `ReportedTargetIsCurrent`, `DownsSpaced`, `UpsSpaced`, `LoopCountsPermitted` | `LoopInv` relates the engine's single age to both histories: the age is never above either, and when the tag says DOWN the last raise is at least a down cooldown old, since the lowering that overwrote the tag waited that long. `LoopCountsPermitted` ties the loop to `Daemon`, which leaves the engine out: what the engine decides is what `Daemon` lets its loop decide |
| `ScalingSystemProofs` | type with both policies' bounds, `LockKeepsReportedCount`, `CutsSpaced` | the type is inductive; the lemmas on a decision are those of `DecisionEngineProofs`, instantiated for either engine. Under a lock that the answer shows a decision that scales goes above the count in the answer, which is the daemon's unless that was raised since. `EngineRemembersPatch`: while the controller that sent the last patch runs, its engine's age is no more than that patch's, so the engine's cooldown is one of the workload |
| `ControllerProofs` | type, `PatchesInBounds`, `NoPatchWhileOpen`, `FailsafeEngages`, `NoSpuriousTrip`, refinement of `Watchdog` | `PatchIInv`: the report held is a number; `StallIInv`: between answer and Step the heartbeat is no older than the stall, so no timer can trip unless the stall outlasts it; `PollIInv` and `SilenceIInv`: the clock of the ticker, the fetch and the failures so far bound how long a dead daemon has been silent, a period or a timeout per failure; `HeartbeatIInv`: the heartbeat's age is bounded by where the loop is in its poll. The refinement needs no mapping but the instance's: each step of the controller is one method of the watchdog, a tick of its clock, or none; with it what `WatchdogProofs` shows holds inside the controller |
| `TelemetryProofs` | ring: type, `RingIsExact`, `SnapshotIsExact`; detector: type, `LockCoversBlocks`, `FloodIsBlocked`, `BlockedOnlyByFlood` | below |
| `DaemonProofs` | type, `ThreatsBounded`, refinement of `Snapshots`, `AnswersAreConsistent`, `SomebodyMoves` | `ThreatsBounded` is inductive with the type: a worker's append either stays within the cap or takes an entry off; `AnswerIInv`: a reader excludes the writer; outside the critical section the decision equals the count or none was taken; what a reader has read is what is stored. With it each step of the daemon is one of `Snapshots` or hidden from its clients: the decision takes effect where the count changes, the answer where its reader takes the mutex, and the loop cannot be storing while somebody reads. `HeldOnTheWay`: only a reader on its way to its answer or the loop on its way to the end of the tick holds `ds.mu`; hence `SomebodyMoves`, the safety half of `LinesComplete` and `LoopDecides`, for any number of goroutines |
| `PartsProofs` | the invariants and action properties of `parts`, and that the composition implements each of its parts | below |

**Sums** (`TelemetryProofs`). A sum over a finite set is a fold, and the
prover has no induction over finite sets that it can instantiate. It does take
well-founded induction for a fixed set: the subsets of `Seconds` are ordered by
strict inclusion, and the counterexamples to a fact about a sum have a smallest
one. From that come `SumIsTotal` (what the models write is the sum that takes
one element off at a time), `TotalOfPart` (where all is 0 nothing is added) and
what the proofs cite: a sum grows by what one place grows, is monotone, and
does not change when its places are renamed one to one.

* `RingIInv`: a bucket stands in its second's slot with all that was seen of it
  (`Placed`), every second of the window that was seen is present (`Present`),
  nothing is seen of the future (`NoFuture`). It needs MaxLate < BufferSize:
  seconds less than a ring apart never share a slot. `SnapshotIsExact` follows
  state by state: the slots whose bucket counts are one to one with the seconds
  of the window that were seen, so a sum over slots is the sum over seconds;
  and of two percentiles of one sequence in order the larger rank stands later.
* `LockIInv`: no block expires later than one granted now, so renewing the lock
  covers all.
* `FloodIInv`: whatever an inspection could still count has not been pruned
  (`Intact`), since a record is inspected no earlier than it is stamped, and
  nothing is stamped with a second to come (`NoneToCome`). An inspection then
  counts at least what the history has of its window, and any flood ends with
  an inspection. The other direction, `BlockedOnlyByFlood`, needs only that a
  list holds no more than the history (`ListIInv`).

**Parts** (`PartsProofs`). Each part is proved by itself, from its own
specification; `StepOfEachPart` shows that a step of `Parts` is a step of one
part, or leaves its variables alone.

| Property | Inductive invariants |
|---|---|
| `ViewFollowsTransport`, `BackoffGrows` | `StreamIInv`: an unmounted hook holds nothing, and a failure always arms a positive delay; `DelayIInv`: the last delay is that of the failures in a row |
| `EveryoneAgrees` | `SessionIInv`: the dashboard shows somebody only while it is the page, and every asker that has no question open shows the session |
| `NothingTwiceNothingEarly` | `OrderIInv`: the pieces of all lines are ranked; what was handed on, the buffer and what is unread are each in strict order, each before the next, and nothing is ranked above the newest piece written, so that a new one finds its place behind everything. `WholeIInv`: unless the file was cut, the buffer is a piece of the file, and neither of its ends is inside of a line that was written at once. `BlocklistIInv`: an address with time left has its entry |
| `PodsAndAlertsAreCurrent`, `ScenarioRestores` | `LabIInv`: how far the pods are above the limit is at most what the tick that fired on the render shown has added, and a render that shows too many lets neither tick nor click add more, so both together pass it by two at most. `RestoreIInv`: how far the story of a scenario left alone has come at each reading of its timer, which faults are on and which alerts are gone |
| `ListsAreInStep` | `ConsoleIInv`: the terminal is an end of all that was accepted, which is in order. `StoreIInv`: names are keys in every list, the stored one included. `TopologyIInv`: no pod is listed twice. That no node has two pods more than another is counted: the pods of a node are one to one with 1..`Share`, and the shares of two nodes differ by one at most |
| `ManifestsAreSound` | `StudioIInv`, `FormIInv`: the values the fields can have, and that what was exported was valid when it was. The rest is about operators: what `Validate` admits is what the form accepts of whole counts, and what `Mutate` fills in stays within the limits |
| `AnimationsAreInStep` | `DiagramIInv`: no more timers are lost than there were resumptions, and before the first the only timer is that of the stage shown; the hero's own property is inductive as it stands; `BadgesIInv`: every timer of a waiting badge goes back to a granted write |
| `StepsKeepTheirLimits` | the above, and for each action the case that no other part moves what it speaks of |
| `PartsTypeOK` | the invariants above, with the shapes of the simulator's and the session's variables |

Only model-checked: liveness (`Settles`, `LinesComplete`, `LoopDecides`,
`Recovers`, `FollowsWhereEnginesDiffer`, `BackgroundWorkEnds`, `VisitorsGetIn`,
`StreamReconnects`, `LabRecovers`, `ScreensGoOn`), since the prover does not
reason about fairness. `TypeOK` of `Watchdog`, `SlidingWindow`, `Detector`,
`ScalingLoop`, `Daemon` and `Controller` and `ReplicasInBounds` are proved and have no run
of their own.

## 5. Abstractions

* Floats: rates are requests per window, factors are in hundredths, latencies
  whole numbers, so rounding of binary fractions just above a whole number is
  not modelled.
* Time is in whole ticks; an age of D + 1 stands for anything later than D.
  Browser timers fire in any order, whatever their delays, where no property
  depends on the delay.
* A controller's poll and the `Step` that acts on it are two steps in
  `ScalingSystem` and in `Controller`, where the HTTP call takes time as well.
* An evaluation of the daemon is one step in `ScalingLoop` and `ScalingSystem`
  and several in `Daemon`, which abstracts its result to any count the lock
  permits.
* The simulator's CPU is one of the ranges the code compares it with, its
  memory a few steps up to the OOM kill, a second of a scenario its rank.
* React: a click handler and an interval read the values of the last render, a
  functional update the newest, an update is committed within a second (so an
  interval fires at most once on a render), an effect runs after the commit that caused it. Where an
  effect cannot be overtaken by another event it belongs to the causing action.
* Texts are abstracted to what they claim: colours, counts, names of states.
* Left out: texts of manifests and messages, the capped history of results, HTTP
  status codes, the charts of the dashboard, styling.

## 6. Findings

* **`watchdog_probes`** A trip by `CheckLiveness` keeps `consecutiveSuccesses`
  counted while CLOSED, so the first heartbeat in HALF_OPEN closes the circuit.
  `failover_test.go` expects two, and takes only the path through RecordFailure.
* **`daemon_lock`** The lock is read under `ds.mu` and engaged outside of it:
  a lowering can follow the breach that was to prevent it.
* **`controller_mitigations`** `latestMitigations` is replaced by a report that
  names blocked addresses and by nothing else, so the last ones are served for
  ever, against the documented TTL.
* **`system_follows`** `Step` takes the daemon's own count for the current one.
  Once that meets the demand nothing is patched, whatever the workload has:
  after a dip in traffic the two part for good. For the same reason a patch
  called SCALE_UP can lower the workload, even under a held lock.

Met while reading and not given a run, being plain from a line or two.

Daemon and controller:

* the cool-off binds only CheckLiveness (failover.go:81 against its comment at
  22); the answer that probes in HALF_OPEN is acted upon (controller.go:275-281);
* notices are posted without order, retry or a look at the error
  (controller.go:204), and only for scaling patches (controller.go:193,
  `DocsClientPage.tsx:471`);
* a surge is reported and locks nothing (detector.go:124,
  `DocsClientPage.tsx:225`); right after a start the long window is divided by
  seconds before the process existed (detector.go:121); `ipAuthFails` and
  `blockedIPs` keep an entry for every address ever seen (detector.go:94);
* `handleIngest` ignores the scanner's error (server.go:203); a halted log
  stream is answered "HEALTHY" with a rate of 0 (server.go:222, `CHANGELOG.md:22`);
* a shorter BlockIP replaces a longer one (waf.go:41);
* chart replicas get a `--leader-elect` flag that the binary does not define
  (charts controller.yaml:55); the webhooks the chart registers are served by
  no command; the CRD lacks targetRPSPerPod and headroomFactor, which a cluster
  that prunes unknown fields would drop (the models keep them);
* a `Step` acts on an answer that may be out of date: a raise of the daemon's
  count or a lock engaged in between does not stop its cut
  (controller.go:266, 281).

Web site:

* the playground promises "production-ready, validated" resources
  (CrdPlayground.tsx:180). Under its "SCHEMA: VALID" the threat manifest has not
  one of the fields its CRD requires (line 101), and a fraction typed as a bound
  passes (line 268), while the CRD asks for an integer and `json.Unmarshal` for
  an `int` (admission.go:166): `ExportsAreSound` states both. The manifest also
  ignores the auto-block switch, and an error of a hidden tab disables the
  export (line 398);
* the simulator's one-second tick is restarted by every commit with other pods,
  which the pods' interval causes once a second by itself
  (dashboard/page.tsx:551, 892-899): whether a scenario advances is a race;
  a stale tick and a stale click take the pods to 14 of 12 (lines 529, 814);
* the studio shows "CRD VALIDATED" over a minimum above the maximum or a blank
  name (PolicyStudio.tsx:397); the landing page's sample manifests do not fit
  the CRDs;
* an aborted DDoS scenario leaves its alert (dashboard/page.tsx:671); a
  payload's pod count has no limit (line 273); two tabs overwrite each other's
  templates (line 351);
* the error of `signOut` is not looked at (Header.tsx:168); switching the
  mode while a request is under way changes what its success page says
  (sign-in-flow-1.tsx:555);
* the timers of the studio's, playground's and home page's badges are never
  cancelled, so a second copy loses its badge early (PolicyStudio.tsx:217).

## 7. What is left

1. Two controllers over one workload, as the chart deploys them, each with a
   breaker of its own; the notifier's order and loss.
2. The two processes in one specification at the grain of `Daemon` and
   `Controller`, with `ScalingSystem` as what it implements.
3. The window and the detector together from a cold start: the surge that a
   restart fakes.
4. Long lines and the limits of `handleIngest`.
5. Proofs: what is known of a part's liveness without fairness, as
   `SomebodyMoves` is of the daemon's, for the controller's loop and the
   sign-in flow.
