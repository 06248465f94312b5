---------------------------- MODULE DaemonStream ----------------------------
(***************************************************************************)
(* The dashboard's subscription to the daemon (hooks/useDaemonStream.ts):  *)
(* one effect keeps an EventSource alive, with a backed-off timer for the  *)
(* next attempt, another runs a simulation interval while the daemon is    *)
(* away.  The simulation follows the connection state React has COMMITTED  *)
(* (shown), the transport sets a newer one (conn) at any moment before.    *)
(*                                                                         *)
(* A closed EventSource delivers no event.  Timers fire in any order: only *)
(* their being armed, and the delay they were armed with, is kept.         *)
(***************************************************************************)
EXTENDS Integers

CONSTANTS
  ReconnectMs,      (* option reconnectMs: 0 disables reconnection         *)
  EnableSimulation, (* option enableSimulation: "on" or "off"              *)
  MinTarget, MaxTarget, StartReplicas, (* of the simulated ticks: 2, 10, 3 *)
  LiveReplicas      (* counts a live payload may carry                     *)

ASSUME StreamAssumption ==
  /\ ReconnectMs \in Nat
  /\ EnableSimulation \in {"on", "off"}
  /\ MinTarget \in Nat /\ MaxTarget \in Nat /\ StartReplicas \in Nat
  /\ MinTarget <= StartReplicas /\ StartReplicas <= MaxTarget
  /\ LiveReplicas \subseteq Nat

VARIABLES
  mounted,   (* "yes" until the component is unmounted                     *)
  support,   (* "yes" where the page has an EventSource                    *)
  url,       (* daemonUrl: "good", or "bad" when the constructor throws    *)
  conn,      (* connectionState as last set                                *)
  shown,     (* connectionState as last committed                          *)
  sources,   (* EventSources not yet closed, by name                       *)
  opened,    (* those whose onopen has run                                 *)
  esRef,     (* the source in esRef.current                                *)
  timer,     (* delay of the armed reconnection timer; 0 when none is      *)
  failCount, (* failures in a row, up to the count that no longer matters  *)
  sim,       (* the simulation interval: "on" or "off"                     *)
  from,      (* who wrote data: "nobody", "simulation" or "daemon"         *)
  replicas,  (* data.current_replicas                                      *)
  server,    (* external: the daemon's endpoint is "up" or "down"          *)
  lastDelay  (* history: the last delay since a success                    *)

transportVars == <<sources, opened, esRef, timer, failCount, lastDelay>>
dataVars == <<from, replicas>>

streamVars == <<mounted, support, url, conn, shown, transportVars, sim,
                dataVars, server>>

SourceNames == {"s1", "s2"}

Saturation == 6

Smaller(m, n) == IF m < n THEN m ELSE n

(* reconnectMs * 1.5^min(5, failCount - 1), at most half a minute.         *)
Threes == <<1, 3, 9, 27, 81, 243>>
Twos == <<1, 2, 4, 8, 16, 32>>

FaultyDelay(fails) == Smaller(30000, (ReconnectMs * 3) \div (2 * fails))

Delay(fails) ==
  LET k == Smaller(5, fails - 1) + 1 IN
  Smaller(30000, (ReconnectMs * Threes[k]) \div Twos[k])

Away == IF EnableSimulation = "on" THEN "simulated" ELSE "disconnected"

-----------------------------------------------------------------------------
(* The pieces of the stream effect.                                        *)

ScheduleReconnect ==
  /\ failCount' = Smaller(Saturation, failCount + 1)
  /\ timer' = Delay(failCount')
  /\ lastDelay' = timer'

(* openStream clears the timer and closes the source it knows of, the one  *)
(* in esRef; then it opens another.                                        *)
Connect(name, fails) ==
  /\ sources' = (sources \ {esRef}) \cup {name} /\ esRef' = name
  /\ opened' = opened \ {esRef}
  /\ timer' = 0 /\ failCount' = fails
  /\ lastDelay' = IF fails = 0 THEN 0 ELSE lastDelay
  /\ conn' = "connecting"

(* The constructor throws: the next attempt is due.                        *)
Refused(fails) ==
  /\ sources' = sources \ {esRef} /\ esRef' = "null" /\ opened' = opened \ {esRef}
  /\ failCount' = Smaller(Saturation, fails + 1)
  /\ timer' = Delay(failCount')
  /\ lastDelay' = timer'
  /\ conn' = Away

OpenStream(address, fails) ==
  IF address = "good" THEN \E name \in SourceNames \ sources : Connect(name, fails)
                      ELSE Refused(fails)

SimulatedCounts(replicasBefore, target) ==
  IF target > replicasBefore THEN {replicasBefore + 1}
  ELSE IF target < replicasBefore THEN {replicasBefore - 1, replicasBefore}
  ELSE {replicasBefore}

(* createSimulatedTick: the rate drifts, so any target may come up.        *)
SimulatedTick ==
  /\ from' = "simulation"
  /\ IF from = "nobody"
     THEN replicas' = StartReplicas
     ELSE \E target \in MinTarget..MaxTarget :
            replicas' \in SimulatedCounts(replicas, target)

StreamInit ==
  /\ mounted = "yes" /\ url = "good" /\ server \in {"up", "down"}
  /\ support \in {"yes", "no"}
  /\ conn = IF support = "yes" THEN "connecting" ELSE Away
  /\ shown = "uncommitted" /\ sim = "off"
  /\ sources = (IF support = "yes" THEN {"s1"} ELSE {})
  /\ esRef = (IF support = "yes" THEN "s1" ELSE "null")
  /\ opened = {} /\ timer = 0 /\ failCount = 0 /\ lastDelay = 0
  /\ from = "nobody" /\ replicas = 0

-----------------------------------------------------------------------------
(* The simulation effect runs when a new connection state is committed: it *)
(* drops the old interval, and starts one in the simulated state.          *)
FaultyCommitState ==
  /\ mounted = "yes" /\ shown # conn
  /\ shown' = conn
  /\ sim' = IF conn = "simulated" THEN "on" ELSE sim
  /\ IF conn = "simulated" /\ from = "nobody" THEN SimulatedTick
                                              ELSE UNCHANGED dataVars
  /\ UNCHANGED <<mounted, support, url, conn, transportVars, server>>

CommitState ==
  /\ mounted = "yes" /\ shown # conn
  /\ shown' = conn
  /\ sim' = IF conn = "simulated" THEN "on" ELSE "off"
  /\ IF conn = "simulated" /\ from = "nobody" THEN SimulatedTick
                                              ELSE UNCHANGED dataVars
  /\ UNCHANGED <<mounted, support, url, conn, transportVars, server>>

SimulationFires ==
  /\ sim = "on"
  /\ SimulatedTick
  /\ UNCHANGED <<mounted, support, url, conn, shown, transportVars, sim, server>>

OnOpen(es) ==
  /\ server = "up" /\ es \notin opened
  /\ opened' = opened \cup {es}
  /\ failCount' = 0 /\ lastDelay' = 0
  /\ conn' = "connected"
  /\ UNCHANGED <<mounted, support, url, shown, sources, esRef, timer, sim,
                 dataVars, server>>

(* A frame that parses; a malformed one changes nothing.                   *)
OnMessage(es) ==
  /\ server = "up" /\ es \in opened
  /\ from' = "daemon"
  /\ replicas' \in LiveReplicas
  /\ UNCHANGED <<mounted, support, url, conn, shown, transportVars, sim, server>>

(* Refused, dropped, or answered with an error.                            *)
FaultyOnError(es) ==
  /\ server = "down"
  /\ opened' = opened \ {es} /\ esRef' = "null"
  /\ conn' = Away
  /\ ScheduleReconnect
  /\ UNCHANGED <<mounted, support, url, shown, sources, sim, dataVars, server>>

OnError(es) ==
  /\ server = "down"
  /\ sources' = sources \ {es} /\ opened' = opened \ {es} /\ esRef' = "null"
  /\ conn' = Away
  /\ ScheduleReconnect
  /\ UNCHANGED <<mounted, support, url, shown, sim, dataVars, server>>

FaultyTimerFires ==
  /\ timer > 0
  /\ timer' = 0
  /\ UNCHANGED <<mounted, support, url, conn, shown, sources, opened, esRef,
                 failCount, lastDelay, sim, dataVars, server>>

TimerFires ==
  /\ timer > 0
  /\ OpenStream(url, failCount)
  /\ UNCHANGED <<mounted, support, url, shown, sim, dataVars, server>>

(* daemonUrl changes: the cleanup of the old effect, then the new effect.  *)
ChangeUrl ==
  /\ mounted = "yes" /\ support = "yes"
  /\ url' = IF url = "good" THEN "bad" ELSE "good"
  /\ OpenStream(url', 0)
  /\ UNCHANGED <<mounted, support, shown, sim, dataVars, server>>

(* Both cleanups: of the timer, of the source in esRef, of the interval.   *)
Unmount ==
  /\ mounted = "yes"
  /\ mounted' = "no"
  /\ sources' = sources \ {esRef} /\ opened' = opened \ {esRef} /\ esRef' = "null"
  /\ timer' = 0 /\ sim' = "off"
  /\ UNCHANGED <<support, url, conn, shown, failCount, lastDelay, dataVars, server>>

ServerChanges ==
  /\ server' = IF server = "up" THEN "down" ELSE "up"
  /\ UNCHANGED <<mounted, support, url, conn, shown, transportVars, sim, dataVars>>

Transport ==
  \/ \E es \in sources : OnOpen(es) \/ OnError(es)
  \/ TimerFires

StreamNext ==
  \/ Transport \/ CommitState \/ SimulationFires
  \/ \E es \in sources : OnMessage(es)
  \/ ChangeUrl \/ Unmount \/ ServerChanges

StreamSpec == StreamInit /\ [][StreamNext]_streamVars

-----------------------------------------------------------------------------
StreamTypeOK ==
  /\ mounted \in {"yes", "no"} /\ support \in {"yes", "no"}
  /\ url \in {"good", "bad"} /\ server \in {"up", "down"}
  /\ conn \in {"connecting", "connected", "disconnected", "simulated"}
  /\ shown \in {"uncommitted", "connecting", "connected", "disconnected", "simulated"}
  /\ sources \subseteq SourceNames /\ opened \subseteq sources
  /\ esRef \in SourceNames \cup {"null"}
  /\ timer \in Nat /\ lastDelay \in Nat /\ failCount \in 0..Saturation
  /\ sim \in {"on", "off"}
  /\ from \in {"nobody", "simulation", "daemon"} /\ replicas \in Nat

(* The badge of the dashboard (page.tsx:1097-1123) never lies about the    *)
(* transport: LIVE means the one source there is has opened, CONNECTING    *)
(* that it has not, and in the two states without a daemon no source is    *)
(* left and, unless reconnection is disabled, the next attempt is armed:   *)
(* there is never a second source, a forgotten one, or a dead end.         *)
StateMatchesTransport ==
  mounted = "yes" /\ support = "yes" =>
    IF conn \in {"connecting", "connected"}
    THEN /\ sources = {esRef} /\ timer = 0
         /\ opened = IF conn = "connected" THEN sources ELSE {}
    ELSE /\ conn = Away /\ sources = {} /\ esRef = "null" /\ opened = {}
         /\ ReconnectMs > 0 => timer > 0

(* Nothing survives the component, and the simulation interval exists      *)
(* exactly while the committed state is the simulated one, so daemon and   *)
(* simulation never both write for longer than one commit (lines 150-178,  *)
(* 256-266).                                                               *)
NothingLeaks ==
  /\ mounted = "yes" => (sim = "on" <=> shown = "simulated")
  /\ mounted = "no" => sim = "off" /\ sources = {} /\ timer = 0

(* What the hook reports belongs to the connection it holds, through every *)
(* replacement, late event and remount (useDaemonStream.ts:112-266).       *)
ViewFollowsTransport == StateMatchesTransport /\ NothingLeaks

(* While attempts keep failing no wait is shorter than the one before it,  *)
(* and none exceeds half a minute (lines 191-196).                         *)
BackoffGrows ==
  [][timer' > 0 /\ timer' # timer
       => timer' <= 30000 /\ (timer' >= lastDelay \/ failCount' = 1)]_streamVars

(* "EventSource hook with auto-reconnect" (CHANGELOG.md:37): a page left   *)
(* open on a daemon that comes back and stays ends up connected for good.  *)
Reconnects ==
  <>[](server = "up" /\ mounted = "yes" /\ support = "yes" /\ url = "good")
    => <>[](conn = "connected" /\ shown = "connected")
=============================================================================
