------------------------------- MODULE Blocklist -------------------------------
(***************************************************************************)
(* BlocklistManager (pkg/waf/waf.go): addresses blocked for a time, asked  *)
(* about and listed under a mutex, and dropped by a goroutine some time    *)
(* after their time is over.  Each method holds the mutex throughout, so   *)
(* it is one step; time is the units left before an entry expires, -1 once *)
(* it lies behind.                                                         *)
(***************************************************************************)
EXTENDS Integers

CONSTANTS Ips, Durations

ASSUME BlocklistAssumption == Durations \subseteq Nat

VARIABLES
  entries,   (* the addresses in the map                                   *)
  left,      (* time left of each entry; meaningless without one           *)
  promised   (* history: time left of the last BlockIP of each address     *)

blocklistVars == <<entries, left, promised>>

Later(t) == IF t = -1 THEN -1 ELSE t - 1

BlocklistInit ==
  entries = {} /\ left = [ip \in Ips |-> -1] /\ promised = [ip \in Ips |-> -1]

(* An entry that is there is replaced, its time with it: a shorter one     *)
(* shortens it.                                                            *)
BlockIP(ip, duration) ==
  /\ entries' = entries \cup {ip}
  /\ left' = [left EXCEPT ![ip] = duration]
  /\ promised' = [promised EXCEPT ![ip] = duration]

(* now.Before(ExpiresAt), in IsBlocked and in GetActiveBlockedIPs.         *)
IsBlocked(ip) == ip \in entries /\ left[ip] > 0

(* now.After(ExpiresAt).                                                   *)
FaultyExpired(ip) == left[ip] <= 1
NeverExpired(ip) == left[ip] = 0

Expired(ip) == left[ip] < 0

CleanupExpired ==
  /\ \E ip \in entries : Expired(ip)
  /\ entries' = {ip \in entries : ~Expired(ip)}
  /\ UNCHANGED <<left, promised>>

BlocklistTick ==
  /\ left' = [ip \in Ips |-> Later(left[ip])]
  /\ promised' = [ip \in Ips |-> Later(promised[ip])]
  /\ UNCHANGED entries

BlocklistNext ==
  \/ \E ip \in Ips, duration \in Durations : BlockIP(ip, duration)
  \/ CleanupExpired
  \/ BlocklistTick

-----------------------------------------------------------------------------
BlocklistTypeOK ==
  /\ entries \subseteq Ips
  /\ left \in [Ips -> {-1} \cup Nat] /\ promised \in [Ips -> {-1} \cup Nat]

(* An address is blocked for exactly the time of its last BlockIP: neither *)
(* the cleanup nor a refresh that races it ends a block early, and a late  *)
(* cleanup prolongs none (waf.go:35-92).                                   *)
BlockedForItsTime == \A ip \in Ips : IsBlocked(ip) <=> promised[ip] > 0

(* The map does not keep what is over: an entry goes, unless its address   *)
(* is blocked again.                                                       *)
EntriesGo ==
  \A ip \in Ips :
    ip \in entries /\ left[ip] <= 0 ~> (ip \notin entries \/ left[ip] > 0)
=============================================================================
