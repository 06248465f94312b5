----------------------------- MODULE Snapshots -----------------------------
(***************************************************************************)
(* What the clients of the daemon's status and event stream may rely on:   *)
(* decisions take effect at once, each within the policy's bounds, and     *)
(* whatever a client is told of the count and of its target is what both   *)
(* were at one moment since it asked.  Goroutines, mutexes and the order   *)
(* of single reads and writes do not appear.  Daemon.tla is shown to       *)
(* implement this specification.                                           *)
(***************************************************************************)
EXTENDS Naturals

CONSTANTS Clients, Least, Most

VARIABLES
  count,   (* replicas in force                                            *)
  target,  (* replicas the last decision asked for, 0 before any           *)
  told     (* what each client was told last, Nothing when it is not asking*)

snapshotVars == <<count, target, told>>

Nothing == [replicas |-> 0, target |-> 0]

Init ==
  /\ count = Least /\ target = 0
  /\ told = [c \in Clients |-> Nothing]

Decision ==
  /\ count' \in Least..Most
  /\ target' = count'
  /\ UNCHANGED told

(* A client asks: it will be told what holds now.                          *)
Ask(c) ==
  /\ told[c] = Nothing
  /\ told' = [told EXCEPT ![c] = [replicas |-> count, target |-> target]]
  /\ UNCHANGED <<count, target>>

Answered(c) ==
  /\ told' = [told EXCEPT ![c] = Nothing]
  /\ UNCHANGED <<count, target>>

Next == Decision \/ \E c \in Clients : Ask(c) \/ Answered(c)

Spec == Init /\ [][Next]_snapshotVars

=============================================================================
