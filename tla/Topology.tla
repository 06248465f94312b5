-------------------------------- MODULE Topology --------------------------------
(***************************************************************************)
(* The dashboard's pod map (components/ClusterTopologyMap.tsx).  The pods  *)
(* of the page's list are spread over three nodes by their index, shown    *)
(* for all zones or one, and one of them may be inspected: the drawer      *)
(* keeps the pod as it was when it was clicked, while the list goes on     *)
(* changing under it (app/dashboard/page.tsx).                             *)
(***************************************************************************)
EXTENDS Integers, Sequences, FiniteSets

CONSTANTS
  MaxListed,     (* bound on the pods listed, the page's own is 12         *)
  MaxCreated     (* bound on the pods ever created                         *)

(* The page starts with three pods.                                        *)
ASSUME TopologyAssumption ==
  /\ MaxListed \in Nat /\ 3 <= MaxListed
  /\ MaxCreated \in Nat /\ 3 <= MaxCreated

VARIABLES
  containers,    (* identities of the listed pods, in order                *)
  created,
  selectedZone,  (* AllZones or a node                                      *)
  selectedPod    (* the snapshot in the drawer, NoSnapshot when closed     *)

topologyVars == <<containers, created, selectedZone, selectedPod>>

Nodes == 0..2    (* alpha, beta and gamma, each a zone of its own          *)
AllZones == -1
NoSnapshot == [id |-> 0, node |-> 0, host |-> 0]

(* pods: id, node (and zone), and the last number of the address           *)
(* 10.244.(node + 1).host of each listed pod.                              *)
FaultyPlacedPods ==
  {[id |-> containers[k], node |-> ((k - 1) \div 3) % 3, host |-> 13 + k]
     : k \in DOMAIN containers}

PlacedPods ==
  {[id |-> containers[k], node |-> (k - 1) % 3, host |-> 13 + k] : k \in DOMAIN containers}

(* The zone filter comes after the placement.                              *)
Visible(node) == {pod \in PlacedPods : pod.node = node /\ selectedZone \in {AllZones, node}}

TopologyInit ==
  /\ containers = <<1, 2, 3>> /\ created = 3
  /\ selectedZone = AllZones /\ selectedPod = NoSnapshot

(* Manual, automatic and live additions go to the end, and it is the end   *)
(* that is removed.                                                        *)
AppendPods ==
  /\ \E n \in 1..MaxListed - Len(containers) :
       /\ created' = created + n /\ created' <= MaxCreated
       /\ containers' = containers \o [k \in 1..n |-> created + k]
  /\ UNCHANGED <<selectedZone, selectedPod>>

FaultyTruncatePods ==
  /\ \E n \in 1..Len(containers) - 1 :
       containers' = SubSeq(containers, n + 1, Len(containers))
  /\ UNCHANGED <<created, selectedZone, selectedPod>>

TruncatePods ==
  /\ \E n \in 1..Len(containers) - 1 : containers' = SubSeq(containers, 1, n)
  /\ UNCHANGED <<created, selectedZone, selectedPod>>

(* An outage, a crash or a lack of memory; then one fresh pod.             *)
LosePods ==
  /\ containers # <<>> /\ containers' = <<>>
  /\ UNCHANGED <<created, selectedZone, selectedPod>>

RestorePod ==
  /\ created < MaxCreated /\ created' = created + 1
  /\ containers' = <<created'>>
  /\ UNCHANGED <<selectedZone, selectedPod>>

SelectZone ==
  /\ selectedZone' \in {AllZones} \cup Nodes
  /\ UNCHANGED <<containers, created, selectedPod>>

SelectPod ==
  /\ \E node \in Nodes : selectedPod' \in Visible(node)
  /\ UNCHANGED <<containers, created, selectedZone>>

CloseInspection ==
  /\ selectedPod' = NoSnapshot
  /\ UNCHANGED <<containers, created, selectedZone>>

TopologyNext ==
  \/ AppendPods \/ TruncatePods \/ LosePods \/ RestorePod
  \/ SelectZone \/ SelectPod \/ CloseInspection

-----------------------------------------------------------------------------
TopologyTypeOK ==
  /\ containers \in Seq(1..created) /\ Len(containers) <= MaxListed
  /\ created \in 3..MaxCreated /\ selectedZone \in {AllZones} \cup Nodes
  /\ selectedPod.id \in 0..created /\ selectedPod.node \in Nodes

(* However the list has changed since, the open drawer names the node and  *)
(* the address of its pod for as long as that pod is listed; only its      *)
(* status, its load and its being there at all may be out of date          *)
(* (ClusterTopologyMap.tsx:39-59, 146-156).                                *)
DrawerIsInPlace ==
  \A pod \in PlacedPods : pod.id = selectedPod.id => pod = selectedPod

(* The nodes share the pods evenly, and no two pods an address.            *)
PlacementIsFair ==
  /\ \A m, n \in Nodes :
       Cardinality({pod \in PlacedPods : pod.node = m})
         <= Cardinality({pod \in PlacedPods : pod.node = n}) + 1
  /\ \A p, q \in PlacedPods : p.host = q.host => p = q
=============================================================================
