------------------------ MODULE DecisionEngineProofs ------------------------
(***************************************************************************)
(* What the decision engine can answer, for every policy: the facts the    *)
(* proofs about the daemon's loop and about the controller rest on.        *)
(***************************************************************************)
EXTENDS DecisionEngine, TLAPS

(* Rounding a quotient of naturals up gives a natural.                     *)
LEMMA CeilingIsNat ==
  ASSUME NEW a \in Nat, NEW b \in Nat \ {0}
  PROVE  (a + b - 1) \div b \in Nat
OBVIOUS

LEMMA ProductIsPositive ==
  ASSUME NEW a \in Nat \ {0}, NEW b \in Nat \ {0}
  PROVE  a * b \in Nat \ {0}
OBVIOUS

LEMMA RawDesiredIsNat ==
  ASSUME NEW l \in Nat
  PROVE  RawDesired(l) \in Nat
<1>1. CASE PodCapacity > 0
  <2>1. PodCapacity * HeadroomDen \in Nat \ {0}
    BY <1>1, PolicyAssumption, ProductIsPositive
  <2>2. l * HeadroomNum \in Nat
    BY PolicyAssumption
  <2>3. QED
    BY <1>1, <2>1, <2>2, CeilingIsNat DEF RawDesired
<1>2. CASE ~(PodCapacity > 0)
  BY <1>2 DEF RawDesired
<1>3. QED
  BY <1>1, <1>2

(* Whatever the load, the count asked for lies within the policy's bounds  *)
(* (scaler.go:73-78).                                                      *)
THEOREM DesiredInBounds ==
  ASSUME NEW l \in Nat, MinReplicas <= MaxReplicas
  PROVE  Desired(l) \in MinReplicas..MaxReplicas
BY PolicyAssumption, RawDesiredIsNat DEF Desired, Clamp

(* What a decision can be: a raise to a count within the bounds, a         *)
(* lowering to one when there is neither lock nor cooldown, or the count   *)
(* there is.                                                               *)
LEMMA DecisionShape ==
  ASSUME NEW current \in Nat, NEW l \in Nat, NEW locked \in BOOLEAN,
         MinReplicas <= MaxReplicas
  PROVE  LET d == Decide(current, l, locked) IN
         \/ /\ d = Decision("SCALE_UP", Desired(l))
            /\ Desired(l) > current
            /\ ~UpCoolingDown
         \/ /\ d = Decision("SCALE_DOWN", Desired(l))
            /\ Desired(l) < current
            /\ ~locked /\ ~DownCoolingDown
         \/ d = Decision("MAINTAIN", current)
         \/ d = Decision("LOCKED", current)
<1> DEFINE desired == Desired(l)
<1>1. desired \in Nat
  BY DesiredInBounds, PolicyAssumption
<1>2. desired > current \/ desired < current \/ desired = current
  BY <1>1
<1>3. CASE desired > current
  BY <1>1, <1>3 DEF Decide
<1>4. CASE desired < current
  BY <1>1, <1>4 DEF Decide
<1>5. CASE desired = current
  BY <1>1, <1>5 DEF Decide
<1>6. QED
  BY <1>2, <1>3, <1>4, <1>5

=============================================================================
