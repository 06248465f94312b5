-------------------------- MODULE TelemetryProofs --------------------------
(***************************************************************************)
(* Proofs about what the daemon remembers of its traffic: the sliding      *)
(* window (SlidingWindow) and the failed logins (Detector), which share    *)
(* the clock and the lateness of records.  Both add up numbers over sets   *)
(* of seconds, so the facts about sums come first.                         *)
(***************************************************************************)
EXTENDS SlidingWindow, Detector, TLAPS, FiniteSetTheorems, WellFoundedInduction

-----------------------------------------------------------------------------
(* Sums of a function over a finite set.                                   *)

(* The element a sum over s begins with.                                   *)
Picked(s) == CHOOSE x \in s : TRUE

(* g sums f over every subset of S, element by element.                    *)
SumsOver(g, f, S) ==
  g = [s \in SUBSET S |-> IF s = {} THEN 0 ELSE f[Picked(s)] + g[s \ {Picked(s)}]]

Sums(f, S) == CHOOSE g : SumsOver(g, f, S)

Total(f, S) == Sums(f, S)[S]

(* The sum of the library is this one.                                     *)
LEMMA SumIsTotal ==
  ASSUME NEW f, NEW S
  PROVE  SumFunctionOnSet(f, S) = Total(f, S)
BY DEF SumFunctionOnSet, FoldFunctionOnSet, MapThenFoldSet, Total, Sums, SumsOver, Picked

LEMMA PickedIn == ASSUME NEW s, s # {} PROVE Picked(s) \in s
BY DEF Picked

(* Among subsets of a finite set there is a smallest one.                  *)
LEMMA MinimalSubset ==
  ASSUME NEW S, IsFiniteSet(S), NEW Bad \in SUBSET (SUBSET S), Bad # {}
  PROVE  \E s \in Bad : \A t \in Bad : ~(t \subseteq s /\ t # s)
<1>1. Bad \subseteq FiniteSubsetsOf(S)
  BY FS_FiniteSubsetsOfFinite
<1>2. \E s \in Bad : \A t \in Bad : ~(<<t, s>> \in StrictSubsetOrdering(S))
  BY <1>1, WFMin, FS_StrictSubsetOrderingWellFounded
<1>3. \A s, t \in SUBSET S : t \subseteq s /\ t # s => <<t, s>> \in StrictSubsetOrdering(S)
  BY DEF StrictSubsetOrdering
<1> QED
  BY <1>2, <1>3

(* Among numbers there is a smallest one.                                  *)
LEMMA SmallestIn ==
  ASSUME NEW Bad \in SUBSET Nat, Bad # {}
  PROVE  \E m \in Bad : \A k \in Bad : ~(k < m)
<1>1. PICK n \in Bad : TRUE
  OBVIOUS
<1> DEFINE All  == 0..n
           UpTo == {s \in SUBSET All : \E k \in Bad : s = 0..k}
<1>2. 0..n \in UpTo
  OBVIOUS
<1>3. IsFiniteSet(All)
  BY FS_Interval
<1>4. UpTo \in SUBSET (SUBSET All) /\ UpTo # {}
  BY <1>2
<1>5. PICK s \in UpTo : \A t \in UpTo : ~(t \subseteq s /\ t # s)
  <2> HIDE DEF UpTo, All
  <2> QED
    BY <1>3, <1>4, MinimalSubset
<1>6. PICK m \in Bad : s = 0..m
  OBVIOUS
<1>7. m <= n
  BY <1>6
<1>8. ASSUME NEW k \in Bad, k < m
      PROVE  FALSE
  <2>1. 0..k \in UpTo
    BY <1>7, <1>8
  <2>2. 0..k \subseteq s /\ m \in s /\ m \notin 0..k
    BY <1>6, <1>8
  <2> QED
    BY <1>5, <2>1, <2>2
<1> QED
  BY <1>8

(* There is such a g: built up by the number of elements.                  *)
LEMMA SumsExist ==
  ASSUME NEW f, NEW S, IsFiniteSet(S)
  PROVE  SumsOver(Sums(f, S), f, S)
<1> DEFINE Below(n) == {s \in SUBSET S : Cardinality(s) <= n}
           Level(g, n) ==
             g = [s \in Below(n) |->
                    IF s = {} THEN 0 ELSE f[Picked(s)] + g[s \ {Picked(s)}]]
           Has(n) == \E g : Level(g, n)
<1>1. \A s \in SUBSET S : IsFiniteSet(s) /\ Cardinality(s) \in Nat
  BY FS_Subset, FS_CardinalityType
<1>2. \E g : Level(g, 0)
  <2> DEFINE g0 == [s \in Below(0) |-> 0]
  <2>1. \A s \in Below(0) : s = {}
    BY <1>1, FS_EmptySet
  <2>2. Level(g0, 0)
    BY <2>1
  <2> QED
    BY <2>2
<1>3. ASSUME NEW n \in Nat, NEW g, Level(g, n)
      PROVE  \E h : Level(h, n + 1)
  <2> DEFINE h == [s \in Below(n + 1) |->
                    IF s = {} THEN 0 ELSE f[Picked(s)] + g[s \ {Picked(s)}]]
  <2>1. ASSUME NEW s \in Below(n + 1), s # {}
        PROVE  s \ {Picked(s)} \in Below(n)
    BY <1>1, <2>1, PickedIn, FS_RemoveElement
  <2>2. ASSUME NEW s \in Below(n) PROVE s \in Below(n + 1) /\ h[s] = g[s]
    <3>1. s \in Below(n + 1)
      BY <1>1
    <3>2. g[s] = IF s = {} THEN 0 ELSE f[Picked(s)] + g[s \ {Picked(s)}]
      BY <1>3
    <3> QED
      BY <3>1, <3>2
  <2>3. ASSUME NEW s \in Below(n + 1)
        PROVE  h[s] = IF s = {} THEN 0 ELSE f[Picked(s)] + h[s \ {Picked(s)}]
    BY <2>1, <2>2
  <2> HIDE DEF Below
  <2>4. Level(h, n + 1)
    BY <2>3
  <2> QED
    BY <2>4
<1>4. \A n \in Nat : Has(n)
  <2> DEFINE Bad == {n \in Nat : ~Has(n)}
  <2>a. Has(0)
    BY <1>2
  <2>b. \A n \in Nat : Has(n) => Has(n + 1)
    BY <1>3
  <2> HIDE DEF Has
  <2> SUFFICES ASSUME Bad # {} PROVE FALSE
    OBVIOUS
  <2>1. PICK m \in Bad : \A k \in Bad : ~(k < m)
    <3>1. Bad \in SUBSET Nat
      OBVIOUS
    <3> HIDE DEF Bad
    <3> QED
      BY <3>1, SmallestIn
  <2>2. m # 0
    BY <2>a
  <2>3. m - 1 \in Nat /\ Has(m - 1)
    BY <2>1, <2>2
  <2>4. Has(m - 1 + 1)
    BY <2>3, <2>b
  <2> QED
    BY <2>1, <2>4
<1>5. Cardinality(S) \in Nat /\ Below(Cardinality(S)) = SUBSET S
  BY <1>1, FS_Subset, FS_CardinalityType
<1>6. \E g : Level(g, Cardinality(S))
  BY <1>4, <1>5
<1>7. \E g : SumsOver(g, f, S)
  BY <1>5, <1>6 DEF SumsOver
<1> QED
  BY <1>7 DEF Sums

(* Two sums agree on what both cover if what they add up is the same.      *)
LEMMA SumsAgree ==
  ASSUME NEW f, NEW g, NEW S, NEW R, IsFiniteSet(S), IsFiniteSet(R),
         NEW T \in (SUBSET S) \cap (SUBSET R), \A x \in T : f[x] = g[x]
  PROVE  Sums(f, S)[T] = Sums(g, R)[T]
<1> DEFINE F == Sums(f, S)
           G == Sums(g, R)
           Bad == {t \in SUBSET T : F[t] # G[t]}
<1>1. /\ \A s \in SUBSET S :
           F[s] = IF s = {} THEN 0 ELSE f[Picked(s)] + F[s \ {Picked(s)}]
      /\ \A s \in SUBSET R :
           G[s] = IF s = {} THEN 0 ELSE g[Picked(s)] + G[s \ {Picked(s)}]
  <2>1. SumsOver(F, f, S) /\ SumsOver(G, g, R)
    BY SumsExist
  <2> HIDE DEF F, G
  <2> QED
    BY <2>1 DEF SumsOver
<1> HIDE DEF F, G
<1>2. SUFFICES ASSUME Bad # {} PROVE FALSE
  BY DEF F, G
<1>3. IsFiniteSet(T) /\ Bad \in SUBSET (SUBSET T)
  BY FS_Subset
<1>4. PICK s \in Bad : \A t \in Bad : ~(t \subseteq s /\ t # s)
  <2> HIDE DEF Bad
  <2> QED
    BY <1>2, <1>3, MinimalSubset
<1>5. s \in SUBSET T /\ s \in SUBSET S /\ s \in SUBSET R /\ F[s] # G[s]
  OBVIOUS
<1>6. s # {}
  BY <1>1, <1>5
<1>7. Picked(s) \in s
  BY <1>6, PickedIn
<1>8. F[s \ {Picked(s)}] = G[s \ {Picked(s)}]
  BY <1>4, <1>5, <1>7
<1> QED
  BY <1>1, <1>5, <1>6, <1>7, <1>8

LEMMA TotalAgrees ==
  ASSUME NEW f, NEW g, NEW S, IsFiniteSet(S), \A x \in S : f[x] = g[x]
  PROVE  Total(f, S) = Total(g, S)
BY SumsAgree DEF Total

(* The defining equation.                                                  *)
LEMMA TotalByPicking ==
  ASSUME NEW f, NEW S, IsFiniteSet(S)
  PROVE  Total(f, S) = IF S = {} THEN 0
                       ELSE f[Picked(S)] + Total(f, S \ {Picked(S)})
<1> DEFINE F == Sums(f, S)
           T == S \ {Picked(S)}
<1>1. F[S] = IF S = {} THEN 0 ELSE f[Picked(S)] + F[T]
  <2>1. SumsOver(F, f, S)
    BY SumsExist
  <2> HIDE DEF F
  <2> QED
    BY <2>1 DEF SumsOver
<1>2. IsFiniteSet(T) /\ T \in SUBSET S
  BY FS_Subset
<1> HIDE DEF T
<1>3. F[T] = Sums(f, T)[T]
  BY <1>2, SumsAgree
<1> QED
  BY <1>1, <1>3 DEF Total, T

LEMMA TotalIsNat ==
  ASSUME NEW f, NEW S, IsFiniteSet(S), \A x \in S : f[x] \in Nat
  PROVE  Total(f, S) \in Nat
<1> DEFINE Bad == {s \in SUBSET S : Total(f, s) \notin Nat}
<1>1. SUFFICES ASSUME Bad # {} PROVE FALSE
  OBVIOUS
<1>2. PICK s \in Bad : \A t \in Bad : ~(t \subseteq s /\ t # s)
  <2>1. Bad \in SUBSET (SUBSET S)
    OBVIOUS
  <2> HIDE DEF Bad
  <2> QED
    BY <1>1, <2>1, MinimalSubset
<1>3. IsFiniteSet(s)
  BY FS_Subset
<1>4. Total(f, s) = IF s = {} THEN 0 ELSE f[Picked(s)] + Total(f, s \ {Picked(s)})
  BY <1>3, TotalByPicking
<1>5. s # {}
  BY <1>4
<1>6. Picked(s) \in s
  BY <1>5, PickedIn
<1>7. Total(f, s \ {Picked(s)}) \in Nat
  BY <1>2, <1>6
<1> QED
  BY <1>4, <1>5, <1>6, <1>7

(* Any element can be taken out of a sum.                                  *)
LEMMA TotalWithout ==
  ASSUME NEW f, NEW S, IsFiniteSet(S), \A x \in S : f[x] \in Nat, NEW z \in S
  PROVE  Total(f, S) = f[z] + Total(f, S \ {z})
<1> DEFINE Holds(s) == \A e \in s : Total(f, s) = f[e] + Total(f, s \ {e})
           Bad == {s \in SUBSET S : ~Holds(s)}
<1>1. SUFFICES ASSUME Bad # {} PROVE FALSE
  OBVIOUS
<1>2. PICK s \in Bad : \A t \in Bad : ~(t \subseteq s /\ t # s)
  <2>1. Bad \in SUBSET (SUBSET S)
    OBVIOUS
  <2> HIDE DEF Bad
  <2> QED
    BY <1>1, <2>1, MinimalSubset
<1>3. \A t \in SUBSET S : IsFiniteSet(t) /\ Total(f, t) \in Nat
  BY FS_Subset, TotalIsNat
<1>4. \A t \in SUBSET S : t \subseteq s /\ t # s => Holds(t)
  BY <1>2
<1>5. PICK e \in s : Total(f, s) # f[e] + Total(f, s \ {e})
  OBVIOUS
<1>6. PICK p \in s : Total(f, s) = f[p] + Total(f, s \ {p})
  BY <1>3, PickedIn, TotalByPicking
<1>7. p # e /\ s \in SUBSET S
  BY <1>5, <1>6
<1>8. Total(f, s \ {p}) = f[e] + Total(f, (s \ {p}) \ {e})
  BY <1>4, <1>6, <1>7
<1>9. Total(f, s \ {e}) = f[p] + Total(f, (s \ {p}) \ {e})
  <2>1. Total(f, s \ {e}) = f[p] + Total(f, (s \ {e}) \ {p})
    BY <1>4, <1>7
  <2>2. (s \ {e}) \ {p} = (s \ {p}) \ {e}
    OBVIOUS
  <2> QED
    BY <2>1, <2>2
<1>10. f[e] \in Nat /\ f[p] \in Nat /\ Total(f, (s \ {p}) \ {e}) \in Nat
  BY <1>3, <1>7
<1> QED
  BY <1>5, <1>6, <1>8, <1>9, <1>10

LEMMA TotalMonotone ==
  ASSUME NEW f, NEW g, NEW S, IsFiniteSet(S),
         \A x \in S : f[x] \in Nat /\ g[x] \in Nat /\ f[x] <= g[x]
  PROVE  Total(f, S) <= Total(g, S)
<1> DEFINE Bad == {s \in SUBSET S : ~(Total(f, s) <= Total(g, s))}
<1>1. SUFFICES ASSUME Bad # {} PROVE FALSE
  OBVIOUS
<1>2. PICK s \in Bad : \A t \in Bad : ~(t \subseteq s /\ t # s)
  <2>1. Bad \in SUBSET (SUBSET S)
    OBVIOUS
  <2> HIDE DEF Bad
  <2> QED
    BY <1>1, <2>1, MinimalSubset
<1>3. s \in SUBSET S /\ ~(Total(f, s) <= Total(g, s))
  OBVIOUS
<1>4. IsFiniteSet(s) /\ \A x \in s : f[x] \in Nat /\ g[x] \in Nat /\ f[x] <= g[x]
  BY <1>3, FS_Subset
<1>5. Total(f, {}) = 0 /\ Total(g, {}) = 0
  BY TotalByPicking, FS_EmptySet
<1>6. PICK p \in s : TRUE
  <2> HIDE DEF Bad
  <2> QED
    BY <1>3, <1>5
<1> DEFINE t == s \ {p}
<1>7. Total(f, s) = f[p] + Total(f, t) /\ Total(g, s) = g[p] + Total(g, t)
  BY <1>4, TotalWithout
<1>8. Total(f, t) <= Total(g, t)
  BY <1>2, <1>3
<1>9. Total(f, t) \in Nat /\ Total(g, t) \in Nat
  <2>1. IsFiniteSet(t) /\ \A x \in t : f[x] \in Nat /\ g[x] \in Nat
    BY <1>4, FS_Subset
  <2> HIDE DEF t
  <2> QED
    BY <2>1, TotalIsNat
<1> HIDE DEF t
<1> QED
  BY <1>3, <1>4, <1>7, <1>8, <1>9

(* A part sums up to no more than the whole, and to as much as it if there *)
(* is nothing outside of it.                                               *)
LEMMA TotalOfPart ==
  ASSUME NEW f, NEW S, IsFiniteSet(S), \A x \in S : f[x] \in Nat,
         NEW T \in SUBSET S
  PROVE  /\ Total(f, T) <= Total(f, S)
         /\ (\A x \in S \ T : f[x] = 0) => Total(f, T) = Total(f, S)
<1> DEFINE Holds(s) ==
             /\ Total(f, T) <= Total(f, s)
             /\ (\A x \in S \ T : f[x] = 0) => Total(f, T) = Total(f, s)
           Bad == {s \in SUBSET S : T \subseteq s /\ ~Holds(s)}
<1>0. \A t \in SUBSET S : IsFiniteSet(t) /\ Total(f, t) \in Nat
  BY FS_Subset, TotalIsNat
<1>1. SUFFICES ASSUME Bad # {} PROVE FALSE
  OBVIOUS
<1>2. PICK s \in Bad : \A t \in Bad : ~(t \subseteq s /\ t # s)
  <2>1. Bad \in SUBSET (SUBSET S)
    OBVIOUS
  <2> HIDE DEF Bad
  <2> QED
    BY <1>1, <2>1, MinimalSubset
<1>3. s # T
  BY <1>0
<1>4. PICK p \in s \ T : TRUE
  BY <1>3
<1>5. Holds(s \ {p})
  BY <1>2, <1>4
<1>6. Total(f, s) = f[p] + Total(f, s \ {p})
  BY <1>0, <1>4, TotalWithout
<1>7. f[p] \in Nat /\ Total(f, s \ {p}) \in Nat /\ Total(f, T) \in Nat
  BY <1>0, <1>4
<1> QED
  BY <1>4, <1>5, <1>6, <1>7

(* A sum does not depend on what its elements are called.                  *)
LEMMA TotalRenamed ==
  ASSUME NEW f, NEW g, NEW S, NEW R, IsFiniteSet(S), IsFiniteSet(R),
         \A y \in R : g[y] \in Nat, NEW h \in [S -> R],
         \A x, y \in S : h[x] = h[y] => x = y,
         \A x \in S : f[x] = g[h[x]]
  PROVE  Total(f, S) = Total(g, {h[x] : x \in S})
<1> DEFINE Image(s) == {h[x] : x \in s}
           Bad == {s \in SUBSET S : Total(f, s) # Total(g, Image(s))}
<1>1. SUFFICES ASSUME Bad # {} PROVE FALSE
  OBVIOUS
<1>2. PICK s \in Bad : \A t \in Bad : ~(t \subseteq s /\ t # s)
  <2>1. Bad \in SUBSET (SUBSET S)
    OBVIOUS
  <2> HIDE DEF Bad
  <2> QED
    BY <1>1, <2>1, MinimalSubset
<1>3. s \in SUBSET S /\ IsFiniteSet(s) /\ \A x \in s : f[x] \in Nat
  BY FS_Subset
<1>4. Image(s) \in SUBSET R /\ IsFiniteSet(Image(s))
  BY FS_Subset
<1>5. Total(f, s) # Total(g, Image(s))
  OBVIOUS
<1>6. PICK p \in s : TRUE
  <2>1. Total(f, {}) = 0 /\ Total(g, {}) = 0
    BY TotalByPicking, FS_EmptySet
  <2>2. Image({}) = {}
    OBVIOUS
  <2> HIDE DEF Image, Bad
  <2> QED
    BY <1>5, <2>1, <2>2
<1>7. Image(s \ {p}) = Image(s) \ {h[p]}
  BY <1>3
<1>8. Total(f, s \ {p}) = Total(g, Image(s) \ {h[p]})
  BY <1>2, <1>7
<1> HIDE DEF Image
<1>9. Total(f, s) = f[p] + Total(f, s \ {p})
  BY <1>3, TotalWithout
<1>10. Total(g, Image(s)) = g[h[p]] + Total(g, Image(s) \ {h[p]})
  <2>1. h[p] \in Image(s)
    BY DEF Image
  <2> QED
    BY <1>4, <2>1, TotalWithout
<1> QED
  BY <1>3, <1>5, <1>8, <1>9, <1>10

LEMMA SecondsAreFinite ==
  IsFiniteSet(Seconds) /\ \A S \in SUBSET Seconds : IsFiniteSet(S)
<1>1. IsFiniteSet(0..MaxTime)
  BY FS_Interval, ClockAssumption
<1> QED
  BY <1>1, FS_Subset DEF Seconds

-----------------------------------------------------------------------------
(* Arithmetic of the ring.                                                 *)

LEMMA DivisionOf ==
  ASSUME NEW n \in Nat \ {0}, NEW s \in Nat
  PROVE  /\ s = n * (s \div n) + (s % n)
         /\ s % n \in 0..(n - 1)
         /\ s \div n \in Int
OBVIOUS

LEMMA SmallMultipleIsZero ==
  ASSUME NEW n \in Nat \ {0}, NEW q \in Int, -n < n * q, n * q < n
  PROVE  q = 0
<1>1. CASE q >= 1
  <2>1. n * q >= n
    BY <1>1
  <2> QED
    BY <2>1
<1>2. CASE q <= -1
  <2>1. n * q <= -n
    BY <1>2
  <2> QED
    BY <2>1
<1> QED
  BY <1>1, <1>2

(* Two seconds less than a turn of the ring apart do not share a slot.     *)
LEMMA SlotsAreDistinct ==
  ASSUME NEW s \in Nat, NEW t \in Nat, Slot(s) = Slot(t),
         s - t < BufferSize, t - s < BufferSize
  PROVE  s = t
<1> DEFINE n == BufferSize
           q == s \div n - t \div n
<1>1. n \in Nat \ {0}
  BY WindowAssumption, ClockAssumption
<1> HIDE DEF n
<1>2. /\ s = n * (s \div n) + (s % n) /\ t = n * (t \div n) + (t % n)
      /\ s \div n \in Int /\ t \div n \in Int /\ s % n \in Int
  BY <1>1, DivisionOf
<1>3. s % n = t % n
  BY DEF Slot, n
<1>4. s - t = n * q /\ q \in Int
  BY <1>1, <1>2, <1>3
<1>5. -n < s - t /\ s - t < n
  BY <1>1 DEF n
<1> HIDE DEF q
<1>6. q = 0
  BY <1>1, <1>4, <1>5, SmallMultipleIsZero
<1> QED
  BY <1>1, <1>4, <1>6

LEMMA SlotIsASlot ==
  ASSUME NEW s \in Nat
  PROVE  Slot(s) \in Slots
BY WindowAssumption, ClockAssumption, DivisionOf DEF Slot, Slots

-----------------------------------------------------------------------------
(* Types.                                                                  *)

LEMMA NothingType == Nothing \in Contents
BY DEF Nothing, Contents

LEMMA PlusType ==
  ASSUME NEW content \in Contents, NEW rec \in Records
  PROVE  Plus(content, rec) \in Contents
BY WindowAssumption, ClockAssumption DEF Plus, Contents

LEMMA PlusIsSomething ==
  ASSUME NEW content \in Contents, NEW rec \in Records
  PROVE  Plus(content, rec) # Nothing
<1>1. content.count \in Nat
  BY DEF Contents
<1>2. Plus(content, rec).count = content.count + 1 /\ Nothing.count = 0
  BY DEF Plus, Nothing
<1> QED
  BY <1>1, <1>2

LEMMA KeptType ==
  ASSUME WindowTypeOK, NEW s \in Seconds
  PROVE  Kept(s) \in Contents
<1>1. Slot(s) \in Slots
  BY SlotIsASlot, WindowAssumption, ClockAssumption DEF Seconds
<1> QED
  BY <1>1, NothingType DEF WindowTypeOK, Kept

LEMMA WindowTypeInit == WindowInit => WindowTypeOK
BY NothingType, WindowAssumption, ClockAssumption DEF WindowInit, WindowTypeOK, Seconds

LEMMA WindowTypeStep == WindowTypeOK /\ [WindowNext]_windowVars => WindowTypeOK'
<1> SUFFICES ASSUME WindowTypeOK, [WindowNext]_windowVars
             PROVE  WindowTypeOK'
  OBVIOUS
<1>1. CASE WindowTick
  BY <1>1, WindowAssumption, ClockAssumption DEF WindowTick, Advance, WindowTypeOK, Seconds
<1>2. ASSUME NEW sec \in Stamps, NEW rec \in Records, Record(sec, rec)
      PROVE  WindowTypeOK'
  <2>1. sec \in Seconds /\ Slot(sec) \in Slots
    BY SlotIsASlot, WindowAssumption, ClockAssumption DEF Stamps, Seconds
  <2>2. Plus(Kept(sec), rec) \in Contents /\ Plus(seen[sec], rec) \in Contents
    BY <2>1, KeptType, PlusType DEF WindowTypeOK
  <2> DEFINE b == [second |-> sec, content |-> Plus(Kept(sec), rec)]
  <2>3. b \in [second : Seconds \cup {Never}, content : Contents]
    BY <2>1, <2>2
  <2>4. buckets' = [buckets EXCEPT ![Slot(sec)] = b]
        /\ seen' = [seen EXCEPT ![sec] = Plus(seen[sec], rec)] /\ now' = now
    BY <1>2 DEF Record
  <2> HIDE DEF b
  <2> QED
    BY <2>1, <2>2, <2>3, <2>4 DEF WindowTypeOK
<1>3. CASE UNCHANGED windowVars
  BY <1>3 DEF windowVars, WindowTypeOK
<1> QED
  BY <1>1, <1>2, <1>3 DEF WindowNext

(* The engine's types, for every ring, clock and set of classes.           *)
THEOREM WindowTypeCorrect == WindowSpec => []WindowTypeOK
BY WindowTypeInit, WindowTypeStep, PTL DEF WindowSpec

-----------------------------------------------------------------------------
(* The inductive invariant: a used slot holds exactly what was recorded of *)
(* its second, and a second still in the window that has records is the    *)
(* one its slot holds.                                                     *)
Placed ==
  \A i \in Slots :
    buckets[i].second # Never =>
      /\ buckets[i].second \in Nat
      /\ buckets[i].second <= now
      /\ Slot(buckets[i].second) = i
      /\ buckets[i].content = seen[buckets[i].second]

Present ==
  \A s \in Seconds :
    s <= now /\ s > now - BufferSize /\ seen[s] # Nothing
      => buckets[Slot(s)].second = s

(* Nothing is stamped with a second to come.                               *)
NoFuture == \A s \in Seconds : s > now => seen[s] = Nothing

RingIInv == WindowTypeOK /\ Placed /\ Present /\ NoFuture

LEMMA RingInit == WindowInit => RingIInv
<1> SUFFICES ASSUME WindowInit PROVE Placed /\ Present /\ NoFuture
  BY WindowTypeInit DEF RingIInv
<1>1. Placed
  BY DEF WindowInit, Placed, Never
<1>2. Present
  BY DEF WindowInit, Present
<1>3. NoFuture
  BY DEF WindowInit, NoFuture
<1> QED
  BY <1>1, <1>2, <1>3

(* What a record is added to is all that was seen of its second.           *)
LEMMA KeptIsSeen ==
  ASSUME RingIInv, NEW s \in Seconds, s <= now, s > now - BufferSize
  PROVE  Kept(s) = seen[s]
<1>1. Slot(s) \in Slots /\ s \in Nat
  BY SlotIsASlot, WindowAssumption, ClockAssumption DEF Seconds
<1>2. CASE buckets[Slot(s)].second = s
  BY <1>1, <1>2 DEF RingIInv, Placed, Kept, Never
<1>3. CASE buckets[Slot(s)].second # s
  BY <1>3 DEF RingIInv, Present, Kept
<1> QED
  BY <1>2, <1>3

LEMMA RingStep == RingIInv /\ [WindowNext]_windowVars => RingIInv'
<1> SUFFICES ASSUME RingIInv, [WindowNext]_windowVars
             PROVE  RingIInv'
  OBVIOUS
<1>1. WindowTypeOK'
  BY WindowTypeStep DEF RingIInv
<1>2. CASE WindowTick
  <2>1. UNCHANGED <<buckets, seen>> /\ now' = now + 1 /\ now \in Nat
    BY <1>2, WindowAssumption, ClockAssumption DEF WindowTick, Advance, RingIInv, WindowTypeOK, Seconds
  <2>2. Placed'
    BY <2>1 DEF RingIInv, Placed
  <2>3. Present'
    <3> SUFFICES ASSUME NEW s \in Seconds, s <= now', s > now' - BufferSize,
                        seen'[s] # Nothing
                 PROVE  buckets'[Slot(s)].second = s
      BY DEF Present
    <3>1. CASE s <= now
      BY <2>1, <3>1, WindowAssumption, ClockAssumption DEF RingIInv, Present, Seconds
    <3>2. CASE s = now + 1
      BY <2>1, <3>2 DEF RingIInv, NoFuture
    <3> QED
      BY <2>1, <3>1, <3>2, WindowAssumption, ClockAssumption DEF Seconds
  <2>4. NoFuture'
    BY <2>1, WindowAssumption, ClockAssumption DEF RingIInv, NoFuture, Seconds
  <2> QED
    BY <1>1, <2>2, <2>3, <2>4 DEF RingIInv
<1>3. ASSUME NEW sec \in Stamps, NEW rec \in Records, Record(sec, rec)
      PROVE  RingIInv'
  <2> DEFINE added == Plus(seen[sec], rec)
  <2>1. /\ sec \in Seconds /\ sec \in Nat /\ now \in Nat
        /\ sec <= now /\ sec > now - BufferSize
        /\ Slot(sec) \in Slots
    BY SlotIsASlot, WindowAssumption, ClockAssumption DEF Stamps, Seconds, RingIInv, WindowTypeOK
  <2>2. Kept(sec) = seen[sec]
    BY <2>1, KeptIsSeen
  <2>3. /\ buckets' = [buckets EXCEPT ![Slot(sec)] = [second |-> sec, content |-> added]]
        /\ seen' = [seen EXCEPT ![sec] = added]
        /\ now' = now
    BY <1>3, <2>2 DEF Record
  <2> HIDE DEF added
  <2>4. \A i \in Slots :
          /\ i = Slot(sec) => buckets'[i].second = sec /\ buckets'[i].content = added
          /\ i # Slot(sec) => buckets'[i] = buckets[i]
    BY <2>1, <2>3 DEF RingIInv, WindowTypeOK
  <2>5. \A s \in Seconds : seen'[s] = IF s = sec THEN added ELSE seen[s]
    BY <2>1, <2>3 DEF RingIInv, WindowTypeOK
  <2>6. Placed'
    <3> SUFFICES ASSUME NEW i \in Slots, buckets'[i].second # Never
                 PROVE  /\ buckets'[i].second \in Nat
                        /\ buckets'[i].second <= now'
                        /\ Slot(buckets'[i].second) = i
                        /\ buckets'[i].content = seen'[buckets'[i].second]
      BY DEF Placed
    <3>1. CASE i = Slot(sec)
      BY <2>1, <2>3, <2>4, <2>5, <3>1
    <3>2. CASE i # Slot(sec)
      <4>1. buckets'[i] = buckets[i] /\ buckets[i].second \in Seconds
        BY <2>4, <3>2 DEF RingIInv, WindowTypeOK
      <4>2. Slot(buckets[i].second) = i /\ buckets[i].second # sec
        BY <3>2, <4>1 DEF RingIInv, Placed
      <4> QED
        BY <2>3, <2>5, <4>1, <4>2 DEF RingIInv, Placed
    <3> QED
      BY <3>1, <3>2
  <2>7. Present'
    <3> SUFFICES ASSUME NEW s \in Seconds, s <= now', s > now' - BufferSize,
                        seen'[s] # Nothing
                 PROVE  buckets'[Slot(s)].second = s
      BY DEF Present
    <3>1. s \in Nat /\ Slot(s) \in Slots
      BY SlotIsASlot, WindowAssumption, ClockAssumption DEF Seconds
    <3>2. CASE s = sec
      BY <2>1, <2>4, <3>2
    <3>3. CASE s # sec
      <4>1. Slot(s) # Slot(sec)
        <5>1. s - sec < BufferSize /\ sec - s < BufferSize
          BY <2>1, <2>3, <3>1, WindowAssumption, ClockAssumption
        <5> QED
          BY <2>1, <3>1, <3>3, <5>1, SlotsAreDistinct
      <4>2. seen[s] # Nothing /\ s <= now /\ s > now - BufferSize
        BY <2>3, <2>5, <3>3
      <4> QED
        BY <2>4, <3>1, <4>1, <4>2 DEF RingIInv, Present
    <3> QED
      BY <3>2, <3>3
  <2>8. NoFuture'
    BY <2>1, <2>3, <2>5 DEF RingIInv, NoFuture
  <2> QED
    BY <1>1, <2>6, <2>7, <2>8 DEF RingIInv
<1>4. CASE UNCHANGED windowVars
  BY <1>1, <1>4 DEF windowVars, RingIInv, Placed, Present, NoFuture
<1> QED
  BY <1>2, <1>3, <1>4 DEF WindowNext

LEMMA RingIInvImplies == RingIInv => RingIsExact
<1> SUFFICES ASSUME RingIInv, NEW s \in Seconds, s <= now, s > now - BufferSize
             PROVE  Answer(s) = seen[s]
  BY DEF RingIsExact
<1>1. Kept(s) = seen[s]
  BY KeptIsSeen
<1> QED
  BY <1>1 DEF Answer, Kept

(* As long as records are stored less than a turn of the ring after their  *)
(* stamp, no late record and no shared slot makes the ring lose, double or *)
(* misplace a record of the window.                                        *)
THEOREM WindowRingIsExact == WindowSpec => []RingIsExact
BY RingInit, RingStep, RingIInvImplies, PTL DEF WindowSpec

-----------------------------------------------------------------------------
(* Snapshots: the sums.                                                    *)

LEMMA SlotsAreFinite ==
  IsFiniteSet(Slots) /\ \A S \in SUBSET Slots : IsFiniteSet(S)
<1>1. BufferSize - 1 \in Int
  BY WindowAssumption
<1>2. IsFiniteSet(0..(BufferSize - 1))
  BY <1>1, FS_Interval
<1> QED
  BY <1>2, FS_Subset DEF Slots

LEMMA SpanRange ==
  ASSUME NEW t \in Int
  PROVE  Span(t) \in 1..BufferSize
BY WindowAssumption DEF Span

(* A sum over the window's buckets is the sum over its seconds: the slots  *)
(* name different seconds, and a second without a slot had no record.      *)
LEMMA WindowTotals ==
  ASSUME RingIInv, NEW t \in Int, NEW f, NEW g,
         \A s \in Seconds : g[s] \in Nat,
         \A s \in Seconds : seen[s] = Nothing => g[s] = 0,
         \A i \in Slots : buckets[i].second # Never => f[i] = g[buckets[i].second]
  PROVE  SumFunctionOnSet(f, WindowSlots(t)) =
           SumFunctionOnSet(g, {s \in Seconds : s <= now /\ s > now - Span(t)})
<1> DEFINE W == WindowSlots(t)
           V == {s \in Seconds : s <= now /\ s > now - Span(t)}
           h == [i \in W |-> buckets[i].second]
           Image == {h[i] : i \in W}
<1>1. Span(t) \in Nat /\ Span(t) <= BufferSize /\ BufferSize \in Nat /\ now \in Nat
  <2>1. Span(t) \in 1..BufferSize /\ BufferSize \in Nat
    BY SpanRange, WindowAssumption
  <2>2. now \in Nat
    BY ClockAssumption DEF RingIInv, WindowTypeOK, Seconds
  <2> QED
    BY <2>1, <2>2
<1>2. ASSUME NEW i \in W
      PROVE  /\ i \in Slots /\ buckets[i].second # Never
             /\ buckets[i].second \in V /\ Slot(buckets[i].second) = i
             /\ h[i] = buckets[i].second
  BY DEF WindowSlots, InWindow, RingIInv, WindowTypeOK, Placed
<1>3. ASSUME NEW s \in V, seen[s] # Nothing PROVE s \in Image
  <2>1. s \in Nat /\ s \in Seconds /\ Slot(s) \in Slots /\ s > now - BufferSize
    BY <1>1, SlotIsASlot, ClockAssumption DEF Seconds
  <2>2. buckets[Slot(s)].second = s
    BY <1>3, <2>1 DEF RingIInv, Present
  <2>3. s # Never
    BY <2>1 DEF Never
  <2>4. Slot(s) \in W
    BY <2>1, <2>2, <2>3 DEF WindowSlots, InWindow
  <2> QED
    BY <1>2, <2>2, <2>4
<1>4. /\ IsFiniteSet(W) /\ IsFiniteSet(Seconds) /\ IsFiniteSet(V)
      /\ h \in [W -> Seconds] /\ Image \in SUBSET V /\ V \in SUBSET Seconds
  BY <1>2, SlotsAreFinite, SecondsAreFinite
<1>5. \A i, j \in W : h[i] = h[j] => i = j
  BY <1>2
<1>6. \A i \in W : f[i] = g[h[i]]
  BY <1>2
<1>7. \A s \in V \ Image : g[s] = 0
  BY <1>3
<1> HIDE DEF W, V, h
<1>8. Total(f, W) = Total(g, Image)
  BY <1>4, <1>5, <1>6, TotalRenamed
<1> HIDE DEF Image
<1>9. Total(g, Image) = Total(g, V)
  BY <1>4, <1>7, TotalOfPart
<1> QED
  BY <1>8, <1>9, SumIsTotal DEF W, V

LEMMA SumsAreExact ==
  ASSUME RingIInv, NEW t \in Int
  PROVE  LET window == {s \in Seconds : s <= now /\ s > now - Span(t)} IN
         /\ TotalRequests(t) = SumFunctionOnSet([s \in Seconds |-> seen[s].count], window)
         /\ \A c \in Classes :
              CountOf(c, t) = SumFunctionOnSet([s \in Seconds |-> seen[s].tally[c]], window)
<1> DEFINE F == [i \in Slots |-> buckets[i].content.count]
           G == [s \in Seconds |-> seen[s].count]
<1>1. /\ \A s \in Seconds : G[s] \in Nat /\ (seen[s] = Nothing => G[s] = 0)
      /\ \A i \in Slots : buckets[i].second # Never => F[i] = G[buckets[i].second]
  BY DEF RingIInv, WindowTypeOK, Contents, Nothing, Placed
<1>2. ASSUME NEW c \in Classes
      PROVE  CountOf(c, t) =
               SumFunctionOnSet([s \in Seconds |-> seen[s].tally[c]],
                                {s \in Seconds : s <= now /\ s > now - Span(t)})
  <2> DEFINE f == [i \in Slots |-> buckets[i].content.tally[c]]
             g == [s \in Seconds |-> seen[s].tally[c]]
  <2>1. /\ \A s \in Seconds : g[s] \in Nat /\ (seen[s] = Nothing => g[s] = 0)
        /\ \A i \in Slots : buckets[i].second # Never => f[i] = g[buckets[i].second]
    BY DEF RingIInv, WindowTypeOK, Contents, Nothing, Placed
  <2>2. CountOf(c, t) = SumFunctionOnSet(f, WindowSlots(t))
    BY DEF CountOf
  <2> HIDE DEF f, g
  <2>3. SumFunctionOnSet(f, WindowSlots(t)) =
          SumFunctionOnSet(g, {s \in Seconds : s <= now /\ s > now - Span(t)})
    BY <2>1, WindowTotals
  <2> QED
    BY <2>2, <2>3 DEF g
<1>3. TotalRequests(t) = SumFunctionOnSet(F, WindowSlots(t))
  BY DEF TotalRequests
<1> HIDE DEF F, G
<1>4. SumFunctionOnSet(F, WindowSlots(t)) =
        SumFunctionOnSet(G, {s \in Seconds : s <= now /\ s > now - Span(t)})
  BY <1>1, WindowTotals
<1> QED
  BY <1>2, <1>3, <1>4 DEF G

(* The rate is that of the last complete second.                           *)
LEMMA LastSecondIsExact ==
  ASSUME RingIInv, now > 0, BufferSize > 1
  PROVE  InstantaneousRPS = seen[now - 1].count
<1>1. now \in Nat /\ now \in Seconds
  BY ClockAssumption DEF RingIInv, WindowTypeOK, Seconds
<1>2. now - 1 \in Seconds /\ now - 1 <= now /\ now - 1 > now - BufferSize
  BY <1>1, WindowAssumption, ClockAssumption DEF Seconds
<1>3. Answer(now - 1) = seen[now - 1]
  BY <1>2, RingIInvImplies DEF RingIsExact
<1> QED
  BY <1>3 DEF Answer, InstantaneousRPS, Nothing

-----------------------------------------------------------------------------
(* Snapshots: the percentiles.                                             *)

LEMMA LargestIn ==
  ASSUME NEW S, IsFiniteSet(S), S # {}, \A k \in S : k \in Nat
  PROVE  \E m \in S : \A k \in S : k <= m
<1> DEFINE HasLargest(s) == \E m \in s : \A k \in s : k <= m
           Bad == {s \in SUBSET S : s # {} /\ ~HasLargest(s)}
<1>1. SUFFICES ASSUME Bad # {} PROVE FALSE
  OBVIOUS
<1>2. PICK s \in Bad : \A t \in Bad : ~(t \subseteq s /\ t # s)
  <2>1. Bad \in SUBSET (SUBSET S)
    OBVIOUS
  <2> HIDE DEF Bad
  <2> QED
    BY <1>1, <2>1, MinimalSubset
<1>3. PICK p \in s : TRUE
  OBVIOUS
<1>4. p \in Nat /\ \A k \in s : k \in Nat
  OBVIOUS
<1>5. CASE s = {p}
  BY <1>4, <1>5
<1>6. CASE s # {p}
  <2>1. s \ {p} # {} /\ s \ {p} \in SUBSET S /\ s \ {p} \subseteq s /\ s \ {p} # s
    BY <1>3, <1>6
  <2>2. HasLargest(s \ {p})
    BY <1>2, <2>1
  <2>3. PICK m \in s \ {p} : \A k \in s \ {p} : k <= m
    BY <2>2
  <2>4. HasLargest(s)
    <3>1. CASE p <= m
      BY <1>3, <2>3, <3>1
    <3>2. CASE m <= p
      BY <1>3, <1>4, <2>3, <3>2
    <3> QED
      BY <1>4, <2>3, <3>1, <3>2
  <2> QED
    BY <2>4
<1> QED
  BY <1>5, <1>6

LEMMA ExtremesOf ==
  ASSUME NEW S \in SUBSET Nat, IsFiniteSet(S), S # {}
  PROVE  /\ Min(S) \in S /\ \A k \in S : Min(S) <= k
         /\ Max(S) \in S /\ \A k \in S : k <= Max(S)
<1>1. \E m \in S : \A k \in S : m <= k
  <2>1. PICK m \in S : \A k \in S : ~(k < m)
    BY SmallestIn
  <2> QED
    BY <2>1
<1>2. \E m \in S : \A k \in S : m >= k
  BY LargestIn
<1>3. Min(S) \in S /\ \A k \in S : Min(S) <= k
  BY <1>1 DEF Min
<1>4. Max(S) \in S /\ \A k \in S : Max(S) >= k
  BY <1>2 DEF Max
<1> QED
  BY <1>3, <1>4

(* The places whose value is below v, and at most v; v is the value that   *)
(* comes after r others in order.                                          *)
Under(lat, v) == {p \in DOMAIN lat : lat[p] < v}

Upto(lat, v) == {p \in DOMAIN lat : lat[p] <= v}

ComesAfter(lat, v, r) ==
  /\ \E p \in DOMAIN lat : lat[p] = v
  /\ Cardinality(Under(lat, v)) <= r /\ r < Cardinality(Upto(lat, v))

LEMMA PlacesAreFinite ==
  ASSUME NEW P, IsFiniteSet(P), NEW lat \in [P -> Nat], NEW v
  PROVE  /\ IsFiniteSet(Under(lat, v)) /\ Cardinality(Under(lat, v)) \in Nat
         /\ IsFiniteSet(Upto(lat, v)) /\ Cardinality(Upto(lat, v)) \in Nat
<1>1. Under(lat, v) \in SUBSET P /\ Upto(lat, v) \in SUBSET P
  BY DEF Under, Upto
<1> QED
  BY <1>1, FS_Subset, FS_CardinalityType

LEMMA SomeComesAfter ==
  ASSUME NEW P, IsFiniteSet(P), NEW lat \in [P -> Nat],
         NEW r \in Nat, r < Cardinality(P)
  PROVE  \E v \in Nat : ComesAfter(lat, v, r)
<1> DEFINE Values == {lat[p] : p \in P}
           Enough == {v \in Nat : r < Cardinality(Upto(lat, v))}
<1>1. P # {}
  BY FS_EmptySet
<1>2. IsFiniteSet(Values) /\ Values \in SUBSET Nat /\ Values # {}
  <2>1. lat \in Surjection(P, Values)
    BY DEF Surjection
  <2> QED
    BY <1>1, <2>1, FS_Surjection
<1>3. PICK top \in Values : \A k \in Values : k <= top
  <2> HIDE DEF Values
  <2> QED
    BY <1>2, LargestIn
<1>4. top \in Enough
  <2>1. Upto(lat, top) = P
    BY <1>3 DEF Upto
  <2> QED
    BY <1>2, <2>1
<1>5. PICK v \in Enough : \A k \in Enough : ~(k < v)
  <2>1. Enough \in SUBSET Nat
    OBVIOUS
  <2> HIDE DEF Enough
  <2> QED
    BY <1>4, <2>1, SmallestIn
<1>6. v \in Nat /\ r < Cardinality(Upto(lat, v))
  OBVIOUS
<1>7. Cardinality(Under(lat, v)) <= r
  <2>1. CASE v = 0
    <3>1. Under(lat, v) = {}
      BY <2>1 DEF Under
    <3> QED
      BY <3>1, FS_EmptySet
  <2>2. CASE v # 0
    <3>1. v - 1 \in Nat /\ v - 1 < v
      BY <1>6, <2>2
    <3>2. ~(r < Cardinality(Upto(lat, v - 1)))
      BY <1>5, <3>1
    <3>3. Under(lat, v) = Upto(lat, v - 1)
      BY <1>6 DEF Under, Upto
    <3> QED
      BY <3>2, <3>3, PlacesAreFinite
  <2> QED
    BY <2>1, <2>2
<1>8. \E p \in P : lat[p] = v
  <2>1. Upto(lat, v) # Under(lat, v)
    BY <1>6, <1>7, PlacesAreFinite
  <2> QED
    BY <1>6, <2>1 DEF Upto, Under
<1> QED
  BY <1>6, <1>7, <1>8 DEF ComesAfter

LEMMA LaterIsLarger ==
  ASSUME NEW P, IsFiniteSet(P), NEW lat \in [P -> Nat],
         NEW v \in Nat, NEW w \in Nat, NEW r \in Nat, NEW q \in Nat, r <= q,
         ComesAfter(lat, v, r), ComesAfter(lat, w, q)
  PROVE  v <= w
<1> SUFFICES ASSUME w < v PROVE FALSE
  OBVIOUS
<1>1. Upto(lat, w) \in SUBSET Under(lat, v)
  BY DEF Upto, Under
<1>2. Cardinality(Upto(lat, w)) <= Cardinality(Under(lat, v))
  BY <1>1, FS_Subset, PlacesAreFinite
<1> QED
  BY <1>2, PlacesAreFinite DEF ComesAfter

(* Between two values, by hundredths.                                      *)
LEMMA Between ==
  ASSUME NEW x \in Nat, NEW y \in Nat, NEW w \in 0..99, x <= y
  PROVE  100 * x <= x * (100 - w) + y * w /\ x * (100 - w) + y * w <= 100 * y
<1>1. PICK d \in Nat : y = x + d
  BY y - x \in Nat
<1>2. d * w \in Nat /\ d * (100 - w) \in Nat
  OBVIOUS
<1>3. x * (100 - w) + y * w = 100 * x + d * w
  BY <1>1
<1>4. 100 * y = 100 * x + d * w + d * (100 - w)
  BY <1>1
<1> QED
  BY <1>2, <1>3, <1>4

LEMMA FurtherBetween ==
  ASSUME NEW x \in Nat, NEW y \in Nat, x <= y,
         NEW v \in 0..99, NEW w \in 0..99, v <= w
  PROVE  x * (100 - v) + y * v <= x * (100 - w) + y * w
<1>1. PICK d \in Nat : y = x + d
  BY y - x \in Nat
<1>2. PICK e \in Nat : w = v + e
  BY w - v \in Nat
<1>3. d * e \in Nat
  OBVIOUS
<1>4. x * (100 - v) + y * v = 100 * x + d * v
  BY <1>1
<1>5. x * (100 - w) + y * w = 100 * x + d * v + d * e
  BY <1>1, <1>2
<1> QED
  BY <1>3, <1>4, <1>5

(* The latencies of a window, by the place they are sampled at.            *)
Sample(t) == [place \in Sampled(t) |-> Latency(place)]

LEMMA SampleType ==
  ASSUME WindowTypeOK, NEW t
  PROVE  IsFiniteSet(Sampled(t)) /\ Sample(t) \in [Sampled(t) -> Nat]
<1> DEFINE Of(i) == {<<i, k>> : k \in DOMAIN buckets[i].content.sample}
           W == WindowSlots(t)
           All == {Of(i) : i \in W}
<1>1. ASSUME NEW i \in W
      PROVE  /\ buckets[i].content.sample \in Seq(Nat)
             /\ IsFiniteSet(Of(i))
  <2> DEFINE D == DOMAIN buckets[i].content.sample
             f == [k \in D |-> <<i, k>>]
  <2>1. buckets[i].content.sample \in Seq(Nat)
    BY DEF WindowSlots, WindowTypeOK, Contents
  <2>2. D = 1..Len(buckets[i].content.sample) /\ Len(buckets[i].content.sample) \in Nat
    BY <2>1
  <2>3. IsFiniteSet(D)
    BY <2>2, FS_Interval
  <2>4. f \in Surjection(D, Of(i))
    BY DEF Surjection
  <2> HIDE DEF D, f, Of
  <2> QED
    BY <2>1, <2>3, <2>4, FS_Surjection
<1>2. IsFiniteSet(All)
  <2> DEFINE f == [i \in W |-> Of(i)]
  <2>1. IsFiniteSet(W)
    BY SlotsAreFinite DEF WindowSlots
  <2> HIDE DEF Of, W
  <2>2. f \in Surjection(W, All)
    BY DEF Surjection
  <2> HIDE DEF f, All
  <2> QED
    BY <2>1, <2>2, FS_Surjection
<1>3. IsFiniteSet(UNION All)
  <2>1. \A T \in All : IsFiniteSet(T)
    <3> HIDE DEF Of, W
    <3> QED
      BY <1>1
  <2> HIDE DEF All
  <2> QED
    BY <1>2, <2>1, FS_UNION
<1>4. Sampled(t) = UNION All
  BY DEF Sampled
<1>5. ASSUME NEW place \in Sampled(t) PROVE Latency(place) \in Nat
  <2>1. PICK i \in W : place \in Of(i)
    BY DEF Sampled
  <2>2. PICK k \in DOMAIN buckets[i].content.sample : place = <<i, k>>
    BY <2>1
  <2>3. buckets[i].content.sample[k] \in Nat
    <3> DEFINE sample == buckets[i].content.sample
    <3>1. sample \in Seq(Nat) /\ k \in DOMAIN sample
      BY <1>1
    <3> HIDE DEF sample
    <3>2. sample[k] \in Nat
      BY <3>1
    <3> QED
      BY <3>2 DEF sample
  <2> QED
    BY <2>2, <2>3 DEF Latency
<1> HIDE DEF All
<1> QED
  BY <1>3, <1>4, <1>5 DEF Sample

LEMMA LatencyAtRank ==
  ASSUME WindowTypeOK, NEW t, NEW r \in Nat, r < Cardinality(Sampled(t))
  PROVE  LatencyAt(r, t) \in Nat /\ ComesAfter(Sample(t), LatencyAt(r, t), r)
<1> DEFINE lat == Sample(t)
           P == Sampled(t)
           Values == {Latency(place) : place \in P}
           Ranks(v) ==
             /\ Cardinality({place \in P : Latency(place) < v}) <= r
             /\ r < Cardinality({place \in P : Latency(place) <= v})
<1>1. IsFiniteSet(P) /\ lat \in [P -> Nat] /\ \A place \in P : lat[place] = Latency(place)
  BY SampleType DEF Sample
<1>2. \A v : /\ {place \in P : Latency(place) < v} = Under(lat, v)
             /\ {place \in P : Latency(place) <= v} = Upto(lat, v)
  BY <1>1 DEF Under, Upto
<1>3. \A v : ComesAfter(lat, v, r) <=> v \in Values /\ Ranks(v)
  <2> SUFFICES ASSUME NEW v
               PROVE  ComesAfter(lat, v, r) <=> v \in Values /\ Ranks(v)
    OBVIOUS
  <2>1. v \in Values <=> \E p \in DOMAIN lat : lat[p] = v
    BY <1>1
  <2> HIDE DEF Values, lat, P
  <2> QED
    BY <1>2, <2>1 DEF ComesAfter
<1>4. \E v \in Values : Ranks(v)
  <2> HIDE DEF P, lat, Values, Ranks
  <2>1. \E v \in Nat : ComesAfter(lat, v, r)
    BY <1>1, SomeComesAfter DEF P
  <2> QED
    BY <1>3, <2>1
<1>5. LatencyAt(r, t) = CHOOSE v \in Values : Ranks(v)
  BY DEF LatencyAt
<1>6. \A v \in Values : v \in Nat
  BY <1>1
<1> HIDE DEF Values, Ranks, lat
<1>7. LatencyAt(r, t) \in Values /\ Ranks(LatencyAt(r, t))
  BY <1>4, <1>5
<1> QED
  BY <1>3, <1>6, <1>7 DEF lat

LEMMA LatencyIsMonotone ==
  ASSUME WindowTypeOK, NEW t, NEW r \in Nat, NEW q \in Nat, r <= q,
         q < Cardinality(Sampled(t)), Cardinality(Sampled(t)) \in Nat
  PROVE  LatencyAt(r, t) <= LatencyAt(q, t)
BY SampleType, LatencyAtRank, LaterIsLarger

(* The two places a percentile lies between, and its value.                *)
LEMMA PercentileParts ==
  ASSUME WindowTypeOK, NEW t, Sampled(t) # {}, NEW p \in 0..99
  PROVE  \E lower, upper \in Nat, weight \in 0..99 :
           /\ p * (Cardinality(Sampled(t)) - 1) = 100 * lower + weight
           /\ upper = IF weight = 0 THEN lower ELSE lower + 1
           /\ upper < Cardinality(Sampled(t))
           /\ Percentile(p, t) =
                LatencyAt(lower, t) * (100 - weight) + LatencyAt(upper, t) * weight
<1> DEFINE N == Cardinality(Sampled(t))
           at == p * (N - 1)
           lower == at \div 100
           weight == at % 100
           upper == IF weight = 0 THEN lower ELSE lower + 1
<1>1. N \in Nat \ {0}
  BY SampleType, FS_CardinalityType, FS_EmptySet
<1>2. Percentile(p, t) =
        LatencyAt(lower, t) * (100 - weight) + LatencyAt(upper, t) * weight
  BY DEF Percentile
<1> HIDE DEF N
<1>3. at \in Nat /\ at <= 99 * (N - 1)
  <2>1. PICK m \in Nat : N = m + 1
    BY <1>1, N - 1 \in Nat
  <2>2. PICK k \in Nat : p + k = 99
    BY 99 - p \in Nat
  <2>3. 99 * m = p * m + k * m /\ k * m \in Nat /\ p * m \in Nat
    BY <2>1, <2>2
  <2> QED
    BY <2>1, <2>3
<1> HIDE DEF at
<1>4. at = 100 * lower + weight /\ weight \in 0..99 /\ lower \in Int
  BY <1>3, DivisionOf
<1> HIDE DEF lower, weight
<1>5. lower \in Nat /\ upper \in Nat /\ upper < N
  BY <1>1, <1>3, <1>4
<1> HIDE DEF upper
<1>6. upper = IF weight = 0 THEN lower ELSE lower + 1
  BY DEF upper
<1> QED
  BY <1>2, <1>4, <1>5, <1>6 DEF at, N

LEMMA PercentileBounds ==
  ASSUME WindowTypeOK, NEW t, Sampled(t) # {}, NEW p \in 0..99
  PROVE  LET latencies == {Latency(place) : place \in Sampled(t)} IN
         /\ Percentile(p, t) \in Nat
         /\ 100 * Min(latencies) <= Percentile(p, t)
         /\ Percentile(p, t) <= 100 * Max(latencies)
<1> DEFINE L == {Latency(place) : place \in Sampled(t)}
           N == Cardinality(Sampled(t))
<1>1. PICK lower, upper \in Nat, weight \in 0..99 :
           /\ upper = IF weight = 0 THEN lower ELSE lower + 1
           /\ upper < N
           /\ Percentile(p, t) =
                LatencyAt(lower, t) * (100 - weight) + LatencyAt(upper, t) * weight
  BY PercentileParts
<1>2. N \in Nat /\ IsFiniteSet(Sampled(t)) /\ Sample(t) \in [Sampled(t) -> Nat]
  BY SampleType, FS_CardinalityType
<1>3. IsFiniteSet(L) /\ L \in SUBSET Nat /\ L # {}
  <2>1. Sample(t) \in Surjection(Sampled(t), L) /\ L \in SUBSET Nat
    BY <1>2 DEF Surjection, Sample
  <2> QED
    BY <1>2, <2>1, FS_Surjection
<1>4. ASSUME NEW r \in Nat, r < N
      PROVE  LatencyAt(r, t) \in L /\ LatencyAt(r, t) \in Nat
  <2>1. LatencyAt(r, t) \in Nat /\ ComesAfter(Sample(t), LatencyAt(r, t), r)
    BY <1>4, LatencyAtRank
  <2> QED
    BY <1>2, <2>1 DEF ComesAfter, Sample
<1> HIDE DEF L, N
<1>5. /\ Min(L) \in Nat /\ \A k \in L : Min(L) <= k
      /\ Max(L) \in Nat /\ \A k \in L : k <= Max(L)
  BY <1>3, ExtremesOf
<1>6. lower <= upper /\ lower < N
  BY <1>1, <1>2
<1> DEFINE x == LatencyAt(lower, t)
           y == LatencyAt(upper, t)
<1>7. x \in Nat /\ y \in Nat /\ Min(L) <= x /\ y <= Max(L) /\ x <= y
  BY <1>1, <1>2, <1>4, <1>5, <1>6, LatencyIsMonotone DEF N
<1>8. Percentile(p, t) = x * (100 - weight) + y * weight
  BY <1>1
<1> HIDE DEF x, y
<1>9. 100 * x <= Percentile(p, t) /\ Percentile(p, t) <= 100 * y
  BY <1>7, <1>8, Between
<1>10. Percentile(p, t) \in Nat
  <2>1. x * (100 - weight) \in Nat /\ y * weight \in Nat
    BY <1>7
  <2> QED
    BY <1>8, <2>1
<1> QED
  BY <1>5, <1>7, <1>9, <1>10 DEF L

LEMMA PercentileIsMonotone ==
  ASSUME WindowTypeOK, NEW t, Sampled(t) # {}, NEW p \in 0..99, NEW q \in 0..99, p <= q
  PROVE  Percentile(p, t) <= Percentile(q, t)
<1> DEFINE N == Cardinality(Sampled(t))
           L(r) == LatencyAt(r, t)
<1>1. PICK i, j \in Nat, v \in 0..99 :
           /\ p * (N - 1) = 100 * i + v
           /\ j = IF v = 0 THEN i ELSE i + 1
           /\ j < N
           /\ Percentile(p, t) = L(i) * (100 - v) + L(j) * v
  BY PercentileParts
<1>2. PICK k, l \in Nat, w \in 0..99 :
           /\ q * (N - 1) = 100 * k + w
           /\ l = IF w = 0 THEN k ELSE k + 1
           /\ l < N
           /\ Percentile(q, t) = L(k) * (100 - w) + L(l) * w
  BY PercentileParts
<1>3. N \in Nat \ {0}
  BY SampleType, FS_CardinalityType, FS_EmptySet
<1>4. \A r \in Nat : r < N => L(r) \in Nat
  BY LatencyAtRank
<1>5. \A r, s \in Nat : r <= s /\ s < N => L(r) <= L(s)
  BY <1>3, LatencyIsMonotone
<1> HIDE DEF L, N
<1>6. 100 * i + v <= 100 * k + w
  <2>1. PICK m \in Nat : N = m + 1
    BY <1>3, N - 1 \in Nat
  <2>2. PICK e \in Nat : q = p + e
    BY q - p \in Nat
  <2>3. q * m = p * m + e * m /\ e * m \in Nat /\ p * m \in Nat
    BY <2>1, <2>2
  <2> QED
    BY <1>1, <1>2, <2>1, <2>3
<1>7. i <= j /\ k <= l /\ i < N /\ k < N
  BY <1>1, <1>2, <1>3
<1>8. /\ L(i) \in Nat /\ L(j) \in Nat /\ L(k) \in Nat /\ L(l) \in Nat
      /\ L(i) <= L(j) /\ L(k) <= L(l)
  BY <1>1, <1>2, <1>4, <1>5, <1>7
<1>9. CASE i = k
  <2>1. v <= w
    BY <1>6, <1>9
  <2>2. CASE v = 0
    <3>1. Percentile(p, t) = 100 * L(i)
      BY <1>1, <1>8, <2>2
    <3> QED
      BY <1>2, <1>8, <1>9, <3>1, Between
  <2>3. CASE v # 0
    <3>1. j = l
      BY <1>1, <1>2, <1>9, <2>1, <2>3
    <3>2. L(i) * (100 - v) + L(j) * v <= L(i) * (100 - w) + L(j) * w
      BY <1>8, <2>1, FurtherBetween
    <3> QED
      BY <1>1, <1>2, <1>9, <3>1, <3>2
  <2> QED
    BY <2>2, <2>3
<1>10. CASE i # k
  <2>1. j <= k
    BY <1>1, <1>6, <1>10
  <2>2. L(j) <= L(k)
    BY <1>5, <1>7, <2>1
  <2>3. Percentile(p, t) <= 100 * L(j)
    BY <1>1, <1>8, Between
  <2>4. 100 * L(k) <= Percentile(q, t)
    BY <1>2, <1>8, Between
  <2>5. L(i) * (100 - v) + L(j) * v \in Int /\ L(k) * (100 - w) + L(l) * w \in Int
    BY <1>8
  <2> QED
    BY <1>1, <1>2, <1>8, <2>2, <2>3, <2>4, <2>5
<1> QED
  BY <1>9, <1>10

LEMMA RingSnapshot == RingIInv => SnapshotIsExact
<1> SUFFICES ASSUME RingIInv PROVE SnapshotIsExact
  OBVIOUS
<1>1. \A t \in -1..(BufferSize + 1) : t \in Int
  OBVIOUS
<1>2. \A t \in -1..(BufferSize + 1) :
        LET window == {s \in Seconds : s <= now /\ s > now - Span(t)} IN
        /\ TotalRequests(t) = SumFunctionOnSet([s \in Seconds |-> seen[s].count], window)
        /\ \A c \in Classes :
             CountOf(c, t) = SumFunctionOnSet([s \in Seconds |-> seen[s].tally[c]], window)
  BY <1>1, SumsAreExact
<1>3. ASSUME NEW t \in {t \in 1..BufferSize : Sampled(t) # {}}
      PROVE  LET latencies == {Latency(place) : place \in Sampled(t)}
                 p50 == Percentile(50, t)
                 p90 == Percentile(90, t)
                 p95 == Percentile(95, t)
                 p99 == Percentile(99, t)
             IN  100 * Min(latencies) <= p50 /\ p50 <= p90 /\ p90 <= p95 /\ p95 <= p99
                 /\ p99 <= 100 * Max(latencies)
  BY PercentileBounds, PercentileIsMonotone DEF RingIInv
<1> QED
  BY <1>2, <1>3, LastSecondIsExact DEF SnapshotIsExact

(* Whatever trailing length is asked for, a snapshot sums up exactly what  *)
(* was recorded of its window, in total and by class; its percentiles are  *)
(* in order and between the extremes; and its rate is that of the last     *)
(* complete second.                                                        *)
THEOREM WindowSnapshotIsExact == WindowSpec => []SnapshotIsExact
BY RingInit, RingStep, RingSnapshot, PTL DEF WindowSpec

-----------------------------------------------------------------------------
(* Expiries are set from the clock, which only moves forward: none is      *)
(* later than the one a breach would set now, and the last one set is the  *)
(* lock's.                                                                 *)
LockIInv ==
  /\ now \in Nat
  /\ blockedUntil \in [IPs -> Nat]
  /\ scaleLockExp \in Nat
  /\ \A ip \in IPs : blockedUntil[ip] <= Expiry
  /\ LockCoversBlocks

LEMMA LockInit == DetectorInit => LockIInv
BY DetectorAssumption, ClockAssumption DEF DetectorInit, LockIInv, LockCoversBlocks, Expiry

LEMMA LockStep == LockIInv /\ [DetectorNext]_detectorVars => LockIInv'
<1> SUFFICES ASSUME LockIInv, [DetectorNext]_detectorVars
             PROVE  LockIInv'
  OBVIOUS
<1> USE DetectorAssumption, ClockAssumption DEF LockIInv, LockCoversBlocks, Expiry
<1>1. ASSUME NEW ip \in IPs, NEW stamp \in Stamps, InspectFailure(ip, stamp)
      PROVE  LockIInv'
  <2>1. CASE Block(ip) /\ now' = now
    BY <2>1 DEF Block
  <2>2. CASE UNCHANGED <<now, blockedUntil, scaleLockExp>>
    BY <2>2
  <2> QED
    BY <1>1, <2>1, <2>2 DEF InspectFailure
<1>2. CASE EvaluateWindow
  BY <1>2 DEF EvaluateWindow
<1>3. CASE DetectorTick
  BY <1>3 DEF DetectorTick, Advance
<1>4. CASE UNCHANGED detectorVars
  BY <1>4 DEF detectorVars
<1> QED
  BY <1>1, <1>2, <1>3, <1>4 DEF DetectorNext, Inspect

(* While any address is blocked, scaling down is locked.                   *)
THEOREM DetectorLockCoversBlocks == DetectorSpec => []LockCoversBlocks
<1>1. LockIInv => LockCoversBlocks
  BY DEF LockIInv
<1> QED
  BY LockInit, LockStep, <1>1, PTL DEF DetectorSpec

-----------------------------------------------------------------------------
(* The lists are tallies of seconds, and each was part of what was         *)
(* inspected: an entry is added to both, and only ever dropped from the    *)
(* list.                                                                   *)
ListIInv ==
  /\ ipAuthFails \in [IPs -> Tallies] /\ failed \in [IPs -> Tallies]
  /\ blockedUntil \in [IPs -> Nat]
  /\ DetectorTypeOK

LEMMA OneMoreAtType ==
  ASSUME NEW t \in Tallies, NEW s \in Seconds
  PROVE  /\ OneMoreAt(t, s) \in Tallies
         /\ \A z \in Seconds : OneMoreAt(t, s)[z] = IF z = s THEN t[z] + 1 ELSE t[z]
BY DEF OneMoreAt, Tallies

(* What is kept of a list is a tally no larger than what there was.        *)
LEMMA RecentType ==
  ASSUME NEW ip \in IPs, NEW stamp \in Seconds, ListIInv
  PROVE  /\ Recent(ip, stamp) \in Tallies
         /\ \A z \in Seconds :
              Recent(ip, stamp)[z] <= OneMoreAt(failed[ip], stamp)[z]
<1> DEFINE Pruned == [s \in Seconds |->
                       IF s + FailWindow >= stamp THEN ipAuthFails[ip][s] ELSE 0]
<1>1. ipAuthFails[ip] \in Tallies /\ failed[ip] \in Tallies
  BY DEF ListIInv
<1>2. Pruned \in Tallies /\ \A z \in Seconds : Pruned[z] <= failed[ip][z]
  BY <1>1 DEF ListIInv, DetectorTypeOK, Tallies
<1>3. Recent(ip, stamp) = OneMoreAt(Pruned, stamp)
  BY DEF Recent
<1> HIDE DEF Pruned
<1>4. \A z \in Seconds : Pruned[z] \in Nat /\ failed[ip][z] \in Nat
  BY <1>1, <1>2 DEF Tallies
<1> QED
  BY <1>1, <1>2, <1>3, <1>4, OneMoreAtType

LEMMA ListInit == DetectorInit => ListIInv
BY DetectorAssumption, ClockAssumption DEF DetectorInit, ListIInv, DetectorTypeOK, Tallies, Seconds, Threats

LEMMA ListStep == ListIInv /\ [DetectorNext]_detectorVars => ListIInv'
<1> SUFFICES ASSUME ListIInv, [DetectorNext]_detectorVars
             PROVE  ListIInv'
  OBVIOUS
<1>1. ASSUME NEW ip \in IPs, NEW stamp \in Stamps, InspectFailure(ip, stamp)
      PROVE  ListIInv'
  <2>1. stamp \in Seconds
    BY DEF Stamps
  <2>2. failed' \in [IPs -> Tallies] /\ ipAuthFails' \in [IPs -> Tallies]
    BY <1>1, <2>1, OneMoreAtType, RecentType DEF InspectFailure, ListIInv
  <2>3. \A x \in IPs, s \in Seconds : ipAuthFails'[x][s] <= failed'[x][s]
    <3> SUFFICES ASSUME NEW x \in IPs, NEW s \in Seconds
                 PROVE  ipAuthFails'[x][s] <= failed'[x][s]
      OBVIOUS
    <3>1. CASE x = ip
      BY <1>1, <2>1, <3>1, RecentType DEF InspectFailure, ListIInv
    <3>2. CASE x # ip
      BY <1>1, <3>2 DEF InspectFailure, ListIInv, DetectorTypeOK
    <3> QED
      BY <3>1, <3>2
  <2>4. now' \in Seconds /\ reported' \in Threats
    BY <1>1 DEF InspectFailure, ListIInv, DetectorTypeOK, Threats
  <2>5. Expiry \in 0..(MaxTime + LockDuration)
    BY DetectorAssumption, ClockAssumption DEF Expiry, ListIInv, DetectorTypeOK, Seconds
  <2>6. \A x \in IPs : blockedUntil'[x] \in 0..(MaxTime + LockDuration)
    <3>1. CASE UNCHANGED blockedUntil
      BY <3>1 DEF ListIInv, DetectorTypeOK
    <3>2. CASE Block(ip)
      BY <3>2, <2>5 DEF Block, ListIInv, DetectorTypeOK
    <3> QED
      BY <1>1, <3>1, <3>2 DEF InspectFailure
  <2>7. blockedUntil' \in [IPs -> Nat]
    BY <1>1, <2>5, DetectorAssumption, ClockAssumption DEF InspectFailure, Block, ListIInv
  <2>8. scaleLockExp' \in 0..(MaxTime + LockDuration)
    BY <1>1, <2>5 DEF InspectFailure, Block, ListIInv, DetectorTypeOK
  <2> QED
    BY <2>2, <2>3, <2>4, <2>6, <2>7, <2>8 DEF ListIInv, DetectorTypeOK
<1>2. CASE EvaluateWindow
  BY <1>2 DEF EvaluateWindow, Verdict, ListIInv, DetectorTypeOK, Threats
<1>3. CASE DetectorTick
  BY <1>3, DetectorAssumption, ClockAssumption DEF DetectorTick, Advance, ListIInv, DetectorTypeOK, Seconds
<1>4. CASE UNCHANGED detectorVars
  BY <1>4 DEF detectorVars, ListIInv, DetectorTypeOK
<1> QED
  BY <1>1, <1>2, <1>3, <1>4 DEF DetectorNext, Inspect

(* The lists, the blocks and the lock have their types, and no list holds  *)
(* more entries of a second than there were failures (detector.go:82-99).  *)
THEOREM DetectorTypeCorrect == DetectorSpec => []DetectorTypeOK
<1>1. ListIInv => DetectorTypeOK
  BY DEF ListIInv
<1> QED
  BY ListInit, ListStep, <1>1, PTL DEF DetectorSpec

-----------------------------------------------------------------------------
(* Floods.  The inductive invariant: no entry an inspection could still    *)
(* count has been pruned, for records are inspected no earlier than they   *)
(* are stamped, and nothing is stamped with a second to come.              *)
Intact ==
  \A ip \in IPs, s \in Seconds :
    s + FailWindow >= now => ipAuthFails[ip][s] = failed[ip][s]

NoneToCome == \A ip \in IPs, s \in Seconds : s > now => failed[ip][s] = 0

FloodIInv == ListIInv /\ Intact /\ NoneToCome /\ FloodIsBlocked

LEMMA SumOverSeconds ==
  ASSUME NEW f, DOMAIN f = Seconds
  PROVE  SumFunction(f) = Total(f, Seconds)
BY SumIsTotal DEF SumFunction

(* What an inspection counts, second by second.                            *)
LEMMA RecentAt ==
  ASSUME NEW ip \in IPs, NEW stamp \in Seconds, ListIInv, NEW z \in Seconds
  PROVE  Recent(ip, stamp)[z] =
           IF z = stamp THEN
             (IF z + FailWindow >= stamp THEN ipAuthFails[ip][z] ELSE 0) + 1
           ELSE IF z + FailWindow >= stamp THEN ipAuthFails[ip][z] ELSE 0
<1> DEFINE Pruned == [s \in Seconds |->
                       IF s + FailWindow >= stamp THEN ipAuthFails[ip][s] ELSE 0]
<1>1. Pruned \in Tallies
  BY DEF ListIInv, Tallies
<1>2. Recent(ip, stamp) = OneMoreAt(Pruned, stamp)
  BY DEF Recent
<1>3. Pruned[z] = IF z + FailWindow >= stamp THEN ipAuthFails[ip][z] ELSE 0
  OBVIOUS
<1> HIDE DEF Pruned
<1> QED
  BY <1>1, <1>2, <1>3, OneMoreAtType

LEMMA FloodInit == DetectorInit => FloodIInv
<1> SUFFICES ASSUME DetectorInit
             PROVE  ListIInv /\ Intact /\ NoneToCome /\ FloodIsBlocked
  BY DEF FloodIInv
<1>1. ListIInv
  BY ListInit
<1>2. Intact /\ NoneToCome
  BY DEF DetectorInit, Intact, NoneToCome
<1>3. FloodIsBlocked
  <2> SUFFICES ASSUME NEW ip \in IPs, NEW a, NEW b
               PROVE  ~(FailedWithin(ip, a, b) >= FailLimit)
    BY DEF FloodIsBlocked
  <2> DEFINE Part == {s \in Seconds : a <= s /\ s <= b}
             Zero == [s \in Seconds |-> 0]
  <2>1. failed[ip] = Zero
    BY DEF DetectorInit
  <2>2. IsFiniteSet(Part) /\ Part \in SUBSET Seconds
    BY SecondsAreFinite
  <2>3. Total(Zero, {}) = 0 /\ \A s \in Part : Zero[s] = 0
    BY FS_EmptySet, TotalByPicking
  <2>4. FailedWithin(ip, a, b) = Total(Zero, Part)
    BY <2>1, SumIsTotal DEF FailedWithin
  <2> HIDE DEF Part, Zero
  <2>5. Total(Zero, {}) = Total(Zero, Part)
    BY <2>2, <2>3, TotalOfPart
  <2> QED
    BY <2>3, <2>4, <2>5, DetectorAssumption
<1> QED
  BY <1>1, <1>2, <1>3

(* The step that adds a failure, for what is in the lists.                 *)
LEMMA IntactStep ==
  ASSUME FloodIInv, NEW ip \in IPs, NEW stamp \in Stamps,
         InspectFailure(ip, stamp)
  PROVE  Intact' /\ NoneToCome'
<1>1. stamp \in Seconds /\ stamp \in Nat /\ now \in Nat /\ stamp <= now /\ now' = now
  BY ClockAssumption DEF Stamps, Seconds, InspectFailure, FloodIInv, ListIInv, DetectorTypeOK
<1>2. ipAuthFails \in [IPs -> Tallies] /\ failed \in [IPs -> Tallies] /\ ListIInv
  BY DEF FloodIInv, ListIInv
<1>3. /\ ipAuthFails' = [ipAuthFails EXCEPT ![ip] = Recent(ip, stamp)]
      /\ failed' = [failed EXCEPT ![ip] = OneMoreAt(failed[ip], stamp)]
  BY DEF InspectFailure
<1>4. ASSUME NEW x \in IPs, NEW s \in Seconds
      PROVE  /\ s + FailWindow >= now' => ipAuthFails'[x][s] = failed'[x][s]
             /\ s > now' => failed'[x][s] = 0
  <2>1. s \in Nat
    BY ClockAssumption DEF Seconds
  <2>2. /\ s + FailWindow >= now => ipAuthFails[x][s] = failed[x][s]
        /\ s > now => failed[x][s] = 0
    BY DEF FloodIInv, Intact, NoneToCome
  <2>3. CASE x # ip
    BY <1>1, <1>2, <1>3, <2>2, <2>3
  <2>4. CASE x = ip
    <3>1. ipAuthFails'[x] = Recent(ip, stamp) /\ failed'[x] = OneMoreAt(failed[x], stamp)
      BY <1>2, <1>3, <2>4
    <3>2. failed'[x][s] = IF s = stamp THEN failed[x][s] + 1 ELSE failed[x][s]
      BY <1>1, <1>2, <3>1, OneMoreAtType
    <3>3. s + FailWindow >= now => s + FailWindow >= stamp
      BY <1>1, <2>1, DetectorAssumption
    <3>4. s + FailWindow >= now => ipAuthFails'[x][s] = failed'[x][s]
      BY <1>1, <1>2, <2>2, <2>4, <3>1, <3>2, <3>3, RecentAt
    <3>5. s > now => failed'[x][s] = 0
      BY <1>1, <2>1, <2>2, <3>2
    <3> QED
      BY <1>1, <3>4, <3>5
  <2> QED
    BY <2>3, <2>4
<1> QED
  BY <1>4 DEF Intact, NoneToCome

(* A flood the inspected failure completes lies among what is counted.     *)
LEMMA FloodIsSeen ==
  ASSUME FloodIInv, NEW ip \in IPs, NEW stamp \in Stamps,
         InspectFailure(ip, stamp), NEW t \in Seconds,
         FailWindow >= MaxLate, t <= stamp, stamp <= t + FailWindow - MaxLate,
         FailedWithin(ip, t, t + FailWindow - MaxLate)' >= FailLimit
  PROVE  Breached(Recent(ip, stamp))
<1> DEFINE Part  == {s \in Seconds : t <= s /\ s <= t + FailWindow - MaxLate}
           Added == OneMoreAt(failed[ip], stamp)
           Count == Recent(ip, stamp)
<1>1. /\ stamp \in Seconds /\ stamp \in Nat /\ now \in Nat /\ t \in Nat
      /\ now <= stamp + MaxLate /\ stamp <= now
  BY ClockAssumption DEF Stamps, Seconds, FloodIInv, ListIInv, DetectorTypeOK
<1>2. ipAuthFails \in [IPs -> Tallies] /\ failed \in [IPs -> Tallies] /\ ListIInv
  BY DEF FloodIInv, ListIInv
<1>3. failed'[ip] = Added
  BY <1>2 DEF InspectFailure
<1>4. Total(Added, Part) >= FailLimit
  BY <1>3, SumIsTotal DEF FailedWithin
<1>5. Count \in Tallies /\ Added \in Tallies
  BY <1>1, <1>2, RecentType, OneMoreAtType
<1>6. ASSUME NEW s \in Part PROVE Count[s] = Added[s]
  <2>1. s \in Seconds /\ s \in Nat
    BY ClockAssumption DEF Seconds
  <2>2. s + FailWindow >= now /\ s + FailWindow >= stamp
    BY <1>1, <2>1, ClockAssumption, DetectorAssumption
  <2>3. ipAuthFails[ip][s] = failed[ip][s]
    BY <2>1, <2>2 DEF FloodIInv, Intact
  <2>4. Count[s] = IF s = stamp THEN failed[ip][s] + 1 ELSE failed[ip][s]
    BY <1>1, <1>2, <2>1, <2>2, <2>3, RecentAt
  <2>5. Added[s] = IF s = stamp THEN failed[ip][s] + 1 ELSE failed[ip][s]
    BY <1>1, <1>2, <2>1, OneMoreAtType
  <2> QED
    BY <2>4, <2>5
<1>7. IsFiniteSet(Part) /\ Part \in SUBSET Seconds /\ IsFiniteSet(Seconds)
  BY SecondsAreFinite
<1>8. \A s \in Seconds : Count[s] \in Nat /\ DOMAIN Count = Seconds
  BY <1>5 DEF Tallies
<1>9. SumFunction(Count) = Total(Count, Seconds)
  BY <1>5, SumOverSeconds DEF Tallies
<1> HIDE DEF Part, Count, Added
<1>10. Total(Count, Part) = Total(Added, Part)
  BY <1>6, <1>7, TotalAgrees
<1>11. Total(Count, Part) <= Total(Count, Seconds)
  BY <1>7, <1>8, TotalOfPart
<1>12. Total(Count, Part) \in Nat /\ Total(Count, Seconds) \in Nat
  BY <1>7, <1>8, TotalIsNat
<1>13. SumFunction(Count) >= FailLimit
  BY <1>4, <1>9, <1>10, <1>11, <1>12, DetectorAssumption
<1> QED
  BY <1>13 DEF Breached, Count

LEMMA FloodStep == FloodIInv /\ [DetectorNext]_detectorVars => FloodIInv'
<1> SUFFICES ASSUME FloodIInv, [DetectorNext]_detectorVars
             PROVE  FloodIInv'
  OBVIOUS
<1>1. ListIInv' /\ ListIInv
  BY ListStep DEF FloodIInv
<1>2. ASSUME NEW ip \in IPs, NEW stamp \in Stamps, InspectFailure(ip, stamp)
      PROVE  FloodIInv'
  <2>1. Intact' /\ NoneToCome'
    BY <1>2, IntactStep
  <2>2. ASSUME NEW x \in IPs, NEW t \in Seconds, FailWindow >= MaxLate,
               FailedWithin(x, t, t + FailWindow - MaxLate)' >= FailLimit
        PROVE  blockedUntil'[x] > 0
    <3> DEFINE Part == {s \in Seconds : t <= s /\ s <= t + FailWindow - MaxLate}
    <3>1. /\ failed \in [IPs -> Tallies] /\ stamp \in Seconds
          /\ failed' = [failed EXCEPT ![ip] = OneMoreAt(failed[ip], stamp)]
      BY <1>1, <1>2 DEF ListIInv, InspectFailure, Stamps
    <3>2. blockedUntil[x] > 0 => blockedUntil'[x] > 0
      <4>1. Expiry > 0
        BY <1>1, ClockAssumption, DetectorAssumption DEF Expiry, ListIInv, DetectorTypeOK, Seconds
      <4> QED
        BY <1>1, <1>2, <4>1 DEF InspectFailure, Block, ListIInv
    <3>3. CASE x = ip /\ stamp \in Part
      <4>1. Breached(Recent(ip, stamp))
        BY <1>2, <2>2, <3>3, FloodIsSeen
      <4>2. Block(ip)
        BY <1>2, <4>1 DEF InspectFailure
      <4>3. Expiry > 0
        BY <1>1, ClockAssumption, DetectorAssumption DEF Expiry, ListIInv, DetectorTypeOK, Seconds
      <4> QED
        BY <1>1, <3>3, <4>2, <4>3 DEF Block, ListIInv
    <3>4. CASE ~(x = ip /\ stamp \in Part)
      <4>1. ASSUME NEW s \in Part PROVE failed'[x][s] = failed[x][s]
        BY <3>1, <3>4, OneMoreAtType
      <4>2. IsFiniteSet(Part)
        BY SecondsAreFinite
      <4>3. FailedWithin(x, t, t + FailWindow - MaxLate)' = Total(failed'[x], Part)
        BY SumIsTotal DEF FailedWithin
      <4>4. FailedWithin(x, t, t + FailWindow - MaxLate) = Total(failed[x], Part)
        BY SumIsTotal DEF FailedWithin
      <4> HIDE DEF Part
      <4>5. Total(failed'[x], Part) = Total(failed[x], Part)
        BY <4>1, <4>2, TotalAgrees
      <4>6. FailedWithin(x, t, t + FailWindow - MaxLate) >= FailLimit
        BY <2>2, <4>3, <4>4, <4>5
      <4> QED
        BY <2>2, <3>2, <4>6 DEF FloodIInv, FloodIsBlocked
    <3> QED
      BY <3>3, <3>4
  <2>3. FloodIsBlocked'
    BY <2>2 DEF FloodIsBlocked
  <2> QED
    BY <1>1, <2>1, <2>3 DEF FloodIInv
<1>3. CASE UNCHANGED <<ipAuthFails, blockedUntil, failed>> /\ now' \in {now, now + 1}
  <2>1. now \in Nat /\ now' \in Nat /\ now' >= now
    BY <1>1, <1>3, ClockAssumption DEF ListIInv, DetectorTypeOK, Seconds
  <2>2. Intact' /\ NoneToCome'
    BY <1>3, <2>1, ClockAssumption, DetectorAssumption
       DEF FloodIInv, Intact, NoneToCome, Seconds
  <2>3. FloodIsBlocked'
    BY <1>3 DEF FloodIInv, FloodIsBlocked, FailedWithin
  <2> QED
    BY <1>1, <2>2, <2>3 DEF FloodIInv
<1>4. CASE EvaluateWindow
  BY <1>3, <1>4 DEF EvaluateWindow
<1>5. CASE DetectorTick
  BY <1>3, <1>5 DEF DetectorTick, Advance
<1>6. CASE UNCHANGED detectorVars
  BY <1>3, <1>6 DEF detectorVars
<1> QED
  BY <1>2, <1>4, <1>5, <1>6 DEF DetectorNext, Inspect

(* As many failures as the limit, close enough in time, always blocked     *)
(* their address, however late and in whatever order they were inspected.  *)
THEOREM DetectorFloodIsBlocked == DetectorSpec => []FloodIsBlocked
<1>1. FloodIInv => FloodIsBlocked
  BY DEF FloodIInv
<1> QED
  BY FloodInit, FloodStep, <1>1, PTL DEF DetectorSpec

(* What a breach counted lies within one window and its lateness.          *)
LEMMA BreachIsFlood ==
  ASSUME FloodIInv, NEW ip \in IPs, NEW stamp \in Stamps,
         InspectFailure(ip, stamp), Breached(Recent(ip, stamp))
  PROVE  \E t \in Seconds :
           FailedWithin(ip, t, t + FailWindow + MaxLate)' >= FailLimit
<1> DEFINE t     == IF stamp >= FailWindow THEN stamp - FailWindow ELSE 0
           Part  == {s \in Seconds : t <= s /\ s <= t + FailWindow + MaxLate}
           Added == OneMoreAt(failed[ip], stamp)
           Count == Recent(ip, stamp)
<1>1. /\ stamp \in Seconds /\ stamp \in Nat /\ now \in Nat
      /\ now <= stamp + MaxLate /\ stamp <= now
  BY ClockAssumption DEF Stamps, Seconds, FloodIInv, ListIInv, DetectorTypeOK
<1>2. /\ ipAuthFails \in [IPs -> Tallies] /\ failed \in [IPs -> Tallies]
      /\ ListIInv /\ DetectorTypeOK
  BY DEF FloodIInv, ListIInv
<1>3. t \in Seconds /\ t \in Nat
  BY <1>1, ClockAssumption, DetectorAssumption DEF Seconds
<1>4. failed'[ip] = Added
  BY <1>2 DEF InspectFailure
<1>5. Count \in Tallies /\ Added \in Tallies /\ \A z \in Seconds : Count[z] <= Added[z]
  BY <1>1, <1>2, RecentType, OneMoreAtType
<1>6. ASSUME NEW s \in Seconds \ Part PROVE Count[s] = 0
  <2>1. s \in Nat
    BY ClockAssumption DEF Seconds
  <2>2. s + FailWindow < stamp \/ s > now
    BY <1>1, <2>1, ClockAssumption, DetectorAssumption
  <2>3. s # stamp
    BY <1>1, <2>1, <2>2, DetectorAssumption
  <2>4. s > now => ipAuthFails[ip][s] = 0
    <3>1. s > now => failed[ip][s] = 0
      BY DEF FloodIInv, NoneToCome
    <3>2. ipAuthFails[ip][s] \in Nat /\ ipAuthFails[ip][s] <= failed[ip][s]
      BY <1>2 DEF Tallies, DetectorTypeOK
    <3> QED
      BY <3>1, <3>2
  <2>5. s + FailWindow < stamp => ~(s + FailWindow >= stamp)
    BY <1>1, <2>1, DetectorAssumption
  <2> QED
    BY <1>1, <1>2, <2>2, <2>3, <2>4, <2>5, RecentAt
<1>7. IsFiniteSet(Part) /\ Part \in SUBSET Seconds /\ IsFiniteSet(Seconds)
  BY SecondsAreFinite
<1>8. DOMAIN Count = Seconds /\ \A s \in Seconds : Count[s] \in Nat /\ Added[s] \in Nat
  BY <1>5 DEF Tallies
<1>9. Total(Count, Seconds) >= FailLimit
  BY <1>8, SumOverSeconds DEF Breached
<1>10. FailedWithin(ip, t, t + FailWindow + MaxLate)' = Total(Added, Part)
  BY <1>4, SumIsTotal DEF FailedWithin
<1> HIDE DEF Part, Count, Added, t
<1>11. Total(Count, Part) = Total(Count, Seconds)
  BY <1>6, <1>7, <1>8, TotalOfPart
<1>12. Total(Count, Part) <= Total(Added, Part)
  BY <1>5, <1>7, <1>8, TotalMonotone
<1>13. Total(Count, Part) \in Nat /\ Total(Added, Part) \in Nat
  BY <1>7, <1>8, TotalIsNat
<1> QED
  BY <1>3, <1>9, <1>10, <1>11, <1>12, <1>13, DetectorAssumption

(* No address is blocked for failures that were spread over more than one  *)
(* window and the lateness of its records.                                 *)
THEOREM DetectorBlockedOnlyByFlood == DetectorSpec => BlockedOnlyByFlood
<1> DEFINE OnlyByFlood ==
             \A ip \in IPs : blockedUntil'[ip] # blockedUntil[ip] =>
               \E t \in Seconds :
                 FailedWithin(ip, t, t + FailWindow + MaxLate)' >= FailLimit
<1>1. FloodIInv /\ [DetectorNext]_detectorVars => [OnlyByFlood]_detectorVars
  <2> SUFFICES ASSUME FloodIInv, DetectorNext, NEW ip \in IPs,
                      blockedUntil'[ip] # blockedUntil[ip]
               PROVE  \E t \in Seconds :
                        FailedWithin(ip, t, t + FailWindow + MaxLate)' >= FailLimit
    OBVIOUS
  <2>1. PICK x \in IPs, stamp \in Stamps : InspectFailure(x, stamp)
    BY DEF DetectorNext, Inspect, EvaluateWindow, DetectorTick
  <2>2. Breached(Recent(x, stamp)) /\ Block(x)
    BY <2>1 DEF InspectFailure
  <2>3. x = ip
    BY <2>2 DEF Block, FloodIInv, ListIInv
  <2> QED
    BY <2>1, <2>2, <2>3, BreachIsFlood
<1> QED
  BY FloodInit, FloodStep, <1>1, PTL DEF DetectorSpec, BlockedOnlyByFlood

=============================================================================
