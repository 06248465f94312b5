---------------------------- MODULE SlidingWindow ----------------------------
(***************************************************************************)
(* SlidingWindowEngine (pkg/engine/engine.go): a ring of one-second        *)
(* buckets indexed by the second modulo the ring's size.  Record and       *)
(* GetSnapshot run under e.mu, so each is atomic.  A record is stamped     *)
(* when its line is parsed and stored late and in any order (Clock).       *)
(*                                                                         *)
(* A bucket's content is its Count, one tally per status class, and the    *)
(* first positive latencies.  Classes holds the classes that have a tally; *)
(* a status below 200 is counted and has none ("none").  Latencies are     *)
(* whole numbers.                                                          *)
(***************************************************************************)
EXTENDS Clock, Integers, Sequences, FiniteSetsExt, Functions

CONSTANTS
  BufferSize, (* seconds in the ring                                       *)
  Classes,    (* status classes that are tallied                           *)
  Records,    (* the records there are, by class and latency               *)
  MaxSamples  (* latencies kept of a second, 1000 in the code              *)

ASSUME WindowAssumption ==
  /\ BufferSize \in Nat \ {0} /\ MaxLate < BufferSize
  /\ "none" \notin Classes /\ MaxSamples \in Nat
  /\ Records \subseteq [class : Classes \cup {"none"}, latency : Nat]

VARIABLES
  buckets, (* the ring                                                     *)
  seen     (* history: all that was ever recorded of each second           *)

windowVars == <<now, buckets, seen>>

Slots == 0..(BufferSize - 1)

(* The second of a slot that was never used: the code has a nil pointer.   *)
Never == -1

Contents == [count : Nat, tally : [Classes -> Nat], sample : Seq(Nat)]

Nothing == [count |-> 0, tally |-> [c \in Classes |-> 0], sample |-> <<>>]

(* Content with one more record.                                           *)
Plus(content, rec) ==
  [count |-> content.count + 1,
   tally |-> [c \in Classes |-> IF c = rec.class THEN content.tally[c] + 1
                                                 ELSE content.tally[c]],
   sample |-> IF rec.latency > 0 /\ Len(content.sample) < MaxSamples
              THEN Append(content.sample, rec.latency) ELSE content.sample]

Slot(sec) == sec % BufferSize

WindowInit ==
  /\ now = 0
  /\ buckets = [i \in Slots |-> [second |-> Never, content |-> Nothing]]
  /\ seen = [s \in Seconds |-> Nothing]

(* The content a record of second sec is added to: a bucket of any other   *)
(* second is thrown away and a fresh one takes its slot.                   *)
FaultyKept(sec) == buckets[Slot(sec)].content

Kept(sec) ==
  IF buckets[Slot(sec)].second = sec THEN buckets[Slot(sec)].content ELSE Nothing

Record(sec, rec) ==
  /\ seen[sec].count < MaxPerSecond
  /\ buckets' = [buckets EXCEPT ![Slot(sec)] =
                   [second |-> sec, content |-> Plus(Kept(sec), rec)]]
  /\ seen' = [seen EXCEPT ![sec] = Plus(seen[sec], rec)]
  /\ UNCHANGED now

WindowTick == Advance /\ UNCHANGED <<buckets, seen>>

WindowNext ==
  \/ WindowTick
  \/ \E sec \in Stamps, rec \in Records : Record(sec, rec)

WindowSpec == WindowInit /\ [][WindowNext]_windowVars

-----------------------------------------------------------------------------
(* GetSnapshot(trailing): sums over the buckets of the window, which ends  *)
(* with the present second and excludes second now - trailing.             *)
Span(trailing) ==
  IF trailing <= 0 \/ trailing > BufferSize THEN BufferSize ELSE trailing

FaultyInWindow(i, trailing) ==
  buckets[i].second >= now - Span(trailing) /\ buckets[i].second <= now

InWindow(i, trailing) ==
  /\ buckets[i].second # Never
  /\ buckets[i].second > now - Span(trailing)
  /\ buckets[i].second <= now

WindowSlots(trailing) == {i \in Slots : InWindow(i, trailing)}

TotalRequests(trailing) ==
  SumFunctionOnSet([i \in Slots |-> buckets[i].content.count], WindowSlots(trailing))

CountOf(class, trailing) ==
  SumFunctionOnSet([i \in Slots |-> buckets[i].content.tally[class]],
                   WindowSlots(trailing))

(* RPS, as the requests of the window: the divisor is the span, whether or *)
(* not the engine has been running for that long.                          *)
InstantaneousRPS ==
  LET last == buckets[Slot(now - 1)]
  IN  IF now > 0 /\ last.second = now - 1 THEN last.content.count ELSE 0

(* allLatencies: where the sampled latencies of the window lie, and the    *)
(* one that comes after `rank' others when they are sorted.                *)
Sampled(trailing) ==
  UNION {{<<i, k>> : k \in DOMAIN buckets[i].content.sample} : i \in WindowSlots(trailing)}

Latency(place) == buckets[place[1]].content.sample[place[2]]

LatencyAt(rank, trailing) ==
  LET sampled == Sampled(trailing) IN
  CHOOSE v \in {Latency(place) : place \in sampled} :
    /\ Cardinality({place \in sampled : Latency(place) < v}) <= rank
    /\ rank < Cardinality({place \in sampled : Latency(place) <= v})

(* percentile, for p between 0 and 100, in hundredths: interpolated        *)
(* between the two latencies around the place p percent along the list.    *)
FaultyPercentile(p, trailing) ==
  LET at     == p * (Cardinality(Sampled(trailing)) - 1)
      lower  == at \div 100
      weight == at % 100
      upper  == IF weight = 0 THEN lower ELSE lower + 1
  IN  LatencyAt(lower, trailing) * weight + LatencyAt(upper, trailing) * (100 - weight)

Percentile(p, trailing) ==
  LET at     == p * (Cardinality(Sampled(trailing)) - 1)
      lower  == at \div 100
      weight == at % 100
      upper  == IF weight = 0 THEN lower ELSE lower + 1
  IN  LatencyAt(lower, trailing) * (100 - weight) + LatencyAt(upper, trailing) * weight

-----------------------------------------------------------------------------
(* Records for the model checker: one that is not sampled, and two that    *)
(* differ in class and latency.                                            *)
SampledRecords ==
  {[class |-> "none", latency |-> 0], [class |-> "none", latency |-> 4],
   [class |-> "5xx", latency |-> 9]}

-----------------------------------------------------------------------------
WindowTypeOK ==
  /\ now \in Seconds
  /\ buckets \in [Slots -> [second : Seconds \cup {Never}, content : Contents]]
  /\ seen \in [Seconds -> Contents]

(* What the ring answers about one second.                                 *)
Answer(sec) ==
  IF buckets[Slot(sec)].second = sec THEN buckets[Slot(sec)].content ELSE Nothing

(* The ring answers every second of the longest window exactly, although   *)
(* slots are shared by seconds and records arrive late and out of order:   *)
(* no late record evicts a bucket still inside the window, and no reused   *)
(* slot keeps a count of the second it held before (engine.go:74-81).      *)
RingIsExact ==
  \A s \in Seconds : s <= now /\ s > now - BufferSize => Answer(s) = seen[s]

(* Every snapshot is the sum over its window of all that was recorded, in  *)
(* total and by class, whatever trailing length is asked for, the absurd   *)
(* ones included (engine.go:105-131).  The last complete second, read by a *)
(* slot computed apart from the loop over the buckets, agrees with what    *)
(* was recorded (engine.go:117-121); in a ring of one slot that second is  *)
(* already gone once another is stored.  The percentiles reported together *)
(* are in order and lie between the extremes of what was sampled of the    *)
(* window (engine.go:145-179).                                             *)
SnapshotIsExact ==
  /\ \A t \in -1..(BufferSize + 1) :
       LET window == {s \in Seconds : s <= now /\ s > now - Span(t)} IN
       /\ TotalRequests(t) = SumFunctionOnSet([s \in Seconds |-> seen[s].count], window)
       /\ \A c \in Classes :
            CountOf(c, t) = SumFunctionOnSet([s \in Seconds |-> seen[s].tally[c]], window)
  /\ \A t \in {t \in 1..BufferSize : Sampled(t) # {}} :
       LET latencies == {Latency(place) : place \in Sampled(t)}
           p50 == Percentile(50, t)
           p90 == Percentile(90, t)
           p95 == Percentile(95, t)
           p99 == Percentile(99, t)
       IN  100 * Min(latencies) <= p50 /\ p50 <= p90 /\ p90 <= p95 /\ p95 <= p99
           /\ p99 <= 100 * Max(latencies)
  /\ now > 0 /\ BufferSize > 1 => InstantaneousRPS = seen[now - 1].count

=============================================================================
