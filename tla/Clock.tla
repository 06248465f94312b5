------------------------------- MODULE Clock -------------------------------
(***************************************************************************)
(* The daemon's clock, in seconds.  A line is stamped when it is parsed    *)
(* (pkg/parser/parser.go); the window and the detector take the record     *)
(* later, when the goroutine that parsed it gets their lock: up to MaxLate *)
(* seconds later, and in any order.                                        *)
(***************************************************************************)
EXTENDS Naturals

CONSTANTS
  MaxLate,      (* seconds between a record's stamp and its storage        *)
  MaxTime,      (* bound of the clock                                      *)
  MaxPerSecond  (* bound of the records of one history stamped alike       *)

ASSUME ClockAssumption ==
  MaxLate \in Nat /\ MaxTime \in Nat /\ MaxPerSecond \in Nat

VARIABLE now (* time.Now().Unix() *)

Seconds == 0..MaxTime

(* The seconds a record that arrives now can be stamped with.              *)
Stamps == {s \in Seconds : s <= now /\ now <= s + MaxLate}

Advance == now < MaxTime /\ now' = now + 1

=============================================================================
