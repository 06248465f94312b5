----------------------------- MODULE MCDetector -----------------------------
(* The load windows the detector is shown: quiet, steady at 60 requests    *)
(* per second, a surge to that rate, and a short window full of errors.    *)
EXTENDS Detector

LoadWindows ==
  {[short |-> 0,   long |-> 0,    errors |-> 0],
   [short |-> 300, long |-> 1800, errors |-> 0],
   [short |-> 300, long |-> 300,  errors |-> 0],
   [short |-> 20,  long |-> 120,  errors |-> 1]}

=============================================================================
