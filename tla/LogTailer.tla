------------------------------- MODULE LogTailer -------------------------------
(***************************************************************************)
(* StartFileTailer (cmd/logstrata-daemon/server.go): one goroutine reads a *)
(* log file through a bufio.Reader and hands every line to ProcessLine,    *)
(* while the application appends to the file and the node rotates it.      *)
(*                                                                         *)
(* A line is two pieces, the second of which carries the newline; an       *)
(* application writes it at once or in two writes.  The reader's position  *)
(* belongs to the file it opened: a file that is renamed away is read on,  *)
(* one that is cut keeps its reader beyond its end.  A restart opens what  *)
(* is then at the path and starts from its first byte.                     *)
(***************************************************************************)
EXTENDS Naturals, Sequences

CONSTANTS
  MaxLines,     (* bound on the lines the application writes               *)
  MaxMishaps    (* bound on rotations and restarts                         *)

ASSUME TailerAssumption == MaxLines \in Nat /\ MaxMishaps \in Nat

VARIABLES
  tailed,       (* the pieces of the file the tailer has open              *)
  successor,    (* those of the file that took its place at the path       *)
  rotation,     (* of "renamed" and "cut": what befell it since it opened  *)
  offset,       (* pieces the reader has taken from the file               *)
  buffer,       (* pieces in the bufio.Reader                              *)
  handed,       (* the calls of ProcessLine: sequences of pieces           *)
  tailer,       (* the goroutine: "checking", "reading" or "ended"         *)
  stopped,      (* stopCh: "open" or "closed"                              *)
  whole,        (* history: the lines that were written at once            *)
  lines, mishaps

readerVars == <<offset, buffer, handed, tailer>>
fileVars == <<tailed, successor, rotation, whole, lines>>
tailerVars == <<fileVars, readerVars, stopped, mishaps>>

Head1(i) == [line |-> i, part |-> "head"]
Rest(i) == [line |-> i, part |-> "rest"]   (* with the newline             *)
Pieces == {Head1(i) : i \in 1..MaxLines} \cup {Rest(i) : i \in 1..MaxLines}

TailerInit ==
  /\ tailed = <<>> /\ successor = <<>> /\ rotation = {}
  /\ offset = 0 /\ buffer = <<>> /\ handed = <<>> /\ tailer = "checking"
  /\ stopped = "open" /\ whole = {} /\ lines = 0 /\ mishaps = 0

-----------------------------------------------------------------------------
(* The application, and the node.                                          *)

Log == IF "renamed" \in rotation THEN successor ELSE tailed
MidLine == Log # <<>> /\ Log[Len(Log)].part = "head"

AppendToLog(pieces) ==
  IF "renamed" \in rotation
  THEN successor' = successor \o pieces /\ UNCHANGED tailed
  ELSE tailed' = tailed \o pieces /\ UNCHANGED successor

WriteLine ==
  /\ ~MidLine /\ lines < MaxLines /\ lines' = lines + 1
  /\ \/ AppendToLog(<<Head1(lines'), Rest(lines')>>) /\ whole' = whole \cup {lines'}
     \/ AppendToLog(<<Head1(lines')>>) /\ UNCHANGED whole
  /\ UNCHANGED <<readerVars, rotation, stopped, mishaps>>

WriteRest ==
  /\ MidLine
  /\ AppendToLog(<<Rest(Log[Len(Log)].line)>>)
  /\ UNCHANGED <<readerVars, rotation, whole, lines, stopped, mishaps>>

Mishap == mishaps < MaxMishaps /\ mishaps' = mishaps + 1

Rename ==
  /\ Mishap /\ "renamed" \notin rotation /\ ~MidLine
  /\ rotation' = rotation \cup {"renamed"} /\ successor' = <<>>
  /\ UNCHANGED <<readerVars, tailed, whole, lines, stopped>>

Cut ==
  /\ Mishap /\ "renamed" \notin rotation /\ ~MidLine
  /\ rotation' = {"cut"} /\ tailed' = <<>>
  /\ UNCHANGED <<readerVars, successor, whole, lines, stopped>>

-----------------------------------------------------------------------------
(* An iteration: look at stopCh, ReadString('\n'), and ProcessLine(line)    *)
(* when it returned something.                                             *)

BeginLineRead ==
  /\ tailer = "checking" /\ stopped = "open" /\ tailer' = "reading"
  /\ UNCHANGED <<fileVars, offset, buffer, handed, stopped, mishaps>>

ExitTailer ==
  /\ tailer = "checking" /\ stopped = "closed" /\ tailer' = "ended"
  /\ UNCHANGED <<fileVars, offset, buffer, handed, stopped, mishaps>>

Newlines == {k \in 1..Len(buffer) : buffer[k].part = "rest"}

(* A newline is in the buffer.                                             *)
FaultyHandLine ==
  /\ tailer = "reading" /\ Newlines # {}
  /\ LET k == CHOOSE k \in Newlines : \A j \in Newlines : k <= j IN
     /\ handed' = Append(handed, SubSeq(buffer, 1, k))
     /\ buffer' = SubSeq(buffer, k, Len(buffer))
  /\ tailer' = "checking"
  /\ UNCHANGED <<fileVars, offset, stopped, mishaps>>

HandLine ==
  /\ tailer = "reading" /\ Newlines # {}
  /\ LET k == CHOOSE k \in Newlines : \A j \in Newlines : k <= j IN
     /\ handed' = Append(handed, SubSeq(buffer, 1, k))
     /\ buffer' = SubSeq(buffer, k + 1, Len(buffer))
  /\ tailer' = "checking"
  /\ UNCHANGED <<fileVars, offset, stopped, mishaps>>

(* None is: as much more of the file as one read returns.                  *)
Fill ==
  /\ tailer = "reading" /\ Newlines = {}
  /\ \E k \in offset + 1 .. Len(tailed) :
       buffer' = buffer \o SubSeq(tailed, offset + 1, k) /\ offset' = k
  /\ UNCHANGED <<fileVars, handed, tailer, stopped, mishaps>>

(* The end of the file: what is there is handed as if it were a line, and  *)
(* the tailer sleeps and tries again.                                      *)
HandRemainder ==
  /\ handed' = IF buffer = <<>> THEN handed ELSE Append(handed, buffer)
  /\ buffer' = <<>>
  /\ UNCHANGED <<fileVars, offset, stopped, mishaps>>

DeafHitEnd ==     (* an error ends the loop *)
  /\ tailer = "reading" /\ Newlines = {} /\ offset >= Len(tailed)
  /\ HandRemainder /\ tailer' = "ended"

HastyHitEnd ==    (* a short read is taken for the end *)
  /\ tailer = "reading" /\ Newlines = {}
  /\ HandRemainder /\ tailer' = "checking"

HitEnd ==
  /\ tailer = "reading" /\ Newlines = {} /\ offset >= Len(tailed)
  /\ HandRemainder /\ tailer' = "checking"

StopTailer ==
  /\ stopped' = "closed"
  /\ UNCHANGED <<fileVars, readerVars, mishaps>>

RestartTailer ==
  /\ Mishap
  /\ tailed' = Log /\ successor' = <<>> /\ rotation' = {}
  /\ offset' = 0 /\ buffer' = <<>> /\ handed' = <<>>
  /\ tailer' = "checking" /\ stopped' = "open"
  /\ UNCHANGED <<whole, lines>>

TailerStep == BeginLineRead \/ HandLine \/ Fill \/ HitEnd

TailerNext ==
  \/ WriteLine \/ WriteRest \/ Rename \/ Cut \/ TailerStep \/ ExitTailer
  \/ StopTailer \/ RestartTailer

-----------------------------------------------------------------------------
TailerTypeOK ==
  /\ {tailed, successor, buffer} \subseteq Seq(Pieces)
  /\ handed \in Seq(Seq(Pieces) \ {<<>>})
  /\ rotation \subseteq {"renamed", "cut"} /\ offset \in Nat
  /\ tailer \in {"checking", "reading", "ended"} /\ stopped \in {"open", "closed"}
  /\ whole \subseteq 1..lines /\ lines \in 0..MaxLines /\ mishaps \in 0..MaxMishaps

Calls == 1..Len(handed)
In(piece, call) == \E k \in 1..Len(handed[call]) : handed[call][k] = piece

(* Within one life of the daemon nothing of the log is processed twice,    *)
(* and what is processed comes in the order it was written, also when the  *)
(* file is renamed or cut under the reader (server.go:141-166).            *)
NothingTwice ==
  \A c, d \in Calls :
    \A j \in 1..Len(handed[c]), k \in 1..Len(handed[d]) :
      LET p == handed[c][j]
          q == handed[d][k]
      IN c < d \/ (c = d /\ j < k) =>
           p.line < q.line \/ (p.line = q.line /\ p.part = "head" /\ q.part = "rest")

(* A line the application wrote at once is processed at once: the reader's *)
(* buffer may end inside of it, its end of file may not.  Only after a cut *)
(* may the reader find itself inside of a line.                            *)
WholeLinesStayWhole ==
  "cut" \notin rotation =>
    \A c \in Calls : \A i \in whole : In(Rest(i), c) <=> In(Head1(i), c)

(* Every line that is complete in the file the tailer has open is          *)
(* processed, and the tailer never waits for another one to see it; unless *)
(* the daemon stops first, or restarts on the file's successor, or the     *)
(* file was cut.                                                           *)
InFile(i) == \E k \in 1..Len(tailed) : tailed[k] = Rest(i)

TailerCatchesUp ==
  \A i \in 1..MaxLines :
    InFile(i) ~> \/ \E c \in Calls : In(Rest(i), c)
                \/ stopped = "closed" \/ "cut" \in rotation \/ ~InFile(i)
=============================================================================
