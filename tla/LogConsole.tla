------------------------------ MODULE LogConsole ------------------------------
(***************************************************************************)
(* The dashboard's log terminal (app/dashboard/page.tsx): entries of four  *)
(* levels appended by the simulator, of which the newest MaxLogs are kept, *)
(* with pause, clear, a level filter and an export.                        *)
(*                                                                         *)
(* The effect that copies the pause into the reference addTerminalLog      *)
(* reads is run with the click that caused it, so one variable stands for  *)
(* both.  Times, services and messages are abstracted to a serial number.  *)
(***************************************************************************)
EXTENDS Integers, Sequences

CONSTANTS
  MaxLogs,    (* 150 in the code                                           *)
  MaxEntries  (* bound on the entries offered to the terminal              *)

ASSUME ConsoleAssumption == MaxLogs \in Nat \ {0} /\ MaxEntries \in Nat

VARIABLES
  terminalLogs,  (* the entries kept, oldest first                         *)
  logPaused,     (* isLogPaused: "yes" or "no"                             *)
  logFilter,
  viewAt,        (* where the terminal is scrolled to: "end" or "above"    *)
  logFile,       (* the entries of the last export                         *)
  offered,       (* entries offered so far                                 *)
  accepted       (* history: entries accepted since the last clear         *)

consoleVars ==
  <<terminalLogs, logPaused, logFilter, viewAt, logFile, offered, accepted>>

Levels == {"INFO", "WARNING", "ERROR", "CRITICAL"}

(* updated.slice(-150).                                                    *)
FaultyNewest(s) == IF Len(s) <= MaxLogs THEN s ELSE SubSeq(s, 1, MaxLogs)

Newest(s) == IF Len(s) <= MaxLogs THEN s ELSE SubSeq(s, Len(s) - MaxLogs + 1, Len(s))

(* The lines of the terminal.                                              *)
Shown ==
  LET Passes(entry) == logFilter = "ALL" \/ entry.level = logFilter
  IN  SelectSeq(terminalLogs, Passes)

ConsoleInit ==
  /\ terminalLogs = <<>> /\ logPaused = "no" /\ logFilter = "ALL"
  /\ viewAt = "end" /\ logFile = <<>> /\ offered = 0 /\ accepted = <<>>

(* A terminal that is not paused follows its end.                          *)
Follow(paused) == viewAt' = IF paused = "yes" THEN viewAt ELSE "end"

AddTerminalLog(level) ==
  LET entry == [serial |-> offered + 1, level |-> level] IN
  /\ offered < MaxEntries /\ offered' = offered + 1
  /\ IF logPaused = "yes"
     THEN UNCHANGED <<terminalLogs, viewAt, accepted>>
     ELSE /\ terminalLogs' = Newest(Append(terminalLogs, entry))
          /\ accepted' = Append(accepted, entry)
          /\ viewAt' = "end"
  /\ UNCHANGED <<logPaused, logFilter, logFile>>

TogglePause ==
  /\ logPaused' = IF logPaused = "yes" THEN "no" ELSE "yes"
  /\ Follow(logPaused')
  /\ UNCHANGED <<terminalLogs, logFilter, logFile, offered, accepted>>

HandleClearLogs ==
  /\ terminalLogs' = <<>> /\ accepted' = <<>>
  /\ Follow(logPaused)
  /\ UNCHANGED <<logPaused, logFilter, logFile, offered>>

(* Everything that is kept, whatever the filter shows.                     *)
FaultyHandleExportLogs ==
  /\ logFile' = Shown
  /\ UNCHANGED <<terminalLogs, logPaused, logFilter, viewAt, offered, accepted>>

HandleExportLogs ==
  /\ logFile' = terminalLogs
  /\ UNCHANGED <<terminalLogs, logPaused, logFilter, viewAt, offered, accepted>>

SetLogFilter(filter) ==
  /\ logFilter' = filter
  /\ UNCHANGED <<terminalLogs, logPaused, viewAt, logFile, offered, accepted>>

ScrollUp ==
  /\ Shown # <<>> /\ viewAt' = "above"
  /\ UNCHANGED <<terminalLogs, logPaused, logFilter, logFile, offered, accepted>>

ConsoleNext ==
  \/ \E level \in Levels : AddTerminalLog(level)
  \/ TogglePause \/ HandleClearLogs \/ HandleExportLogs \/ ScrollUp
  \/ \E filter \in Levels \cup {"ALL"} : SetLogFilter(filter)

-----------------------------------------------------------------------------
Entries == Seq([serial : 1..MaxEntries, level : Levels])

ConsoleTypeOK ==
  /\ terminalLogs \in Entries /\ logFile \in Entries /\ accepted \in Entries
  /\ logPaused \in {"yes", "no"} /\ viewAt \in {"end", "above"}
  /\ logFilter \in Levels \cup {"ALL"} /\ offered \in 0..MaxEntries

(* "Keep last 150" (page.tsx:243): across pauses, clears and overflow the  *)
(* terminal holds exactly the newest entries accepted since it was last    *)
(* cleared, in their order; what came while it was paused is dropped, not  *)
(* kept for later.                                                         *)
KeepsNewest ==
  terminalLogs = SubSeq(accepted, IF Len(accepted) > MaxLogs
                                  THEN Len(accepted) - MaxLogs + 1 ELSE 1,
                        Len(accepted))

(* An export leaves no gap: between its first and its last entry nothing   *)
(* that was accepted is missing, whatever filter the terminal showed at    *)
(* the time (lines 564-574).                                               *)
ExportHasNoGap ==
  [][logFile' # logFile /\ logFile' # <<>>
       => \A k \in 1..Len(accepted) :
            /\ accepted[k].serial >= logFile'[1].serial
            => \E j \in 1..Len(logFile') : logFile'[j] = accepted[k]]_consoleVars
=============================================================================
