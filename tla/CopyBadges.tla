------------------------------- MODULE CopyBadges -------------------------------
(***************************************************************************)
(* The "Copied!" badges of the site.  Each is shown by a click and taken   *)
(* down by a timer of two seconds, in three ways: those of the home page   *)
(* wait for the clipboard to accept the text, those of the policy studio,  *)
(* the policy builder and the pipeline do not wait, and the code snippets  *)
(* (components/ui/snippet.tsx) do not wait but clear the timer of an       *)
(* earlier click.                                                          *)
(***************************************************************************)
EXTENDS Naturals

CONSTANTS
  Waiting, Eager, Clearing,   (* badges of the three kinds                 *)
  MaxCopies                   (* bound on the clicks                       *)

ASSUME BadgeAssumption ==
  /\ Waiting \cap Eager = {} /\ Waiting \cap Clearing = {} /\ Eager \cap Clearing = {}
  /\ MaxCopies \in Nat

VARIABLES
  copied,     (* the badges shown                                          *)
  armedFor,   (* timers running for each badge                             *)
  writing,    (* writeText calls not settled yet, of each badge            *)
  granted,    (* history: writes the browser granted                      *)
  copies

badgeVars == <<copied, armedFor, writing, granted, copies>>

Badges == Waiting \cup Eager \cup Clearing

BadgesInit ==
  /\ copied = {} /\ copies = 0
  /\ armedFor = [b \in Badges |-> 0] /\ writing = [b \in Badges |-> 0]
  /\ granted = [b \in Badges |-> 0]

(* setCopied(true) and setTimeout(2000); a snippet clears the one before.  *)
ForgetfulShow(b) ==
  /\ copied' = copied \cup {b}
  /\ armedFor' = [armedFor EXCEPT ![b] = IF b \in copied THEN @ - 1 ELSE @ + 1]

StackingShow(b) ==
  /\ copied' = copied \cup {b}
  /\ armedFor' = [armedFor EXCEPT ![b] = @ + 1]

Show(b) ==
  /\ copied' = copied \cup {b}
  /\ armedFor' = [armedFor EXCEPT ![b] = IF b \in Clearing THEN 1 ELSE @ + 1]

HastyClickCopy(b) ==
  /\ copies < MaxCopies /\ copies' = copies + 1
  /\ writing' = [writing EXCEPT ![b] = @ + 1]
  /\ Show(b)
  /\ UNCHANGED granted

ClickCopy(b) ==
  /\ copies < MaxCopies /\ copies' = copies + 1
  /\ writing' = [writing EXCEPT ![b] = @ + 1]
  /\ IF b \in Waiting THEN UNCHANGED <<copied, armedFor>> ELSE Show(b)
  /\ UNCHANGED granted

(* The browser writes, or refuses: no permission, no focus.                *)
ClipboardAccepts(b) ==
  /\ writing[b] > 0 /\ writing' = [writing EXCEPT ![b] = @ - 1]
  /\ granted' = [granted EXCEPT ![b] = @ + 1]
  /\ IF b \in Waiting THEN Show(b) ELSE UNCHANGED <<copied, armedFor>>
  /\ UNCHANGED copies

ClipboardRefuses(b) ==
  /\ writing[b] > 0 /\ writing' = [writing EXCEPT ![b] = @ - 1]
  /\ UNCHANGED <<copied, armedFor, granted, copies>>

(* setCopied(false), whichever click armed the timer.                      *)
BadgeTimerFires(b) ==
  /\ armedFor[b] > 0 /\ armedFor' = [armedFor EXCEPT ![b] = @ - 1]
  /\ copied' = copied \ {b}
  /\ UNCHANGED <<writing, granted, copies>>

BadgesNext ==
  \E b \in Badges :
    ClickCopy(b) \/ ClipboardAccepts(b) \/ ClipboardRefuses(b) \/ BadgeTimerFires(b)

-----------------------------------------------------------------------------
BadgesTypeOK ==
  /\ copied \subseteq Badges /\ copies \in 0..MaxCopies
  /\ {armedFor, writing, granted} \subseteq [Badges -> 0..MaxCopies]

(* No badge stays up: in whatever order clicks, answers and timers come,   *)
(* one that is shown comes down (page.tsx:195-213, snippet.tsx:66-83).     *)
BadgeComesDown == \A b \in Badges : b \in copied ~> b \notin copied

(* A snippet's badge is not taken down by the timer of an earlier click,   *)
(* as the others' are: it falls with its last timer (snippet.tsx:67-71).   *)
SnippetKeepsItsTime ==
  [][\A b \in Clearing : b \in copied /\ b \notin copied' => armedFor'[b] = 0]_badgeVars

(* A badge of the home page never lies: each of its timers goes back to an *)
(* accepted text, also when an earlier click was refused late.             *)
HomeBadgesAreTrue ==
  \A b \in Waiting : (b \in copied => granted[b] > 0) /\ armedFor[b] <= granted[b]
=============================================================================
