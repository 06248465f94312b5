----------------------------- MODULE TemplateStore -----------------------------
(***************************************************************************)
(* The custom templates of the dashboard (app/dashboard/page.tsx): a list  *)
(* of named configurations kept in the page's state and in localStorage,   *)
(* which all tabs of the browser share.  A tab reads the store once, when  *)
(* it is opened, and writes its whole list on every save and delete.       *)
(*                                                                         *)
(* A configuration is abstracted to the number of the save that made it, a *)
(* list to the set of its templates (the order is only that of the rows);  *)
(* a name typed is a pair of what trim() leaves and whether it was padded. *)
(***************************************************************************)
EXTENDS Naturals

CONSTANTS
  Tabs,        (* the open tabs                                            *)
  TrimmedNames,(* names as trim() leaves them                              *)
  MaxSaves     (* bound on the saves                                       *)

Nothing == "nothing" (* what trim() leaves of blanks                       *)

ASSUME StoreAssumption ==
  /\ Nothing \notin TrimmedNames /\ "nobody" \notin Tabs
  /\ MaxSaves \in Nat

VARIABLES
  customTemplates, (* per tab: its list                                    *)
  templateName,    (* per tab: what is typed into the name field           *)
  stored,          (* localStorage["logstrata_templates"]                  *)
  saves,
  lastWriter       (* history: the tab that wrote stored, or "nobody"      *)

storeVars == <<customTemplates, templateName, stored, saves, lastWriter>>

Typed == [text : TrimmedNames \cup {Nothing}, padded : {"yes", "no"}]
Blank == [text |-> Nothing, padded |-> "no"]

StoreInit ==
  /\ customTemplates = [t \in Tabs |-> {}]
  /\ templateName = [t \in Tabs |-> Blank]
  /\ stored = {} /\ saves = 0 /\ lastWriter = "nobody"

(* useState's initialiser: the stored list, in a page opened or reloaded.  *)
OpenTab(t) ==
  /\ customTemplates' = [customTemplates EXCEPT ![t] = stored]
  /\ templateName' = [templateName EXCEPT ![t] = Blank]
  /\ UNCHANGED <<stored, saves, lastWriter>>

TypeName(t) ==
  /\ \E typed \in Typed : templateName' = [templateName EXCEPT ![t] = typed]
  /\ UNCHANGED <<customTemplates, stored, saves, lastWriter>>

Without(list, name) == {template \in list : template.name # name}

(* setCustomTemplates and localStorage.setItem.                            *)
FaultyWrite(t, list) ==
  /\ customTemplates' = [customTemplates EXCEPT ![t] = list]
  /\ UNCHANGED stored
  /\ lastWriter' = t

Write(t, list) ==
  /\ customTemplates' = [customTemplates EXCEPT ![t] = list]
  /\ stored' = list
  /\ lastWriter' = t

FaultyHandleSaveTemplate(t) ==
  LET name == templateName[t].text
      kept == IF templateName[t].padded = "yes" THEN customTemplates[t]
              ELSE Without(customTemplates[t], name)
  IN
  /\ name # Nothing /\ saves < MaxSaves /\ saves' = saves + 1
  /\ Write(t, kept \cup {[name |-> name, save |-> saves']})
  /\ templateName' = [templateName EXCEPT ![t] = Blank]

HandleSaveTemplate(t) ==
  LET name == templateName[t].text
      kept == Without(customTemplates[t], name)
  IN
  /\ name # Nothing /\ saves < MaxSaves /\ saves' = saves + 1
  /\ Write(t, kept \cup {[name |-> name, save |-> saves']})
  /\ templateName' = [templateName EXCEPT ![t] = Blank]

HandleDeleteTemplate(t) ==
  /\ \E template \in customTemplates[t] :
       Write(t, Without(customTemplates[t], template.name))
  /\ UNCHANGED <<templateName, saves>>

StoreNext ==
  \E t \in Tabs :
    OpenTab(t) \/ TypeName(t) \/ HandleSaveTemplate(t) \/ HandleDeleteTemplate(t)

-----------------------------------------------------------------------------
TemplateLists == SUBSET [name : TrimmedNames, save : 1..MaxSaves]

StoreTypeOK ==
  /\ customTemplates \in [Tabs -> TemplateLists] /\ stored \in TemplateLists
  /\ templateName \in [Tabs -> Typed]
  /\ saves \in 0..MaxSaves /\ lastWriter \in Tabs \cup {"nobody"}

Unique(list) == \A s, t \in list : s.name = t.name => s = t

(* The name is the key a template is rendered, loaded and deleted by       *)
(* (lines 1781-1790): no list ever holds one twice, however it is typed,   *)
(* and whichever tab's list was written last.                              *)
NamesAreKeys == Unique(stored) /\ \A t \in Tabs : Unique(customTemplates[t])

(* The tab that wrote last sees what a reload would bring it: until        *)
(* another tab writes, its list and the store are the same.  (The other    *)
(* tab's unseen templates are overwritten by its whole list.)              *)
LastWriterSurvivesReload ==
  lastWriter # "nobody" => customTemplates[lastWriter] = stored
=============================================================================
