------------------------------ MODULE Editing ------------------------------
(***************************************************************************)
(* The drum editor from both sides: a session of the editor tab (Editor),  *)
(* or the tabs over one document that the edits are saved to (DrumTabs, to *)
(* which an edit is a name).  They share no state, so one of them is at    *)
(* work and the other at rest.                                             *)
(***************************************************************************)
EXTENDS Editor, DrumTabs

VARIABLE work \* "session" or "document"

editingVars == <<work, editorVars, drumVars>>

EditingInit ==
  /\ work \in {"session", "document"}
  /\ IF work = "session" THEN EditorInit ELSE EditorStart(CHOOSE b \in Budgets : TRUE)
  /\ DrumInit

EditingNext ==
  /\ UNCHANGED work
  /\ \/ work = "session" /\ EditorNext /\ UNCHANGED drumVars
     \/ work = "document" /\ DrumNext /\ UNCHANGED editorVars

\* Tabs at rest have nothing to save, so fairness asks nothing of them.
FairEditingSpec == EditingInit /\ [][EditingNext]_editingVars /\ DrumFairness
=============================================================================
