---------------------------- MODULE EditHistory ----------------------------
(***************************************************************************)
(* What undo and redo promise the user of an editor: documents in a row,   *)
(* and the place of the present one.  An edit follows the present document *)
(* and takes the place of all that was undone; undo and redo go one place  *)
(* back or on, and change nothing else.                                    *)
(***************************************************************************)
EXTENDS Integers, Sequences

CONSTANTS Limit,    (* how many documents undo can go back                 *)
          Loadable  (* the documents that may be loaded                    *)

VARIABLES docs, at

historyVars == <<docs, at>>

HistoryInit == docs \in {<<d>> : d \in Loadable} /\ at = 1

\* The document is loaded: there is nothing to undo or to redo.
Load == docs' \in {<<d>> : d \in Loadable} /\ at' = 1

\* One edit is one step of the history, and it does change the document.
Edit ==
  LET kept == SubSeq(docs, IF at > Limit THEN at - Limit + 1 ELSE 1, at) IN
  /\ docs' = Append(kept, docs'[Len(docs')])
  /\ docs'[Len(docs')] # docs[at]
  /\ at' = Len(docs')

Undo == at > 1 /\ at' = at - 1 /\ UNCHANGED docs
Redo == at < Len(docs) /\ at' = at + 1 /\ UNCHANGED docs

HistoryNext == Load \/ Edit \/ Undo \/ Redo

HistorySpec == HistoryInit /\ [][HistoryNext]_historyVars
=============================================================================
