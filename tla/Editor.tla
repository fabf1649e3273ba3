------------------------------- MODULE Editor -------------------------------
(***************************************************************************)
(* The drum editor tab: the edit model under its page (EditModel), what it *)
(* shows (DrumView) and the kit audition that plays the edited hits of the *)
(* rows that sound (Kit).  A session begins with budgets for edits, looks  *)
(* and audio, so that each part is explored with as much of the others as  *)
(* can be checked.                                                         *)
(***************************************************************************)
EXTENDS EditModel, Kit

CONSTANT Budgets  (* records of edits, looks, frames, a grid and the hits *)

ASSUME EditorAssumption == \A b \in Budgets : b.hits \in Documents /\ b.grid \in Grids

VARIABLES muted,  (* rowMute: the articulations of the muted rows          *)
          solo    (* rowSolo: those of the row that sounds alone, if any   *)

editorVars == <<editVars, viewVars, kitVars, muted, solo>>

-----------------------------------------------------------------------------
(* Rows that sound                                                         *)

\* The rows with buttons: groups, and articulations of expanded ones.
RowKeys == {ToSet(Groups[i]) : i \in DOMAIN Groups}
             \cup {{art} : art \in UNION {ToSet(Groups[i]) : i \in open}}

\* isRowMuted
IsRowMuted(art, mutes, alone) ==
  (\E key \in mutes : art \in key) \/ (alone # {} /\ art \notin alone)

\* What the scheduler gets: the hits, less those of muted rows.
Sound(H, mutes, alone) ==
  {[id |-> h.id, t |-> h.t] : h \in {h \in H : ~IsRowMuted(h.art, mutes, alone)}}

\* toggleRowMute and toggleRowSolo
ToggleRow(key) ==
  /\ looks > 0 /\ looks' = looks - 1
  /\ \/ muted' = (IF key \in muted THEN muted \ {key} ELSE muted \cup {key}) /\ UNCHANGED solo
     \/ solo' = (IF solo = key THEN {} ELSE key) /\ UNCHANGED muted
  /\ SetHits(Sound(ed.hits, muted', solo'))
  /\ UNCHANGED <<editVars, view, open>>

\* An edit, with the effect that hands a change of the hits to the scheduler.
EditStep ==
  /\ EditNext
  /\ IF ed'.hits = ed.hits THEN UNCHANGED kitVars ELSE SetHits(Sound(ed'.hits, muted, solo))
  /\ UNCHANGED <<viewVars, muted, solo>>

LookStep(loop) == ViewNext(loop) /\ UNCHANGED <<editVars, kitVars, muted, solo>>

KitStep == KitNext /\ UNCHANGED <<editVars, viewVars, muted, solo>>

\* A session with budget b begins.
EditorStart(b) ==
  /\ EditInit(b.edits, b.grid, b.hits) /\ ViewInit(b.looks) /\ KitInit(b.frames)
  /\ muted = {} /\ solo = {}
  /\ plays = Sound(ed.hits, muted, solo)

EditorInit == \E b \in Budgets : EditorStart(b)

EditorNext ==
  \/ EditStep \/ KitStep
  \/ \E loop \in Regions \ {NoLoop} : LookStep(loop)
  \/ \E key \in RowKeys : ToggleRow(key)

EditorSpec == EditorInit /\ [][EditorNext]_editorVars

-----------------------------------------------------------------------------
(* What the grid promises the editor *)

\* Snapping takes the nearest line, every line that is drawn is one that a hit
\* snaps to, and a nudge by a line and one back end where they began, also
\* across a change of tempo and outside the beats.
LinesAgree ==
  HasGrid(grid) =>
    LET times == Head(grid.beats) - 2..Last(grid.beats) + 2 IN
    \A n \in Divisions :
      /\ \A t \in times :
           LET line == BeatUnits \div n
               off == Beat(grid, t) - Beat(grid, Snap(grid, t, n)) IN
           2 * off <= line /\ 2 * off >= -line
      /\ \A l \in Lines(grid, Head(grid.beats) - 2, Last(grid.beats) + 2, n) :
           /\ Snap(grid, l.t, n) = l.t
           /\ Step(grid, Step(grid, l.t, n, 1), n, -1) = l.t

\* Bars follow each other without a gap and are counted one by one, short ones
\* before a change of the signature too.
BarsFollow ==
  HasGrid(grid) =>
    \A b \in 0..grid.offset + Len(grid.beats) :
      LET bar == BarAt(grid, b)
          next == BarAt(grid, b + 1) IN
      /\ bar.startBeat <= b
      /\ next = bar \/ (next.startBeat = b + 1 /\ next.bar = bar.bar + 1)

\* Edits, view, grid and kit agree: the hits and ids are consistent, the view
\* stays in the song, pointers, lines and bars mean what is drawn, and the kit
\* sounds each hit of the edited document once, in time.
EditorInv == EditInv /\ ViewInSong /\ PickedAsDrawn /\ LinesAgree /\ BarsFollow /\ KitInv
=============================================================================
