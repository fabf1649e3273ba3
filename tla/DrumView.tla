------------------------------ MODULE DrumView ------------------------------
(***************************************************************************)
(* What the drum editor shows: the rows and lanes of the articulations     *)
(* (lib/drums/taxonomy.ts, rows.ts) and the interval of time in view       *)
(* (use-drum-editor.ts), with the pointer's way back from the screen to    *)
(* articulations.  Heights count sixths of a pixel: a collapsed group of   *)
(* up to three articulations then has its lanes at whole positions.        *)
(***************************************************************************)
EXTENDS Integers, FiniteSets, SequencesExt

CONSTANTS Groups,      (* GROUPS: sequences of articulations               *)
          AudioLane, GroupRow, MidiRow, (* heights of rows                 *)
          Duration,    (* of the song                                      *)
          MinSpan,     (* MIN_SPAN                                         *)
          DefaultSpan, (* DEFAULT_SPAN                                     *)
          Wide         (* 1 / Wide of the span stays left of the playhead  *)

ASSUME DrumViewAssumption ==
  /\ \A x \in {AudioLane, GroupRow, MidiRow, MinSpan, DefaultSpan, Wide} : x \in Nat \ {0}
  /\ Duration \in Nat /\ MinSpan <= DefaultSpan /\ Groups \in Seq(ToSet(Groups))
  /\ \A i \in DOMAIN Groups :
       /\ Groups[i] \in Seq(ToSet(Groups[i])) /\ Len(Groups[i]) > 0
       /\ GroupRow % (2 * Len(Groups[i])) = 0
  /\ MidiRow % 2 = 0

VARIABLES view,   (* the interval in view: start t0 and span               *)
          open,   (* the expanded groups                                   *)
          looks   (* bound: how often the view may still change            *)

viewVars == <<view, open, looks>>

Smaller(a, b) == IF a <= b THEN a ELSE b
Larger(a, b) == IF a >= b THEN a ELSE b

-----------------------------------------------------------------------------
(* Rows                                                                    *)

Arts == UNION {ToSet(Groups[i]) : i \in DOMAIN Groups}

\* ARTICULATIONS[art].group and index, the latter from 0.
GroupOf(art) == CHOOSE i \in DOMAIN Groups : art \in ToSet(Groups[i])
IndexIn(art) == (CHOOSE k \in DOMAIN Groups[GroupOf(art)] : Groups[GroupOf(art)][k] = art) - 1

Expanded(i, exp) == i \in exp /\ Len(Groups[i]) > 1

\* The rows of a group: itself, or one of each of its articulations.
RowsOf(i, exp) ==
  IF Expanded(i, exp)
  THEN {[type |-> "midi", group |-> i, index |-> k, h |-> MidiRow] : k \in DOMAIN Groups[i]}
  ELSE {[type |-> "group", group |-> i, index |-> 0, h |-> GroupRow]}

RowsShown(exp) ==
  {[type |-> "audio", group |-> 0, index |-> 0, h |-> AudioLane]}
    \cup UNION {RowsOf(i, exp) : i \in DOMAIN Groups}

\* The rows above a row, and where it begins: below them.
Above(r, exp) ==
  {s \in RowsShown(exp) : s.group < r.group \/ (s.group = r.group /\ s.index < r.index)}
TopOf(r, exp) ==
  LET Heights(type, h) == h * Cardinality({s \in Above(r, exp) : s.type = type}) IN
  Heights("audio", AudioLane) + Heights("group", GroupRow) + Heights("midi", MidiRow)

\* layoutRows: the audio lane, then each group, collapsed or as its rows.
LayoutRows(exp) == {[row |-> r, y |-> TopOf(r, exp)] : r \in RowsShown(exp)}

ArtOf(row) == Groups[row.group][row.index]

\* Mutant of LaneY: an expanded group is drawn as a collapsed one.
LaneOfGroup(art, rows) ==
  LET r == CHOOSE r \in rows : r.row.group = GroupOf(art) /\ r.row.index <= 1 IN
  r.y + (GroupRow * (2 * IndexIn(art) + 1)) \div (2 * Len(Groups[GroupOf(art)]))

\* laneY: where a hit is drawn, the middle of its row or of its lane.
LaneY(art, rows) ==
  LET r == CHOOSE r \in rows :
             \/ r.row.type = "midi" /\ ArtOf(r.row) = art
             \/ r.row.type = "group" /\ r.row.group = GroupOf(art) IN
  IF r.row.type = "midi" THEN r.y + r.row.h \div 2
  ELSE r.y + (r.row.h * (2 * IndexIn(art) + 1)) \div (2 * Len(Groups[r.row.group]))

\* rowAt: the row under y.
RowAt(y, rows) == {r \in rows : r.y <= y /\ y < r.y + r.row.h}

\* articulationAt: the articulations a click at y means, at most one.
ArticulationAt(y, rows) ==
  LET lane(r) == LET n == Len(Groups[r.row.group]) IN
                 Smaller(n - 1, Larger(0, ((y - r.y) * n) \div r.row.h)) IN
  {IF r.row.type = "midi" THEN ArtOf(r.row) ELSE Groups[r.row.group][lane(r) + 1] :
     r \in {r \in RowAt(y, rows) : r.row.type # "audio"}}

-----------------------------------------------------------------------------
(* The interval in view                                                    *)

Whole == Larger(MinSpan, IF Duration = 0 THEN DefaultSpan ELSE Duration)
BoundedSpan(span) == Larger(MinSpan, Smaller(Whole, span))

\* Mutant of ViewOf: the start is not pulled back from the end.
ViewUnbounded(t0, span) == [t0 |-> Larger(0, t0), span |-> BoundedSpan(span)]

\* setView
ViewOf(t0, span) ==
  LET s == BoundedSpan(span) IN [t0 |-> Larger(0, Smaller(t0, Whole - s)), span |-> s]

Look(v) ==
  /\ looks > 0 /\ v # view
  /\ view' = v /\ looks' = looks - 1
  /\ UNCHANGED open

\* zoomAt: by to/by around the point x/of of the width.  Its code bounds the
\* span before the point is taken.
Zoomed(v, x, of, to, by) ==
  LET span == (v.span * to) \div by
      bounded == Larger(MinSpan, Smaller(IF Duration = 0 THEN DefaultSpan ELSE Duration, span)) IN
  ViewOf(v.t0 + (x * v.span) \div of - (x * bounded) \div of, span)

\* zoomIn and zoomOut around the middle; Ctrl and the wheel around the pointer.
ZoomIn == Look(Zoomed(view, 1, 2, 3, 5))
ZoomOut == Look(Zoomed(view, 1, 2, 8, 5))
WheelZoom(x) == \E to \in {1, 4} : Look(Zoomed(view, x, 2, to, 2))

\* The wheel pans; the overview puts the view around a point.
WheelPan(d) == Look(ViewOf(view.t0 + d, view.span))
OverviewGo(t) == Look(ViewOf(t - view.span \div 2, view.span))

\* fitLoop
FitLoop(loop) == loop.start < loop.end /\ Look(ViewOf(loop.start - 1, loop.end - loop.start + 2))

InView(v, t) == v.t0 <= t /\ t < v.t0 + v.span

\* The effect that follows the playhead.
Following(v, pos) == IF InView(v, pos) THEN v ELSE ViewOf(pos - v.span \div Wide, v.span)
Follow(pos) == Look(Following(view, pos))

\* RowHeaders: the disclosure of a group.
ToggleOpen(i) ==
  /\ looks > 0 /\ Len(Groups[i]) > 1
  /\ open' = IF i \in open THEN open \ {i} ELSE open \cup {i}
  /\ looks' = looks - 1
  /\ UNCHANGED view

ViewInit(n) ==
  /\ view = [t0 |-> 0, span |-> Smaller(DefaultSpan, Whole)]
  /\ open = {} /\ looks = n

ViewNext(loop) ==
  \/ ZoomIn \/ ZoomOut \/ FitLoop(loop)
  \/ \E x \in 0..2 : WheelZoom(x)
  \/ \E d \in {-2, 2} : WheelPan(d)
  \/ \E t \in 0..Duration : OverviewGo(t) \/ Follow(t)
  \/ \E i \in DOMAIN Groups : ToggleOpen(i)

-----------------------------------------------------------------------------
(* What the view promises *)

\* Whatever is zoomed, panned or fitted, the view stays within the song.
ViewInSong == view.t0 >= 0 /\ view.span >= MinSpan /\ view.t0 + view.span <= Whole

\* A click on a drawn hit means its articulation, collapsed or expanded.
PickedAsDrawn ==
  LET rows == LayoutRows(open) IN
  \A art \in Arts : ArticulationAt(LaneY(art, rows), rows) = {art}
=============================================================================
