----------------------------- MODULE EditModel -----------------------------
(***************************************************************************)
(* The edit model of the drum editor (lib/drums/model.ts) under the        *)
(* pointer, the keys and the fields of its page: hits with a selection,    *)
(* undo and redo, a clipboard, and drags that are one step of the history. *)
(* Hits are kept as a set: the code keeps them sorted by time.  A hit of   *)
(* the model has a negative id, a manual one its number.                   *)
(***************************************************************************)
EXTENDS BeatGrid, DrumView

CONSTANTS MaxVel, MidVel,  (* 127 and 64                                   *)
          VelStep,         (* the +10 and -10 of the velocity buttons      *)
          DefaultVel,
          FineNudge, CoarseNudge, DefaultBar,
          HistoryLimit,    (* HISTORY_LIMIT                                *)
          Documents,       (* sets of hits the server may answer with      *)
          Grids, Divisions,(* grids, and lines per beat                    *)
          Times, Vels, Sounds, (* times, velocities and articulations that
                              are entered                                  *)
          MaxHits          (* bound on the hits of a document              *)

\* The times a hit may have: the duration may not be known.
InSong == IF Duration > 0 THEN 0..Duration ELSE Nat

ASSUME EditAssumption ==
  /\ MaxVel \in Nat \ {0} /\ MidVel \in 1..MaxVel /\ DefaultVel \in 1..MaxVel
  /\ VelStep \in Nat /\ FineNudge \in Nat /\ CoarseNudge \in Nat
  /\ {DefaultBar, HistoryLimit} \cup Divisions \subseteq Nat \ {0}
  /\ Times \subseteq Int /\ Vels \subseteq Int /\ Sounds \subseteq Arts
  /\ \A g \in Grids : IsGrid(g, Divisions)
  /\ \A H \in Documents :
       /\ IsFiniteSet(H) /\ H \subseteq [id : Int, art : Arts, t : InSong, vel : 1..MaxVel]
       /\ \A g, h \in H : g.id = h.id => g = h

VARIABLES
  ed,       (* EditorState                                                 *)
  grid,     (* the beat grid of the job                                    *)
  drag,     (* the drag of a pointer, or a press on the velocity slider    *)
  watched,  (* baseline of the autosave effect, with the hits it handed on *)
  edits     (* bound: how many more changes; then only a drag may end      *)

editVars == <<ed, grid, drag, watched, edits>>

-----------------------------------------------------------------------------
(* The reducer                                                             *)

Clamped(t) == Larger(0, IF Duration > 0 THEN Smaller(t, Duration) ELSE t)
ClampedVel(v) == Larger(1, Smaller(v, MaxVel))

NoGesture == [on |-> FALSE, touched |-> FALSE, hits |-> {}, changes |-> 0, past |-> <<>>, future |-> <<>>]

Ids(H) == {h.id : h \in H}
Hit(H, id) == CHOOSE h \in H : h.id = id
Selected(e) == {h \in e.hits : h.id \in ToSet(e.selection)}

\* nextManualId
NextId(H, floor) ==
  CHOOSE n \in {floor} \cup {h.id + 1 : h \in H} :
    n >= floor /\ \A h \in H : h.id < n

Loaded(e, H) ==
  [e EXCEPT !.hits = H, !.selection = <<>>, !.past = <<>>, !.future = <<>>,
            !.nextId = NextId(H, e.nextId), !.gesture = NoGesture, !.changes = @ + 1]

\* pushPast
Pushed(past, H) == LET all == Append(past, H) IN
  SubSeq(all, Len(all) - Smaller(Len(all), HistoryLimit) + 1, Len(all))

\* Mutant of Committed: each change of a drag is a step of the history.
CommittedEach(e, H) ==
  [e EXCEPT !.hits = H, !.changes = @ + 1, !.past = Pushed(@, e.hits), !.future = <<>>]

\* commit: the first change of a gesture is its one step of the history.
Committed(e, H) ==
  [e EXCEPT !.hits = H, !.changes = @ + 1,
            !.past = IF e.gesture.on /\ e.gesture.touched THEN @ ELSE Pushed(@, e.hits),
            !.future = <<>>, !.gesture.touched = e.gesture.on]

\* commitIfChanged
Mapped(e, F(_)) ==
  LET H == {F(h) : h \in e.hits} IN IF H = e.hits THEN e ELSE Committed(e, H)

\* The same of the selected hits.
MappedSelected(e, F(_)) ==
  Mapped(e, LAMBDA h : IF h.id \in ToSet(e.selection) THEN F(h) ELSE h)

Added(e, art, t) ==
  LET hit == [id |-> e.nextId, art |-> art, t |-> Clamped(t), vel |-> e.lastVel] IN
  [Committed(e, e.hits \cup {hit}) EXCEPT !.selection = <<e.nextId>>, !.nextId = @ + 1]

\* The elements of a sequence that are in S, in its order.
Kept(s, S) ==
  LET at == {i \in DOMAIN s : s[i] \in S} IN
  [k \in 1..Cardinality(at) |-> s[CHOOSE i \in at : Cardinality({j \in at : j < i}) = k - 1]]

Without(ids, drop) == Kept(ids, ToSet(ids) \ drop)

\* Mutant of Removed: what is removed stays selected.
RemovedOnly(e, ids) ==
  IF Ids(e.hits) \cap ids = {} THEN e ELSE Committed(e, {h \in e.hits : h.id \notin ids})

\* erase and delete
Removed(e, ids) ==
  IF Ids(e.hits) \cap ids = {} THEN e
  ELSE [Committed(e, {h \in e.hits : h.id \notin ids}) EXCEPT !.selection = Without(@, ids)]

\* select: the last of ids becomes the primary hit.
SelectIds(e, ids, mode) ==
  LET given == Kept(ids, Ids(e.hits))
      old == Without(e.selection, ToSet(given))
      new == Without(given, ToSet(e.selection)) IN
  [e EXCEPT !.selection = CASE mode = "replace" -> given
                            [] mode = "add" -> old \o given
                            [] mode = "toggle" -> old \o new]

\* The ids of hits in the order of time.
InOrder(H) ==
  LET sooner(g, h) == g.t < h.t \/ (g.t = h.t /\ g.id < h.id) IN
  [i \in 1..Cardinality(H) |->
     (CHOOSE h \in H : Cardinality({g \in H : sooner(g, h)}) = i - 1).id]

SelectRange(e, from, to, arts) ==
  [e EXCEPT !.selection =
     InOrder({h \in e.hits : h.art \in arts /\ Smaller(from, to) <= h.t /\ h.t <= Larger(from, to)})]

Begun(e) ==
  IF e.gesture.on THEN e
  ELSE [e EXCEPT !.gesture = [on |-> TRUE, touched |-> FALSE, hits |-> e.hits, changes |-> e.changes,
                              past |-> e.past, future |-> e.future]]

\* Mutant of Ended: the count of changes is taken back whatever was dragged.
EndedBack(e) == [e EXCEPT !.gesture = NoGesture, !.changes = IF e.gesture.on THEN e.gesture.changes ELSE @]

\* gestureEnd: a drag back to where it began was no change.
Ended(e) ==
  LET g == e.gesture IN
  IF ~g.on THEN e
  ELSE IF g.touched /\ g.hits = e.hits
  THEN [e EXCEPT !.gesture = NoGesture, !.past = g.past, !.future = g.future, !.changes = g.changes]
  ELSE [e EXCEPT !.gesture = NoGesture]

\* moveTo: from the places of the drag's base; art when one hit is dragged.
MovedTo(e, base, dt, art) ==
  Mapped(e, LAMBDA h :
    IF h.id \in Ids(base)
    THEN [h EXCEPT !.t = Clamped(Hit(base, h.id).t + dt),
                   !.art = IF art = {} THEN Hit(base, h.id).art ELSE CHOOSE a \in art : TRUE]
    ELSE h)

WithArt(e, art) == MappedSelected(e, LAMBDA h : [h EXCEPT !.art = art])
WithVel(e, v) ==
  [MappedSelected(e, LAMBDA h : [h EXCEPT !.vel = ClampedVel(v)]) EXCEPT !.lastVel = ClampedVel(v)]
VelAdd(e, delta) == MappedSelected(e, LAMBDA h : [h EXCEPT !.vel = ClampedVel(@ + delta)])
Compressed(e) ==
  MappedSelected(e, LAMBDA h : [h EXCEPT !.vel = ClampedVel(Rounded(2 * MidVel + @ - MidVel, 2))])

\* velDraw
VelDrawn(e, ids, v) ==
  Mapped(e, LAMBDA h : IF h.id \in ids THEN [h EXCEPT !.vel = ClampedVel(v)] ELSE h)

Nudged(e, dt) == MappedSelected(e, LAMBDA h : [h EXCEPT !.t = Clamped(@ + dt)])

\* setTime: the primary hit to t, the others as far.
WithTime(e, t) ==
  LET p == Hit(e.hits, Last(e.selection)) IN
  IF e.selection = <<>> THEN e ELSE Nudged(e, Clamped(t) - p.t)

\* quantize, with the strength as a half or whole.
Quantized(e, n, strength) ==
  MappedSelected(e, LAMBDA h :
    [h EXCEPT !.t = Clamped(@ + ((Snap(grid, @, n) - @) * strength) \div 2)])

\* copy: items in the order of time.
Copied(e) ==
  LET order == InOrder(Selected(e))
      item(id) == LET h == Hit(e.hits, id) IN
                  [art |-> h.art, vel |-> h.vel, dt |-> h.t - Hit(e.hits, order[1]).t] IN
  IF order = <<>> THEN e ELSE [e EXCEPT !.clip = [i \in DOMAIN order |-> item(order[i])]]

\* paste; duplicate puts in what copy would have taken.
Inserted(e, items, t) ==
  LET new == {[id |-> e.nextId + i - 1, art |-> items[i].art, t |-> Clamped(t + items[i].dt),
               vel |-> items[i].vel] : i \in DOMAIN items} IN
  IF items = <<>> THEN e
  ELSE [Committed(e, e.hits \cup new) EXCEPT !.selection = [i \in DOMAIN items |-> e.nextId + i - 1],
                                            !.nextId = @ + Len(items)]

\* undo and redo, not inside a gesture: keepKnown of the selection.
Shown(e, H) ==
  [e EXCEPT !.hits = H, !.selection = Kept(@, Ids(H)), !.changes = @ + 1]

\* Mutant of Undone: the ids that are taken back are given again.
UndoneAfresh(e) ==
  IF e.gesture.on \/ e.past = <<>> THEN e
  ELSE [Shown(e, Last(e.past)) EXCEPT !.past = Front(@), !.future = <<e.hits>> \o @,
                                      !.nextId = NextId(Last(e.past), 1)]
Undone(e) ==
  IF e.gesture.on \/ e.past = <<>> THEN e
  ELSE [Shown(e, Last(e.past)) EXCEPT !.past = Front(@), !.future = <<e.hits>> \o @]
Redone(e) ==
  IF e.gesture.on \/ e.future = <<>> THEN e
  ELSE [Shown(e, Head(e.future)) EXCEPT !.past = Pushed(@, e.hits), !.future = Tail(@)]

-----------------------------------------------------------------------------
(* The page                                                                *)

NoDrag == [kind |-> "none", base |-> {}]

\* The effect that hands changes to the autosave, not inside a gesture.
Watching(w, e) ==
  IF e.changes = w.changes \/ e.gesture.on THEN w ELSE [changes |-> e.changes, hits |-> e.hits]

\* The editor goes on as e.
Becomes(e) ==
  /\ ed' = e
  /\ edits' = IF e.hits = ed.hits THEN edits ELSE edits - 1
  /\ edits' >= 0 /\ Cardinality(e.hits) <= MaxHits
  /\ watched' = Watching(watched, e)
  /\ UNCHANGED grid

Do(e) == e # ed /\ Becomes(e) /\ UNCHANGED drag

\* handleKey, when no field of the inspector has the focus, and the buttons of
\* the toolbar, when nothing is dragged: they are disabled when they would do
\* nothing.
Keys == edits > 0 /\ drag.kind # "slider"
Buttons == edits > 0 /\ drag.kind = "none"

SnapTime(t, on, n) == IF on /\ HasGrid(grid) THEN Snap(grid, t, n) ELSE t
GridStep(t, n, dir) == IF HasGrid(grid) THEN Step(grid, t, n, dir) ELSE t + dir * CoarseNudge

Undo == Keys /\ Do(Undone(ed))
Redo == Keys /\ Do(Redone(ed))
DeleteSelection == Keys /\ Do(Removed(ed, ToSet(ed.selection)))
Copy == Keys /\ Do(Copied(ed))

\* paste at the playhead pos
Paste(pos, snap, n) == Keys /\ Do(Inserted(ed, ed.clip, SnapTime(pos, snap, n)))

\* duplicate: behind the selection, by whole bars of the bar it begins in.
Duplicate ==
  LET items == Copied(ed).clip
      order == InOrder(Selected(ed))
      first == Hit(ed.hits, order[1]).t
      length == Hit(ed.hits, Last(order)).t - first
      b == BarAt(grid, Beat(grid, first) \div BeatUnits)
      bar == IF HasGrid(grid)
             THEN Seconds(grid, BeatUnits * (b.startBeat + b.numerator))
                    - Seconds(grid, BeatUnits * b.startBeat)
             ELSE DefaultBar IN
  /\ Keys /\ ed.selection # <<>>
  /\ Do(Inserted(ed, items, first + (length \div bar + 1) * bar))

QuantizeSelection(n, strength) == Keys /\ HasGrid(grid) /\ Do(Quantized(ed, n, strength))

\* nudgeSel: a fine one, or a grid line as seen from the primary hit.
NudgeFine(dir) == Keys /\ Do(Nudged(ed, dir * FineNudge))
NudgeGrid(dir, n) ==
  /\ Keys /\ ed.selection # <<>>
  /\ LET t == Hit(ed.hits, Last(ed.selection)).t IN Do(Nudged(ed, GridStep(t, n, dir) - t))

SelectAllInView(i) ==
  Keys /\ Do(SelectRange(ed, view.t0, view.t0 + view.span, ToSet(Groups[i])))

\* VELOCITY buttons and the fields of the inspector.
ChangeVel(delta) == Buttons /\ Do(VelAdd(ed, delta))
Compress == Buttons /\ Do(Compressed(ed))
SetArt(art) == Buttons /\ Do(WithArt(ed, art))
SetTime(t) == Buttons /\ t >= 0 /\ Do(WithTime(ed, t))

\* addAt: the draw tool, or a double click, on an empty place.
AddHit(art, t, snap, n) == Buttons /\ Do(Added(ed, art, SnapTime(t, snap, n)))

\* A marquee selects what is drawn in it; Shift keeps the selection.
Marquee(from, to, arts, shift) ==
  LET inside == SelectRange(ed, from, to, arts).selection
      keep == IF shift THEN ed.selection ELSE <<>> IN
  Buttons /\ Do(SelectIds(ed, Without(keep, ToSet(inside)) \o inside, "replace"))

\* onDown on a hit: the selection, and what a move of the pointer will drag.
GrabHit(id, shift) ==
  LET selected == id \in ToSet(ed.selection)
      mode == IF shift THEN "toggle" ELSE IF selected THEN "add" ELSE "replace"
      e == SelectIds(ed, <<id>>, mode) IN
  /\ Buttons
  /\ Becomes(e)
  /\ drag' = IF shift /\ selected THEN NoDrag ELSE [kind |-> "press", base |-> Selected(e)]

\* onMove: the first move begins the gesture.  A single hit is dragged to
\* other rows too.
DragTo(dt, art, snap, n, lead) ==
  LET by == IF snap /\ HasGrid(grid) THEN Snap(grid, lead.t + dt, n) - lead.t ELSE dt IN
  /\ drag.kind \in {"press", "move"} /\ lead \in drag.base
  /\ art # {} => Cardinality(drag.base) = 1
  /\ Becomes(MovedTo(IF drag.kind = "press" THEN Begun(ed) ELSE ed, drag.base, by, art))
  /\ drag' = [drag EXCEPT !.kind = "move"]

\* The erase tool: pressed anywhere, then over hits.
EraseDown(ids) ==
  /\ Buttons
  /\ Becomes(Removed(Begun(ed), ids))
  /\ drag' = [NoDrag EXCEPT !.kind = "erase"]
EraseOver(id) == drag.kind = "erase" /\ Do(Removed(ed, {id}))

\* The velocity lane: hits of one group near the pointer take its height.
Near(t, i) == {h.id : h \in {h \in ed.hits : h.t = t /\ h.art \in ToSet(Groups[i])}}
VelDown(t, i, v) ==
  /\ Buttons
  /\ Becomes(VelDrawn(Begun(ed), Near(t, i), v))
  /\ drag' = [NoDrag EXCEPT !.kind = "velocity"]
VelOver(t, i, v) == drag.kind = "velocity" /\ Do(VelDrawn(ed, Near(t, i), v))

\* The slider of the inspector: pressed with the pointer or a key.
SliderDown ==
  /\ Buttons /\ ed.selection # <<>>
  /\ Becomes(Begun(ed))
  /\ drag' = [NoDrag EXCEPT !.kind = "slider"]
SliderTo(v) == drag.kind = "slider" /\ Do(WithVel(ed, v))

\* onUp, also of a cancelled pointer.
Release ==
  /\ drag.kind # "none"
  /\ Becomes(IF drag.kind = "press" THEN ed ELSE Ended(ed))
  /\ drag' = NoDrag

\* A reload has been answered: the page shows the editor afresh.
Reload(H) ==
  LET e == Loaded(ed, H) IN
  /\ edits > 0
  /\ ed' = e /\ edits' = edits - 1
  /\ watched' = [changes |-> e.changes, hits |-> H]
  /\ drag' = NoDrag
  /\ UNCHANGED grid

EditInit(n, g, H) ==
  /\ ed = [hits |-> H, selection |-> <<>>, past |-> <<>>, future |-> <<>>, clip |-> <<>>,
           lastVel |-> DefaultVel, nextId |-> NextId(H, 1), gesture |-> NoGesture, changes |-> 0]
  /\ watched = [changes |-> 0, hits |-> H]
  /\ grid = g /\ drag = NoDrag /\ edits = n

GroupArts == {ToSet(Groups[i]) : i \in DOMAIN Groups}

Operate ==
  \/ Undo \/ Redo \/ DeleteSelection \/ Copy \/ Duplicate \/ Compress \/ Release \/ SliderDown
  \/ \E dir \in {-1, 1} : NudgeFine(dir) \/ ChangeVel(dir * VelStep)
  \/ \E i \in DOMAIN Groups : SelectAllInView(i)
  \/ \E art \in Sounds : SetArt(art)
  \/ \E n \in Divisions : \/ \E dir \in {-1, 1} : NudgeGrid(dir, n)
                          \/ \E strength \in {1, 2} : QuantizeSelection(n, strength)
                          \/ \E t \in Times, snap \in BOOLEAN :
                               Paste(t, snap, n) \/ \E art \in Sounds : AddHit(art, t, snap, n)

Point ==
  \/ \E id \in Ids(ed.hits) : EraseOver(id) \/ \E shift \in BOOLEAN : GrabHit(id, shift)
  \/ \E ids \in {{}} \cup {{id} : id \in Ids(ed.hits)} : EraseDown(ids)
  \/ \E t \in Times :
       \/ SetTime(t)
       \/ \E u \in Times, A \in GroupArts, shift \in BOOLEAN : Marquee(t, u, A, shift)
       \/ \E v \in Vels, i \in DOMAIN Groups : VelDown(t, i, v) \/ VelOver(t, i, v)
  \/ \E v \in Vels : SliderTo(v)
  \/ \E lead \in drag.base, t \in Times, snap \in BOOLEAN, n \in Divisions :
       \E art \in {{}} \cup {{a} : a \in Sounds} : DragTo(t - lead.t, art, snap, n, lead)

EditNext == Operate \/ Point \/ \E H \in Documents : Reload(H)

-----------------------------------------------------------------------------
(* What the edit model promises *)

EditTypeOK ==
  /\ \A h \in ed.hits : h.art \in Arts /\ h.t \in InSong /\ h.vel \in 1..MaxVel
  /\ Cardinality(Ids(ed.hits)) = Cardinality(ed.hits)
  /\ ToSet(ed.selection) \subseteq Ids(ed.hits)
  /\ Len(ed.selection) = Cardinality(ToSet(ed.selection))
  /\ Len(ed.past) + Len(ed.future) <= HistoryLimit
  /\ ed.gesture.on <=> drag.kind \in {"move", "erase", "velocity", "slider"}

\* The id of a hit names that hit for the session, through undo, redo and
\* reloads: a new one gets an id that no document of the history has.
IdsAreNew ==
  \A H \in {ed.hits} \cup ToSet(ed.past) \cup ToSet(ed.future) : \A id \in Ids(H) : id < ed.nextId

\* Outside a gesture the autosave has what the page shows, although a gesture
\* may take its count of changes back.
SavedAsShown == ~ed.gesture.on => watched.hits = ed.hits

\* The history as the user sees it; a gesture is there when it has ended.
HistoryDocs ==
  LET g == ed.gesture IN
  IF g.on THEN Append(g.past, g.hits) \o g.future ELSE Append(ed.past, ed.hits) \o ed.future
HistoryAt == 1 + Len(IF ed.gesture.on THEN ed.gesture.past ELSE ed.past)

History == INSTANCE EditHistory WITH Limit <- HistoryLimit, Loadable <- Documents,
                                   docs <- HistoryDocs, at <- HistoryAt

\* Every operation, drag and reload, in whatever order, is an edit, an undo, a
\* redo or nothing to the history: one drag is one step, no step is empty.
HistoryIsKept == History!HistorySpec

\* Hits, selection and ids stay consistent through every operation, and the
\* autosave has what the page shows.
EditInv == EditTypeOK /\ IdsAreNew /\ SavedAsShown
=============================================================================
