--------------------------- MODULE Editing_proofs ---------------------------
(***************************************************************************)
(* Proofs about the drum editor.  The session of the tab (Editor): its     *)
(* undo and redo implement the abstract history (EditHistory) through      *)
(* every operation, drag and reload, ids are never given twice, the hits   *)
(* and the selection keep their types, the view stays in the song, clicks, *)
(* lines and bars mean what is drawn, and the kit sounds each hit of the   *)
(* edited document once, in time.  The document in several tabs            *)
(* (DrumTabs): no save overwrites edits it has not seen, "autosaved" is    *)
(* true, and an archive has the edits it was asked for with.               *)
(***************************************************************************)
EXTENDS Editing, FiniteSetTheorems, SequenceTheorems, NaturalsInduction, WellFoundedInduction, TLAPS

USE DEF editVars, editorVars

-----------------------------------------------------------------------------
(* The inductive invariant *)

Fields == {"hits", "selection", "past", "future", "clip", "lastVel", "nextId", "gesture", "changes"}
HitFields == {"id", "art", "t", "vel"}
GestureFields == {"on", "touched", "hits", "changes", "past", "future"}

Plain(s) == s \in Seq(ToSet(s))
Doc(H, n) == IsFiniteSet(H) /\ \A h \in H : DOMAIN h = HitFields /\ h.id \in Int /\ h.id < n
Trail(s, n) == Plain(s) /\ \A i \in DOMAIN s : Doc(s[i], n)

\* While a gesture is on: the history is that of before, with at most one step more.
InGesture(e, g) ==
  /\ Doc(g.hits, e.nextId) /\ Trail(g.past, e.nextId) /\ Trail(g.future, e.nextId)
  /\ Len(g.past) + Len(g.future) <= HistoryLimit /\ g.changes \in Nat
  /\ g.touched => e.past = Pushed(g.past, g.hits) /\ e.future = <<>> /\ e.changes > g.changes
  /\ ~g.touched => e.hits = g.hits /\ e.past = g.past /\ e.future = g.future /\ e.changes = g.changes

EdInv(e) ==
  /\ DOMAIN e = Fields /\ e.nextId \in Int /\ e.changes \in Nat /\ Plain(e.clip)
  /\ Doc(e.hits, e.nextId) /\ Trail(e.past, e.nextId) /\ Trail(e.future, e.nextId)
  /\ Len(e.past) + Len(e.future) <= HistoryLimit
  /\ DOMAIN e.gesture = GestureFields /\ e.gesture.on \in BOOLEAN /\ e.gesture.touched \in BOOLEAN
  /\ e.gesture.on => InGesture(e, e.gesture)

\* What the autosave is to have of e.
Seen(e) == IF e.gesture.on THEN [changes |-> e.gesture.changes, hits |-> e.gesture.hits]
           ELSE [changes |-> e.changes, hits |-> e.hits]

\* The editor, and what the autosave has seen of it.
EditIInv == EdInv(ed) /\ watched = Seen(ed)

-----------------------------------------------------------------------------
(* Records and sequences *)

LEMMA PlainOf ==
  ASSUME NEW S, NEW s \in Seq(S)
  PROVE  Plain(s) /\ Len(s) \in Nat /\ DOMAIN s = 1..Len(s)
<1>1. Len(s) \in Nat /\ s \in [1..Len(s) -> S] /\ DOMAIN s = 1..Len(s)
  BY LenProperties
<1>2. s \in [1..Len(s) -> ToSet(s)]
  BY <1>1 DEF ToSet
<1>3. s \in Seq(ToSet(s))
  BY <1>1, <1>2
<1> QED BY <1>1, <1>3 DEF Plain

LEMMA PlainAppend ==
  ASSUME NEW s, Plain(s), NEW x
  PROVE  /\ Plain(Append(s, x)) /\ Len(s) \in Nat /\ DOMAIN s = 1..Len(s)
         /\ Len(Append(s, x)) = Len(s) + 1 /\ Append(s, x)[Len(s) + 1] = x
         /\ \A i \in 1..Len(s) : Append(s, x)[i] = s[i]
<1> DEFINE S == ToSet(s) \cup {x}
<1>1. s \in Seq(S) /\ x \in S
  BY SeqMonotonic DEF Plain
<1>2. /\ Append(s, x) \in Seq(S) /\ Len(Append(s, x)) = Len(s) + 1
      /\ \A i \in 1..Len(s) : Append(s, x)[i] = s[i]
      /\ Append(s, x)[Len(s) + 1] = x
  BY <1>1, AppendProperties
<1>3. Len(s) \in Nat /\ DOMAIN s = 1..Len(s)
  BY <1>1, LenProperties
<1>4. Plain(Append(s, x))
  BY <1>2, PlainOf, Zenon
<1> QED BY <1>2, <1>3, <1>4

LEMMA PushedIs ==
  ASSUME NEW s, Plain(s), NEW x
  PROVE  /\ Plain(Pushed(s, x)) /\ Len(Pushed(s, x)) = Smaller(Len(s) + 1, HistoryLimit)
         /\ Pushed(s, x) = SubSeq(Append(s, x), Len(s) + 2 - Smaller(Len(s) + 1, HistoryLimit), Len(s) + 1)
         /\ \A i \in DOMAIN Pushed(s, x) : Pushed(s, x)[i] \in ToSet(s) \cup {x}
         /\ Len(s) < HistoryLimit => Pushed(s, x) = Append(s, x)
<1> DEFINE S == ToSet(s) \cup {x}
           all == Append(s, x)
           k == Smaller(Len(s) + 1, HistoryLimit)
<1>1. /\ all \in Seq(S) /\ Len(s) \in Nat /\ Len(all) = Len(s) + 1
  <2>1. s \in Seq(S) /\ x \in S
    BY SeqMonotonic DEF Plain
  <2> QED BY <2>1, AppendProperties, LenProperties
<1>2. k \in 1..Len(all) /\ k <= HistoryLimit /\ (Len(s) < HistoryLimit => k = Len(all))
  BY <1>1, EditAssumption DEF Smaller
<1>3. Pushed(s, x) = SubSeq(all, Len(s) + 2 - k, Len(s) + 1)
  <2>1. Pushed(s, x) = SubSeq(all, Len(all) - Smaller(Len(all), HistoryLimit) + 1, Len(all))
    BY DEF Pushed
  <2> HIDE DEF all
  <2>2. Len(all) - k + 1 = Len(s) + 2 - k
    BY <1>1, <1>2
  <2> QED BY <1>1, <2>1, <2>2, Zenon
<1> HIDE DEF all, k, S
<1>4. \A i \in (Len(s) + 2 - k)..(Len(s) + 1) : all[i] \in S
  BY <1>1, <1>2, ElementOfSeq
<1>5. /\ SubSeq(all, Len(s) + 2 - k, Len(s) + 1) \in Seq(S)
      /\ Len(SubSeq(all, Len(s) + 2 - k, Len(s) + 1)) = k
  BY <1>1, <1>2, <1>4, SubSeqProperties
<1>6. Plain(Pushed(s, x)) /\ \A i \in DOMAIN Pushed(s, x) : Pushed(s, x)[i] \in S
  BY <1>3, <1>5, PlainOf, ElementOfSeq, LenProperties, Zenon
<1>7. Len(s) < HistoryLimit => Pushed(s, x) = all
  BY <1>1, <1>2, <1>3, SubSeqFull
<1> QED BY <1>3, <1>5, <1>6, <1>7, Zenon DEF all, k, S

\* The documents before, the present one and those undone, in a row.
Row(before, now, after) == Append(before, now) \o after

LEMMA RowIs ==
  ASSUME NEW p, Plain(p), NEW q, Plain(q), NEW x
  PROVE  /\ Plain(Row(p, x, q)) /\ Len(Row(p, x, q)) = Len(p) + 1 + Len(q) /\ Row(p, x, q)[Len(p) + 1] = x
         /\ \A i \in 1..Len(p) : Row(p, x, q)[i] = p[i]
         /\ \A i \in 1..Len(q) : Row(p, x, q)[Len(p) + 1 + i] = q[i]
         /\ \A m \in 1..Len(p) + 1 : SubSeq(Row(p, x, q), m, Len(p) + 1) = SubSeq(Append(p, x), m, Len(p) + 1)
<1> DEFINE S == ToSet(p) \cup {x} \cup ToSet(q)
           a == Append(p, x)
<1>1. p \in Seq(S) /\ q \in Seq(S) /\ x \in S
  BY SeqMonotonic DEF Plain
<1>2. /\ a \in Seq(S) /\ Len(p) \in Nat /\ Len(q) \in Nat /\ Len(a) = Len(p) + 1 /\ a[Len(p) + 1] = x
      /\ \A i \in 1..Len(p) : a[i] = p[i]
  BY <1>1, AppendProperties, LenProperties
<1> HIDE DEF a, S
<1>3. /\ a \o q \in Seq(S) /\ Len(a \o q) = Len(a) + Len(q)
      /\ \A i \in 1..Len(a) + Len(q) : (a \o q)[i] = IF i <= Len(a) THEN a[i] ELSE q[i - Len(a)]
  BY <1>1, <1>2, ConcatProperties, Zenon
<1>4. Row(p, x, q) = a \o q
  BY DEF Row, a
<1>5. Plain(a \o q)
  BY <1>3, PlainOf, Zenon
<1>6. (a \o q)[Len(p) + 1] = x /\ \A i \in 1..Len(p) : (a \o q)[i] = p[i]
  BY <1>2, <1>3
<1>7. \A i \in 1..Len(q) : (a \o q)[Len(p) + 1 + i] = q[i]
  BY <1>2, <1>3
<1>8. ASSUME NEW m \in 1..Len(p) + 1  PROVE SubSeq(a \o q, m, Len(p) + 1) = SubSeq(a, m, Len(p) + 1)
  <2>1. PICK n : n = Len(p) + 1
    OBVIOUS
  <2>2. m \in 1..Len(a) /\ n \in 1..Len(a) /\ a \in Seq(S) /\ q \in Seq(S)
    BY <1>1, <1>2, <2>1
  <2>3. SubSeq(a \o q, m, n) = SubSeq(a, m, n)
    BY <2>2, SubSeqOfConcat1
  <2> QED BY <2>1, <2>3, Zenon
<1> QED BY <1>2, <1>3, <1>4, <1>5, <1>6, <1>7, <1>8, Zenon DEF a

\* The history goes one step, or none.
HistoryGoes(d, at, c, to) ==
  \/ c = d /\ to = at
  \/ c \in {<<H>> : H \in Documents} /\ to = 1
  \/ /\ c = Append(SubSeq(d, IF at > HistoryLimit THEN at - HistoryLimit + 1 ELSE 1, at), c[Len(c)])
     /\ c[Len(c)] # d[at] /\ to = Len(c)
  \/ at > 1 /\ to = at - 1 /\ c = d
  \/ at < Len(d) /\ to = at + 1 /\ c = d

\* A committed edit is an edit of the history (EditHistory!Edit).
LEMMA CommitIsEdit ==
  ASSUME NEW p, Plain(p), NEW q, Plain(q), NEW x, NEW y, y # x
  PROVE  HistoryGoes(Row(p, x, q), Len(p) + 1, Row(Pushed(p, x), y, <<>>), Len(Pushed(p, x)) + 1)
<1>0. PICK d, c : d = Row(p, x, q) /\ c = Row(Pushed(p, x), y, <<>>)
  OBVIOUS
<1> DEFINE at == Len(p) + 1
           m == IF at > HistoryLimit THEN at - HistoryLimit + 1 ELSE 1
<1>1. Len(p) \in Nat
  BY PlainOf DEF Plain
<1>2. m \in 1..at /\ m = Len(p) + 2 - Smaller(Len(p) + 1, HistoryLimit)
  <2>1. PICK l \in Nat : l = Len(p)
    BY <1>1
  <2>2. PICK k \in Nat \ {0} : k = HistoryLimit
    BY EditAssumption
  <2>3. CASE l + 1 > k
    <3>1. m = l + 1 - k + 1 /\ Smaller(l + 1, k) = k
      BY <2>1, <2>2, <2>3 DEF Smaller
    <3> QED BY <2>1, <2>2, <2>3, <3>1
  <2>4. CASE ~(l + 1 > k)
    <3>1. m = 1 /\ Smaller(l + 1, k) = l + 1
      BY <2>1, <2>2, <2>4 DEF Smaller
    <3> QED BY <2>1, <2>2, <2>4, <3>1
  <2> QED BY <2>3, <2>4
<1> HIDE DEF m
<1>3. SubSeq(d, m, at) = SubSeq(Append(p, x), m, at)
  BY <1>0, <1>2, RowIs, SMTT(60)
<1>4. SubSeq(Append(p, x), m, at) = Pushed(p, x) /\ Plain(Pushed(p, x))
  BY <1>2, PushedIs, Zenon
<1>5. c = Append(Pushed(p, x), y)
  <2>1. Pushed(p, x) \in Seq(ToSet(Pushed(p, x)) \cup {y})
    BY <1>4, SeqMonotonic DEF Plain
  <2>2. Append(Pushed(p, x), y) \in Seq(ToSet(Pushed(p, x)) \cup {y})
    BY <2>1, AppendProperties
  <2> QED BY <1>0, <2>2, ConcatEmptySeq DEF Row
<1>6. Len(c) = Len(Pushed(p, x)) + 1 /\ c[Len(c)] = y
  BY <1>4, <1>5, PlainAppend
<1>7. d[at] = x
  BY <1>0, RowIs
<1> QED BY <1>0, <1>3, <1>4, <1>5, <1>6, <1>7, Zenon DEF m, HistoryGoes

-----------------------------------------------------------------------------
(* What an operation does to the record of the editor *)

\* The history and its place, of any editor e.
DocsOf(e) == Row(IF e.gesture.on THEN e.gesture.past ELSE e.past,
                 IF e.gesture.on THEN e.gesture.hits ELSE e.hits,
                 IF e.gesture.on THEN e.gesture.future ELSE e.future)
PlaceOf(e) == 1 + Len(IF e.gesture.on THEN e.gesture.past ELSE e.past)

\* What e becomes when its hits are as f has them, by one commit.
Commits(e, f) ==
  /\ DOMAIN f = Fields /\ f.hits # e.hits /\ f.changes = e.changes + 1 /\ f.future = <<>> /\ f.clip = e.clip
  /\ f.past = IF e.gesture.on /\ e.gesture.touched THEN e.past ELSE Pushed(e.past, e.hits)
  /\ f.gesture = [e.gesture EXCEPT !.touched = e.gesture.on]
  /\ f.nextId \in Int /\ f.nextId >= e.nextId /\ Doc(f.hits, f.nextId)

\* It keeps its documents, whatever becomes of selection, clipboard and velocity.
Keeps(e, f) ==
  /\ DOMAIN f = Fields /\ f.hits = e.hits /\ f.changes = e.changes /\ f.past = e.past /\ f.future = e.future
  /\ f.gesture = e.gesture /\ f.nextId = e.nextId /\ Plain(f.clip)

Does(e, f) == Keeps(e, f) \/ Commits(e, f)

\* What is to be shown of every operation that turns e into f.
Goes(e, f) ==
  /\ EdInv(f) /\ HistoryGoes(DocsOf(e), PlaceOf(e), DocsOf(f), PlaceOf(f))
  /\ Watching(Seen(e), f) = Seen(f)

LEMMA DocGrows ==
  ASSUME NEW H, NEW m \in Int, NEW n \in Int, m <= n, Doc(H, m)
  PROVE  Doc(H, n)
BY DEF Doc

LEMMA TrailGrows ==
  ASSUME NEW s, NEW m \in Int, NEW n \in Int, m <= n, Trail(s, m)
  PROVE  Trail(s, n)
BY DocGrows DEF Trail

LEMMA EmptyTrail == ASSUME NEW n  PROVE Trail(<<>>, n) /\ Plain(<<>>) /\ Len(<<>>) = 0
<1>1. <<>> \in Seq(ToSet(<<>>)) /\ Len(<<>>) = 0
  BY EmptySeq
<1> QED BY <1>1 DEF Trail, Plain

LEMMA PushedTrail ==
  ASSUME NEW s, NEW n, NEW x, Trail(s, n), Doc(x, n)
  PROVE  Trail(Pushed(s, x), n) /\ Len(Pushed(s, x)) \in Nat /\ Len(Pushed(s, x)) <= HistoryLimit
<1>1. /\ Plain(Pushed(s, x)) /\ Len(Pushed(s, x)) = Smaller(Len(s) + 1, HistoryLimit)
      /\ \A i \in DOMAIN Pushed(s, x) : Pushed(s, x)[i] \in ToSet(s) \cup {x}
  BY PushedIs DEF Trail
<1>2. \A y \in ToSet(s) \cup {x} : Doc(y, n)
  BY DEF Trail, ToSet
<1>3. Len(s) \in Nat
  BY PlainOf DEF Trail, Plain
<1> QED BY <1>1, <1>2, <1>3, EditAssumption DEF Trail, Smaller

LEMMA KeepsGoes ==
  ASSUME NEW e, EdInv(e), NEW f, Keeps(e, f)
  PROVE  Goes(e, f)
<1>1. EdInv(f)
  BY Zenon DEF EdInv, Keeps, InGesture
<1>2. DocsOf(f) = DocsOf(e) /\ PlaceOf(f) = PlaceOf(e) /\ Seen(f) = Seen(e)
  BY DEF DocsOf, PlaceOf, Seen, Keeps
<1>3. Watching(Seen(e), f) = Seen(f)
  BY <1>2 DEF Watching, Seen
<1> QED BY <1>1, <1>2, <1>3 DEF Goes, HistoryGoes

\* A commit in a gesture changes nothing that is seen of it; one of its own is
\* an edit of the history.
LEMMA CommitsGoes ==
  ASSUME NEW e, EdInv(e), NEW f, Commits(e, f)
  PROVE  Goes(e, f)
<1>1. /\ Trail(e.past, f.nextId) /\ Trail(e.future, f.nextId) /\ Doc(e.hits, f.nextId)
      /\ Doc(f.hits, f.nextId) /\ Trail(f.future, f.nextId) /\ Len(f.future) = 0
  <2>1. e.nextId \in Int /\ f.nextId \in Int /\ e.nextId <= f.nextId /\ f.future = <<>> /\ Doc(f.hits, f.nextId)
        /\ Trail(e.past, e.nextId) /\ Trail(e.future, e.nextId) /\ Doc(e.hits, e.nextId)
    BY DEF EdInv, Commits
  <2> QED BY <2>1, TrailGrows, DocGrows, EmptyTrail
<1>2. /\ DOMAIN f.gesture = GestureFields /\ f.gesture.on = e.gesture.on /\ f.gesture.touched = e.gesture.on
      /\ f.gesture.hits = e.gesture.hits /\ f.gesture.past = e.gesture.past
      /\ f.gesture.future = e.gesture.future /\ f.gesture.changes = e.gesture.changes
      /\ e.gesture.on \in BOOLEAN /\ e.gesture.touched \in BOOLEAN
  BY DEF Commits, EdInv, GestureFields
<1>3. CASE e.gesture.on
  <2>1. InGesture(e, e.gesture)
    BY <1>3 DEF EdInv
  <2>2. f.past = Pushed(e.gesture.past, e.gesture.hits)
    BY <1>2, <1>3, <2>1 DEF InGesture, Commits
  <2>3. /\ Trail(e.gesture.past, f.nextId) /\ Trail(e.gesture.future, f.nextId) /\ Doc(e.gesture.hits, f.nextId)
    <3>1. e.nextId \in Int /\ f.nextId \in Int /\ e.nextId <= f.nextId
      BY DEF EdInv, Commits
    <3> QED BY <2>1, <3>1, TrailGrows, DocGrows DEF InGesture
  <2>4. Trail(f.past, f.nextId) /\ Len(f.past) \in Nat /\ Len(f.past) <= HistoryLimit
    BY <2>2, <2>3, PushedTrail
  <2>5. f.changes \in Nat /\ e.changes \in Nat /\ e.gesture.changes \in Nat /\ f.changes > e.gesture.changes
    BY <1>2, <2>1 DEF EdInv, Commits, InGesture
  <2>6. InGesture(f, f.gesture)
    BY <1>2, <1>3, <2>1, <2>2, <2>3, <2>5, Zenon DEF InGesture, Commits
  <2>7. EdInv(f)
    BY <1>1, <1>2, <2>4, <2>5, <2>6 DEF EdInv, Commits
  <2>8. DocsOf(f) = DocsOf(e) /\ PlaceOf(f) = PlaceOf(e) /\ Seen(f) = Seen(e)
    BY <1>2, <1>3 DEF DocsOf, PlaceOf, Seen
  <2>9. Watching(Seen(e), f) = Seen(f)
    BY <1>2, <1>3, <2>8 DEF Watching
  <2> QED BY <2>7, <2>8, <2>9 DEF Goes, HistoryGoes
<1>4. CASE ~e.gesture.on
  <2>1. f.past = Pushed(e.past, e.hits)
    BY <1>4 DEF Commits
  <2>2. Trail(f.past, f.nextId) /\ Len(f.past) \in Nat /\ Len(f.past) <= HistoryLimit
    BY <1>1, <2>1, PushedTrail
  <2>3. EdInv(f)
    BY <1>1, <1>2, <1>4, <2>2 DEF EdInv, Commits
  <2>4. DocsOf(e) = Row(e.past, e.hits, e.future) /\ PlaceOf(e) = Len(e.past) + 1
    <3>1. Len(e.past) \in Nat
      BY PlainOf DEF EdInv, Trail, Plain
    <3> QED BY <1>4, <3>1 DEF DocsOf, PlaceOf
  <2>5. DocsOf(f) = Row(Pushed(e.past, e.hits), f.hits, <<>>) /\ PlaceOf(f) = Len(Pushed(e.past, e.hits)) + 1
    BY <1>2, <1>4, <2>1, <2>2 DEF DocsOf, PlaceOf, Commits
  <2>6. HistoryGoes(DocsOf(e), PlaceOf(e), DocsOf(f), PlaceOf(f))
    <3>1. Plain(e.past) /\ Plain(e.future) /\ f.hits # e.hits
      BY DEF EdInv, Trail, Commits
    <3> QED BY <2>4, <2>5, <3>1, CommitIsEdit
  <2>7. Watching(Seen(e), f) = Seen(f)
    <3>1. f.changes = e.changes + 1 /\ e.changes \in Nat
      BY DEF Commits, EdInv
    <3> QED BY <1>2, <1>4, <3>1 DEF Watching, Seen
  <2> QED BY <2>3, <2>6, <2>7 DEF Goes
<1> QED BY <1>3, <1>4

LEMMA DoesGoes ==
  ASSUME NEW e, EdInv(e), NEW f, Does(e, f)
  PROVE  Goes(e, f)
BY KeepsGoes, CommitsGoes DEF Does

LEMMA BegunKeeps ==
  ASSUME NEW e, EdInv(e)
  PROVE  /\ EdInv(Begun(e)) /\ DocsOf(Begun(e)) = DocsOf(e) /\ PlaceOf(Begun(e)) = PlaceOf(e)
         /\ Seen(Begun(e)) = Seen(e) /\ Begun(e).hits = e.hits /\ Goes(e, Begun(e))
<1>1. CASE e.gesture.on
  <2>1. Begun(e) = e
    BY <1>1 DEF Begun
  <2>2. Keeps(e, e)
    BY DEF EdInv, Keeps
  <2> QED BY <2>1, <2>2, KeepsGoes
<1>2. CASE ~e.gesture.on
  <2>1. PICK f : f = Begun(e)
    OBVIOUS
  <2>2. PICK g : g = [on |-> TRUE, touched |-> FALSE, hits |-> e.hits, changes |-> e.changes,
                      past |-> e.past, future |-> e.future]
    BY Zenon
  <2>3. DOMAIN e = Fields /\ f = [e EXCEPT !.gesture = g]
    BY <1>2, <2>1, <2>2 DEF Begun, EdInv
  <2>4. /\ DOMAIN f = Fields /\ f.hits = e.hits /\ f.changes = e.changes /\ f.past = e.past /\ f.future = e.future
        /\ f.nextId = e.nextId /\ f.clip = e.clip /\ f.gesture = g
    BY <2>3 DEF Fields
  <2>5. /\ DOMAIN g = GestureFields /\ g.on /\ ~g.touched /\ g.on \in BOOLEAN /\ g.touched \in BOOLEAN
        /\ g.hits = e.hits /\ g.changes = e.changes /\ g.past = e.past /\ g.future = e.future
    BY <2>2 DEF GestureFields
  <2>6. InGesture(f, g)
    BY <2>4, <2>5, Zenon DEF EdInv, InGesture
  <2>7. EdInv(f)
    BY <2>4, <2>5, <2>6, Zenon DEF EdInv
  <2>8. DocsOf(f) = DocsOf(e) /\ PlaceOf(f) = PlaceOf(e) /\ Seen(f) = Seen(e)
    BY <1>2, <2>4, <2>5 DEF DocsOf, PlaceOf, Seen
  <2>9. Watching(Seen(e), f) = Seen(f)
    BY <2>4, <2>5, <2>8 DEF Watching
  <2> QED BY <2>1, <2>4, <2>7, <2>8, <2>9 DEF Goes, HistoryGoes
<1> QED BY <1>1, <1>2

\* A gesture that ends was one edit or none.
LEMMA EndedGoes ==
  ASSUME NEW e, EdInv(e)
  PROVE  Goes(e, Ended(e))
<1>1. CASE ~e.gesture.on
  <2>1. Ended(e) = e
    BY <1>1 DEF Ended
  <2>2. Keeps(e, e)
    BY DEF EdInv, Keeps
  <2> QED BY <2>1, <2>2, KeepsGoes
<1>2. CASE e.gesture.on
  <2>1. PICK g : g = e.gesture
    OBVIOUS
  <2>2. PICK f : f = Ended(e)
    OBVIOUS
  <2>3. InGesture(e, g) /\ DOMAIN e = Fields /\ g.touched \in BOOLEAN
    BY <1>2, <2>1 DEF EdInv
  <2>4. /\ DOMAIN f = Fields /\ f.hits = e.hits /\ f.nextId = e.nextId /\ f.clip = e.clip /\ f.gesture = NoGesture
        /\ \/ /\ f.hits = g.hits /\ f.past = g.past /\ f.future = g.future /\ f.changes = g.changes
           \/ /\ g.touched /\ f.hits # g.hits /\ f.past = e.past /\ f.future = e.future /\ f.changes = e.changes
    <3>1. CASE g.touched /\ g.hits = e.hits
      <4>1. f = [e EXCEPT !.gesture = NoGesture, !.past = g.past, !.future = g.future, !.changes = g.changes]
        BY <1>2, <2>1, <2>2, <3>1 DEF Ended
      <4> QED BY <2>3, <3>1, <4>1 DEF Fields
    <3>2. CASE ~(g.touched /\ g.hits = e.hits)
      <4>1. f = [e EXCEPT !.gesture = NoGesture]
        BY <1>2, <2>1, <2>2, <3>2 DEF Ended
      <4>2. /\ DOMAIN f = Fields /\ f.hits = e.hits /\ f.nextId = e.nextId /\ f.clip = e.clip
            /\ f.gesture = NoGesture /\ f.past = e.past /\ f.future = e.future /\ f.changes = e.changes
        BY <2>3, <4>1 DEF Fields
      <4> QED BY <2>3, <3>2, <4>2 DEF InGesture
    <3> QED BY <3>1, <3>2
  <2>5. DOMAIN NoGesture = GestureFields /\ ~NoGesture.on /\ NoGesture.on \in BOOLEAN /\ NoGesture.touched \in BOOLEAN
    BY DEF NoGesture, GestureFields
  <2>6. EdInv(f)
    <3>1. f.changes \in Nat /\ Trail(f.past, f.nextId) /\ Trail(f.future, f.nextId)
          /\ Len(f.past) + Len(f.future) <= HistoryLimit
      BY <2>3, <2>4, Zenon DEF EdInv, InGesture
    <3> QED BY <2>4, <2>5, <3>1, Zenon DEF EdInv
  <2>7. DocsOf(e) = Row(g.past, g.hits, g.future) /\ PlaceOf(e) = 1 + Len(g.past)
        /\ DocsOf(f) = Row(f.past, f.hits, f.future) /\ PlaceOf(f) = 1 + Len(f.past)
    BY <1>2, <2>1, <2>4, <2>5 DEF DocsOf, PlaceOf
  <2>8. HistoryGoes(DocsOf(e), PlaceOf(e), DocsOf(f), PlaceOf(f))
    <3>1. CASE f.hits = g.hits /\ f.past = g.past /\ f.future = g.future
      BY <2>7, <3>1 DEF HistoryGoes
    <3>2. CASE g.touched /\ f.hits # g.hits /\ f.past = e.past /\ f.future = e.future
      <4>1. f.past = Pushed(g.past, g.hits) /\ f.future = <<>> /\ Plain(g.past) /\ Plain(g.future)
        BY <2>3, <3>2 DEF InGesture, Trail
      <4>2. Len(g.past) \in Nat /\ Len(Pushed(g.past, g.hits)) \in Nat
        BY <4>1, PushedIs, PlainOf, SMTT(60) DEF Plain
      <4>3. HistoryGoes(Row(g.past, g.hits, g.future), Len(g.past) + 1,
                        Row(Pushed(g.past, g.hits), f.hits, <<>>), Len(Pushed(g.past, g.hits)) + 1)
        BY <3>2, <4>1, CommitIsEdit
      <4>4. PlaceOf(e) = Len(g.past) + 1 /\ PlaceOf(f) = Len(Pushed(g.past, g.hits)) + 1
        BY <2>7, <4>1, <4>2
      <4> QED BY <2>7, <3>2, <4>1, <4>3, <4>4
    <3> QED BY <2>4, <3>1, <3>2
  <2>9. Watching(Seen(e), f) = Seen(f)
    BY <1>2, <2>1, <2>3, <2>4, <2>5 DEF Watching, Seen, InGesture, EdInv
  <2> QED BY <2>2, <2>6, <2>8, <2>9 DEF Goes
<1> QED BY <1>1, <1>2

-----------------------------------------------------------------------------
(* Undo, redo and reloads *)

LEMMA RowParts ==
  \A p, q, x : Plain(p) /\ Plain(q) =>
    /\ Plain(Row(p, x, q)) /\ Len(Row(p, x, q)) = Len(p) + 1 + Len(q) /\ Row(p, x, q)[Len(p) + 1] = x
    /\ \A i \in 1..Len(p) : Row(p, x, q)[i] = p[i]
    /\ \A i \in 1..Len(q) : Row(p, x, q)[Len(p) + 1 + i] = q[i]
BY RowIs

\* One document of the row back, and one on.
LEMMA RowBack ==
  \A p, q, x : Plain(p) /\ Plain(q) /\ p # <<>> =>
         /\ Row(Front(p), Last(p), <<x>> \o q) = Row(p, x, q)
         /\ Plain(Front(p)) /\ Len(Front(p)) = Len(p) - 1 /\ Len(p) \in Nat \ {0}
         /\ \A i \in DOMAIN Front(p) : i \in DOMAIN p /\ Front(p)[i] = p[i]
         /\ Plain(<<x>> \o q) /\ Len(<<x>> \o q) = Len(q) + 1 /\ Len(q) \in Nat
         /\ \A i \in DOMAIN (<<x>> \o q) : (<<x>> \o q)[i] \in ToSet(q) \cup {x}
         /\ Last(p) = p[Len(p)] /\ Len(p) \in DOMAIN p
<1> SUFFICES ASSUME NEW p, NEW q, NEW x, Plain(p) /\ Plain(q) /\ p # <<>>
             PROVE  /\ Row(Front(p), Last(p), <<x>> \o q) = Row(p, x, q)
                    /\ Plain(Front(p)) /\ Len(Front(p)) = Len(p) - 1 /\ Len(p) \in Nat \ {0}
                    /\ \A i \in DOMAIN Front(p) : i \in DOMAIN p /\ Front(p)[i] = p[i]
                    /\ Plain(<<x>> \o q) /\ Len(<<x>> \o q) = Len(q) + 1 /\ Len(q) \in Nat
                    /\ \A i \in DOMAIN (<<x>> \o q) : (<<x>> \o q)[i] \in ToSet(q) \cup {x}
                    /\ Last(p) = p[Len(p)] /\ Len(p) \in DOMAIN p
  OBVIOUS
<1>1. /\ p \in Seq(ToSet(p)) /\ Len(p) \in Nat \ {0} /\ DOMAIN p = 1..Len(p)
      /\ q \in Seq(ToSet(q)) /\ Len(q) \in Nat /\ DOMAIN q = 1..Len(q)
  BY LenProperties, EmptySeq DEF Plain
<1>2. /\ Front(p) \in Seq(ToSet(p)) /\ Len(Front(p)) = Len(p) - 1
      /\ \A i \in 1..Len(p) - 1 : Front(p)[i] = p[i]
  <2>1. \A i \in 1..Len(p) - 1 : p[i] \in ToSet(p)
    BY <1>1, ElementOfSeq
  <2>2. 1 \in Int /\ Len(p) - 1 \in Int
    BY <1>1
  <2>3. PICK n \in Int : n = Len(p) - 1
    BY <2>2, Zenon
  <2>4. /\ SubSeq(p, 1, n) \in Seq(ToSet(p)) /\ Len(SubSeq(p, 1, n)) = IF 1 <= n THEN n - 1 + 1 ELSE 0
        /\ \A i \in 1..n - 1 + 1 : SubSeq(p, 1, n)[i] = p[1 + i - 1]
    BY <2>1, <2>3, SubSeqProperties
  <2>5. Front(p) = SubSeq(p, 1, n)
    BY <2>3 DEF Front
  <2> QED BY <1>1, <2>3, <2>4, <2>5
<1>3. DOMAIN Front(p) = 1..Len(p) - 1 /\ Plain(Front(p))
  BY <1>2, LenProperties, PlainOf
<1> DEFINE S == ToSet(q) \cup {x}
<1>4. <<x>> \in Seq(S) /\ q \in Seq(S) /\ Len(<<x>>) = 1 /\ <<x>>[1] = x
  BY <1>1, SeqMonotonic
<1>5. PICK r : r = <<x>> \o q
  BY Zenon
<1> HIDE DEF S
<1>6. /\ r \in Seq(S) /\ Len(r) = 1 + Len(q)
      /\ \A i \in 1..1 + Len(q) : r[i] = IF i <= 1 THEN <<x>>[i] ELSE q[i - 1]
  BY <1>4, <1>5, ConcatProperties
<1>7. r[1] = x /\ \A i \in 1..Len(q) : r[1 + i] = q[i]
  BY <1>1, <1>4, <1>6
<1>8. Plain(r) /\ DOMAIN r = 1..Len(r) /\ \A i \in DOMAIN r : r[i] \in S
  BY <1>6, PlainOf, LenProperties, ElementOfSeq
<1>9. Last(p) = p[Len(p)]
  BY DEF Last
<1>10. PICK a, b, h, y, l, k : /\ h = Front(p) /\ y = Last(p) /\ a = Row(h, y, r) /\ b = Row(p, x, q)
                               /\ l = Len(p) /\ k = Len(q)
  BY Zenon
<1>11. /\ Plain(a) /\ Len(a) = l + 1 + k /\ a[l] = y
       /\ \A i \in 1..l - 1 : a[i] = p[i]
       /\ \A i \in 1..k + 1 : a[l + i] = r[i]
  <2>1. Plain(h) /\ Plain(r) /\ Len(h) = l - 1 /\ Len(r) = 1 + k /\ l \in Nat \ {0} /\ k \in Nat
        /\ \A i \in 1..l - 1 : h[i] = p[i]
    BY <1>1, <1>2, <1>3, <1>6, <1>8, <1>10, Zenon
  <2>2. /\ Plain(a) /\ Len(a) = Len(h) + 1 + Len(r) /\ a[Len(h) + 1] = y
        /\ \A i \in 1..Len(h) : a[i] = h[i]
        /\ \A i \in 1..Len(r) : a[Len(h) + 1 + i] = r[i]
    <3>1. /\ Plain(Row(h, y, r)) /\ Len(Row(h, y, r)) = Len(h) + 1 + Len(r) /\ Row(h, y, r)[Len(h) + 1] = y
          /\ \A i \in 1..Len(h) : Row(h, y, r)[i] = h[i]
          /\ \A i \in 1..Len(r) : Row(h, y, r)[Len(h) + 1 + i] = r[i]
      <4>1. Plain(h) /\ Plain(r)
        BY <2>1
      <4> QED BY <4>1, RowParts
    <3> QED BY <1>10, <3>1
  <2>3. Len(h) + 1 = l /\ Len(a) = l + 1 + k
    BY <2>1, <2>2
  <2> QED BY <2>1, <2>2, <2>3
<1>12. /\ Plain(b) /\ Len(b) = l + 1 + k /\ b[l + 1] = x
       /\ \A i \in 1..l : b[i] = p[i]
       /\ \A i \in 1..k : b[l + 1 + i] = q[i]
  BY <1>10, RowIs
<1>13. Len(a) = Len(b) /\ l \in Nat \ {0} /\ k \in Nat
  BY <1>1, <1>10, <1>11, <1>12
<1>14. ASSUME NEW i \in 1..Len(b)  PROVE a[i] = b[i]
  <2>0. i \in 1..l + 1 + k
    BY <1>12
  <2>1. CASE i < l
    BY <1>11, <1>12, <1>13, <2>0, <2>1
  <2>2. CASE i = l
    BY <1>9, <1>10, <1>11, <1>12, <1>13, <2>2
  <2>3. CASE i = l + 1
    <3>1. 1 \in 1..k + 1
      BY <1>13
    <3> QED BY <1>7, <1>11, <1>12, <2>3, <3>1
  <2>4. CASE i > l + 1
    <3>1. i - (l + 1) \in 1..k /\ i = l + 1 + (i - (l + 1))
      BY <1>13, <2>0, <2>4
    <3>2. PICK j \in 1..k : i = l + 1 + j
      BY <3>1
    <3>3. b[i] = q[j]
      BY <1>12, <3>2
    <3>4. 1 + j \in 1..k + 1 /\ i = l + (1 + j)
      BY <1>13, <3>2
    <3>5. a[i] = r[1 + j]
      BY <1>11, <3>4
    <3> QED BY <1>7, <1>10, <3>2, <3>3, <3>5
  <2> QED BY <1>13, <2>0, <2>1, <2>2, <2>3, <2>4
<1>15. a = b
  <2>1. a \in Seq(ToSet(a) \cup ToSet(b)) /\ b \in Seq(ToSet(a) \cup ToSet(b))
    BY <1>11, <1>12, SeqMonotonic DEF Plain
  <2> QED BY <1>13, <1>14, <2>1, SeqEqual
<1> QED BY <1>1, <1>2, <1>3, <1>5, <1>6, <1>8, <1>9, <1>10, <1>15, SMTT(60) DEF S

LEMMA RowOn ==
  ASSUME NEW p, Plain(p), NEW q, Plain(q), NEW x, q # <<>>
  PROVE  /\ Row(Append(p, x), Head(q), Tail(q)) = Row(p, x, q)
         /\ Plain(Tail(q)) /\ Len(Tail(q)) = Len(q) - 1 /\ Len(q) \in Nat \ {0}
         /\ \A i \in DOMAIN Tail(q) : Tail(q)[i] \in ToSet(q)
         /\ Head(q) \in ToSet(q)
<1>1. /\ q \in Seq(ToSet(q)) /\ Len(q) \in Nat \ {0} /\ Len(p) \in Nat
  BY LenProperties, EmptySeq DEF Plain
<1>2. /\ Head(q) = q[1] /\ Head(q) \in ToSet(q) /\ Tail(q) \in Seq(ToSet(q)) /\ Len(Tail(q)) = Len(q) - 1
      /\ \A i \in 1..Len(Tail(q)) : Tail(q)[i] = q[i + 1]
  BY <1>1, HeadTailProperties
<1>3. Plain(Tail(q)) /\ \A i \in DOMAIN Tail(q) : Tail(q)[i] \in ToSet(q)
  BY <1>2, PlainOf, LenProperties, ElementOfSeq, Zenon
<1>4. PICK c : c = Append(p, x)
  BY Zenon
<1>5. Plain(c) /\ Len(c) = Len(p) + 1 /\ c[Len(p) + 1] = x /\ \A i \in 1..Len(p) : c[i] = p[i]
  BY <1>4, PlainAppend
<1>6. PICK a, b, y, t, l, k : /\ y = Head(q) /\ t = Tail(q) /\ a = Row(c, y, t) /\ b = Row(p, x, q)
                              /\ l = Len(p) /\ k = Len(q)
  BY Zenon
<1>7. /\ Plain(a) /\ Len(a) = l + 1 + k /\ a[l + 2] = q[1]
      /\ \A i \in 1..l + 1 : a[i] = c[i]
      /\ \A i \in 1..k - 1 : a[l + 2 + i] = q[i + 1]
  <2>1. /\ Plain(t) /\ Len(t) = k - 1 /\ Len(c) = l + 1 /\ l \in Nat /\ k \in Nat \ {0} /\ y = q[1]
        /\ \A i \in 1..k - 1 : t[i] = q[i + 1]
    BY <1>1, <1>2, <1>3, <1>5, <1>6
  <2>2. /\ Plain(a) /\ Len(a) = Len(c) + 1 + Len(t) /\ a[Len(c) + 1] = y
        /\ \A i \in 1..Len(c) : a[i] = c[i]
        /\ \A i \in 1..Len(t) : a[Len(c) + 1 + i] = t[i]
    <3>1. /\ Plain(Row(c, y, t)) /\ Len(Row(c, y, t)) = Len(c) + 1 + Len(t) /\ Row(c, y, t)[Len(c) + 1] = y
          /\ \A i \in 1..Len(c) : Row(c, y, t)[i] = c[i]
          /\ \A i \in 1..Len(t) : Row(c, y, t)[Len(c) + 1 + i] = t[i]
      <4>1. Plain(c) /\ Plain(t)
        BY <1>5, <2>1
      <4> QED BY <4>1, RowParts
    <3> QED BY <1>6, <3>1
  <2>3. Len(c) + 1 = l + 2 /\ Len(a) = l + 1 + k
    BY <2>1, <2>2
  <2> QED BY <2>1, <2>2, <2>3, Zenon
<1>8. /\ Plain(b) /\ Len(b) = l + 1 + k /\ b[l + 1] = x
      /\ \A i \in 1..l : b[i] = p[i]
      /\ \A i \in 1..k : b[l + 1 + i] = q[i]
  BY <1>6, RowIs
<1>9. Len(a) = Len(b) /\ l \in Nat /\ k \in Nat \ {0}
  BY <1>1, <1>6, <1>7, <1>8
<1>10. ASSUME NEW i \in 1..Len(b)  PROVE a[i] = b[i]
  <2>0. i \in 1..l + 1 + k
    BY <1>8
  <2>1. CASE i <= l
    <3>1. a[i] = c[i] /\ b[i] = p[i]
      BY <1>7, <1>8, <1>9, <2>0, <2>1
    <3> QED BY <1>5, <1>6, <1>9, <2>0, <2>1, <3>1
  <2>4. CASE i = l + 1
    <3>1. a[i] = c[l + 1] /\ b[i] = x
      BY <1>7, <1>8, <1>9, <2>4
    <3> QED BY <1>5, <1>6, <3>1
  <2>2. CASE i = l + 2
    <3>1. 1 \in 1..k /\ l + 2 = l + 1 + 1
      BY <1>9
    <3> QED BY <1>7, <1>8, <2>2, <3>1
  <2>3. CASE i > l + 2
    <3>1. i - (l + 2) \in 1..k - 1 /\ i = l + 2 + (i - (l + 2))
      BY <1>9, <2>0, <2>3
    <3>2. PICK j \in 1..k - 1 : i = l + 2 + j
      BY <3>1
    <3>3. a[i] = q[j + 1]
      BY <1>7, <3>2
    <3>4. j + 1 \in 1..k /\ i = l + 1 + (j + 1)
      BY <1>9, <3>2
    <3> QED BY <1>8, <3>3, <3>4
  <2> QED BY <1>9, <2>0, <2>1, <2>2, <2>3, <2>4
<1>11. a = b
  <2>1. a \in Seq(ToSet(a) \cup ToSet(b)) /\ b \in Seq(ToSet(a) \cup ToSet(b))
    BY <1>7, <1>8, SeqMonotonic DEF Plain
  <2> QED BY <1>9, <1>10, <2>1, SeqEqual
<1> QED BY <1>1, <1>2, <1>3, <1>4, <1>6, <1>11

\* nextManualId: the greatest of finitely many ids has a next one.
LEMMA NextIdIs ==
  ASSUME NEW H, IsFiniteSet(H), \A h \in H : h.id \in Int, NEW floor \in Int
  PROVE  NextId(H, floor) \in Int /\ NextId(H, floor) >= floor /\ \A h \in H : h.id < NextId(H, floor)
<1> DEFINE Free(T, n) == n >= floor /\ \A h \in T : h.id < n
           Bad == {T \in SUBSET H : ~\E n \in {floor} \cup {h.id + 1 : h \in T} : Free(T, n)}
<1>1. Bad \subseteq FiniteSubsetsOf(H)
  BY FS_Subset DEF FiniteSubsetsOf
<1>2. Bad = {}
  <2>1. SUFFICES ASSUME Bad # {} PROVE FALSE
    OBVIOUS
  <2>2. PICK T \in Bad : \A U \in Bad : ~(<<U, T>> \in StrictSubsetOrdering(H))
    <3> HIDE DEF Bad
    <3> QED BY <1>1, <2>1, FS_StrictSubsetOrderingWellFounded, WFMin
  <2>3. T \in SUBSET H /\ \A n \in {floor} \cup {h.id + 1 : h \in T} : ~Free(T, n)
    OBVIOUS
  <2>4. PICK x \in T : TRUE
    <3>1. T = {} => Free(T, floor)
      OBVIOUS
    <3> QED BY <2>3, <3>1
  <2> DEFINE U == T \ {x}
  <2>5. U \notin Bad /\ U \in SUBSET H
    <3>1. <<U, T>> \in StrictSubsetOrdering(H)
      BY <2>3, <2>4 DEF StrictSubsetOrdering
    <3> HIDE DEF Bad
    <3> QED BY <2>2, <2>3, <3>1, Zenon
  <2>6. PICK m \in {floor} \cup {h.id + 1 : h \in U} : Free(U, m)
    BY <2>5
  <2>7. x.id \in Int /\ m \in Int /\ \A h \in U : h.id \in Int
    BY <2>3
  <2>8. CASE x.id < m
    <3>1. Free(T, m) /\ m \in {floor} \cup {h.id + 1 : h \in T}
      BY <2>6, <2>8
    <3> QED BY <2>3, <3>1
  <2>9. CASE ~(x.id < m)
    <3>1. Free(T, x.id + 1) /\ x.id + 1 \in {h.id + 1 : h \in T}
      BY <2>4, <2>6, <2>7, <2>9
    <3> QED BY <2>3, <3>1
  <2> QED BY <2>8, <2>9
<1>3. \E n \in {floor} \cup {h.id + 1 : h \in H} : Free(H, n)
  BY <1>2
<1>4. Free(H, NextId(H, floor)) /\ NextId(H, floor) \in {floor} \cup {h.id + 1 : h \in H}
  BY <1>3 DEF NextId
<1>5. NextId(H, floor) \in Int
  BY <1>4
<1> QED BY <1>4, <1>5

LEMMA UndoneGoes ==
  ASSUME NEW e, EdInv(e)
  PROVE  Goes(e, Undone(e))
<1>1. CASE e.gesture.on \/ e.past = <<>>
  <2>1. Undone(e) = e
    BY <1>1 DEF Undone
  <2>2. Keeps(e, e)
    BY DEF EdInv, Keeps
  <2> QED BY <2>1, <2>2, KeepsGoes
<1>2. CASE ~e.gesture.on /\ e.past # <<>>
  <2>1. PICK f, s : f = Undone(e) /\ s = Shown(e, Last(e.past))
    OBVIOUS
  <2>2. PICK p, q, x : p = e.past /\ q = e.future /\ x = e.hits
    OBVIOUS
  <2>3. /\ DOMAIN s = Fields /\ s.hits = Last(p) /\ s.changes = e.changes + 1 /\ s.clip = e.clip
        /\ s.nextId = e.nextId /\ s.gesture = e.gesture /\ s.past = p /\ s.future = q
    BY <2>1, <2>2 DEF Shown, EdInv, Fields
  <2>4. f = [s EXCEPT !.past = Front(@), !.future = <<e.hits>> \o @]
    BY <1>2, <2>1 DEF Undone
  <2>5. /\ DOMAIN f = Fields /\ f.hits = Last(p) /\ f.changes = e.changes + 1 /\ f.clip = e.clip
        /\ f.nextId = e.nextId /\ f.gesture = e.gesture /\ f.past = Front(p) /\ f.future = <<x>> \o q
    BY <2>2, <2>3, <2>4 DEF Fields
  <2>6. /\ Plain(p) /\ Plain(q) /\ p # <<>> /\ Len(p) + Len(q) <= HistoryLimit /\ Doc(x, e.nextId)
        /\ \A i \in DOMAIN p : Doc(p[i], e.nextId)
        /\ \A i \in DOMAIN q : Doc(q[i], e.nextId)
    BY <1>2, <2>2, Zenon DEF EdInv, Trail
  <2>7. /\ Row(Front(p), Last(p), <<x>> \o q) = Row(p, x, q)
        /\ Plain(Front(p)) /\ Len(Front(p)) = Len(p) - 1 /\ Len(p) \in Nat \ {0}
        /\ \A i \in DOMAIN Front(p) : i \in DOMAIN p /\ Front(p)[i] = p[i]
        /\ Plain(<<x>> \o q) /\ Len(<<x>> \o q) = Len(q) + 1 /\ Len(q) \in Nat
        /\ \A i \in DOMAIN (<<x>> \o q) : (<<x>> \o q)[i] \in ToSet(q) \cup {x}
        /\ Last(p) = p[Len(p)] /\ Len(p) \in DOMAIN p
    <3>1. Plain(p) /\ Plain(q) /\ p # <<>>
      BY <2>6
    <3> QED BY <3>1, RowBack
  <2>8. Trail(f.past, f.nextId) /\ Doc(f.hits, f.nextId)
    BY <2>5, <2>6, <2>7 DEF Trail
  <2>9. Trail(f.future, f.nextId)
    <3>1. \A y \in ToSet(q) \cup {x} : Doc(y, e.nextId)
      BY <2>6 DEF ToSet
    <3>2. PICK c : c = <<x>> \o q
      BY Zenon
    <3>3. Plain(c) /\ \A i \in DOMAIN c : c[i] \in ToSet(q) \cup {x}
      BY <2>7, <3>2
    <3> QED BY <2>5, <3>1, <3>2, <3>3 DEF Trail
  <2>10. Len(f.past) + Len(f.future) <= HistoryLimit /\ Len(f.past) = Len(p) - 1
    BY <2>5, <2>6, <2>7
  <2>11. EdInv(f)
    BY <1>2, <2>5, <2>8, <2>9, <2>10 DEF EdInv
  <2>12. DocsOf(e) = Row(p, x, q) /\ PlaceOf(e) = 1 + Len(p)
    BY <1>2, <2>2 DEF DocsOf, PlaceOf
  <2>13. DocsOf(f) = Row(f.past, f.hits, f.future) /\ PlaceOf(f) = 1 + Len(f.past)
    BY <1>2, <2>5 DEF DocsOf, PlaceOf
  <2>14. HistoryGoes(DocsOf(e), PlaceOf(e), DocsOf(f), PlaceOf(f))
    <3>1. DocsOf(f) = DocsOf(e)
      BY <2>5, <2>7, <2>12, <2>13
    <3>2. PlaceOf(f) = PlaceOf(e) - 1 /\ PlaceOf(e) > 1
      BY <2>7, <2>10, <2>12, <2>13
    <3> QED BY <3>1, <3>2 DEF HistoryGoes
  <2>15. Watching(Seen(e), f) = Seen(f)
    BY <1>2, <2>5 DEF Watching, Seen, EdInv
  <2> QED BY <2>1, <2>11, <2>14, <2>15 DEF Goes
<1> QED BY <1>1, <1>2

LEMMA RedoneGoes ==
  ASSUME NEW e, EdInv(e)
  PROVE  Goes(e, Redone(e))
<1>1. CASE e.gesture.on \/ e.future = <<>>
  <2>1. Redone(e) = e
    BY <1>1 DEF Redone
  <2>2. Keeps(e, e)
    BY DEF EdInv, Keeps
  <2> QED BY <2>1, <2>2, KeepsGoes
<1>2. CASE ~e.gesture.on /\ e.future # <<>>
  <2>1. PICK f, s : f = Redone(e) /\ s = Shown(e, Head(e.future))
    OBVIOUS
  <2>2. PICK p, q, x : p = e.past /\ q = e.future /\ x = e.hits
    OBVIOUS
  <2>3. /\ DOMAIN s = Fields /\ s.hits = Head(q) /\ s.changes = e.changes + 1 /\ s.clip = e.clip
        /\ s.nextId = e.nextId /\ s.gesture = e.gesture /\ s.past = p /\ s.future = q
    BY <2>1, <2>2 DEF Shown, EdInv, Fields
  <2>4. f = [s EXCEPT !.past = Pushed(@, e.hits), !.future = Tail(@)]
    BY <1>2, <2>1 DEF Redone
  <2>5. /\ DOMAIN f = Fields /\ f.hits = Head(q) /\ f.changes = e.changes + 1 /\ f.clip = e.clip
        /\ f.nextId = e.nextId /\ f.gesture = e.gesture /\ f.past = Pushed(p, x) /\ f.future = Tail(q)
    BY <2>2, <2>3, <2>4 DEF Fields
  <2>6. /\ Plain(p) /\ Plain(q) /\ q # <<>> /\ Len(p) + Len(q) <= HistoryLimit /\ Doc(x, e.nextId)
        /\ Trail(p, e.nextId)
        /\ \A y \in ToSet(q) : Doc(y, e.nextId)
    BY <1>2, <2>2, Zenon DEF EdInv, Trail, ToSet
  <2>7. /\ Row(Append(p, x), Head(q), Tail(q)) = Row(p, x, q)
        /\ Plain(Tail(q)) /\ Len(Tail(q)) = Len(q) - 1 /\ Len(q) \in Nat \ {0}
        /\ \A i \in DOMAIN Tail(q) : Tail(q)[i] \in ToSet(q)
        /\ Head(q) \in ToSet(q)
    BY <2>6, RowOn
  <2>8. Trail(f.future, f.nextId) /\ Doc(f.hits, f.nextId)
    BY <2>5, <2>6, <2>7 DEF Trail
  <2>9. Trail(f.past, f.nextId) /\ f.past = Append(p, x) /\ Len(f.past) = Len(p) + 1 /\ Len(p) \in Nat
    <3>1. Trail(Pushed(p, x), e.nextId)
      BY <2>6, PushedTrail
    <3>2. Len(p) \in Nat /\ Len(Append(p, x)) = Len(p) + 1
      BY <2>6, PlainAppend
    <3>0. HistoryLimit \in Nat \ {0}
      BY EditAssumption
    <3>3. Len(p) < HistoryLimit
      BY <2>6, <2>7, <3>0, <3>2
    <3>4. Pushed(p, x) = Append(p, x)
      BY <2>6, <3>3, PushedIs, Zenon
    <3> QED BY <2>5, <3>1, <3>2, <3>4
  <2>10. Len(f.past) + Len(f.future) <= HistoryLimit
    <3>1. PICK l \in Nat, k \in Nat \ {0} : l = Len(p) /\ k = Len(q)
      BY <2>7, <2>9, Zenon
    <3>2. Len(f.past) = l + 1 /\ Len(f.future) = k - 1 /\ l + k <= HistoryLimit
      BY <2>5, <2>6, <2>7, <2>9, <3>1
    <3> QED BY <3>2, EditAssumption
  <2>11. EdInv(f)
    <3>1. /\ DOMAIN f = Fields /\ f.nextId \in Int /\ f.changes \in Nat /\ Plain(f.clip)
          /\ DOMAIN f.gesture = GestureFields /\ f.gesture.on \in BOOLEAN /\ f.gesture.touched \in BOOLEAN
          /\ ~f.gesture.on
      BY <1>2, <2>5 DEF EdInv
    <3>2. Trail(f.past, f.nextId) /\ Trail(f.future, f.nextId) /\ Doc(f.hits, f.nextId)
      BY <2>8, <2>9
    <3> QED BY <2>10, <3>1, <3>2, Zenon DEF EdInv
  <2>12. DocsOf(e) = Row(p, x, q) /\ PlaceOf(e) = 1 + Len(p)
    BY <1>2, <2>2 DEF DocsOf, PlaceOf
  <2>13. DocsOf(f) = Row(f.past, f.hits, f.future) /\ PlaceOf(f) = 1 + Len(f.past)
    BY <1>2, <2>5 DEF DocsOf, PlaceOf
  <2>14. HistoryGoes(DocsOf(e), PlaceOf(e), DocsOf(f), PlaceOf(f))
    <3>1. DocsOf(f) = DocsOf(e)
      BY <2>5, <2>7, <2>9, <2>12, <2>13
    <3>2. Len(DocsOf(e)) = Len(p) + 1 + Len(q)
      BY <2>6, <2>12, RowIs
    <3>3. PlaceOf(f) = PlaceOf(e) + 1 /\ PlaceOf(e) < Len(DocsOf(e))
      BY <2>7, <2>9, <2>12, <2>13, <3>2
    <3> QED BY <3>1, <3>3 DEF HistoryGoes
  <2>15. Watching(Seen(e), f) = Seen(f)
    BY <1>2, <2>5 DEF Watching, Seen, EdInv
  <2> QED BY <2>1, <2>11, <2>14, <2>15 DEF Goes
<1> QED BY <1>1, <1>2

\* A document of the server, whatever ids were given before.
LEMMA LoadableDoc ==
  ASSUME NEW H \in Documents, NEW floor \in Int
  PROVE  NextId(H, floor) \in Int /\ NextId(H, floor) >= floor /\ Doc(H, NextId(H, floor))
<1>1. IsFiniteSet(H) /\ \A h \in H : DOMAIN h = HitFields /\ h.id \in Int
  BY EditAssumption DEF HitFields
<1> QED BY <1>1, NextIdIs DEF Doc

LEMMA OneDocument ==
  ASSUME NEW H
  PROVE  Row(<<>>, H, <<>>) = <<H>>
<1>1. <<>> \in Seq({H}) /\ Append(<<>>, H) = <<H>> /\ <<H>> \in Seq({H})
  OBVIOUS
<1>2. <<H>> \o <<>> = <<H>>
  BY <1>1, ConcatEmptySeq
<1> QED BY <1>1, <1>2 DEF Row

LEMMA LoadedGoes ==
  ASSUME NEW e, EdInv(e), NEW H \in Documents
  PROVE  /\ EdInv(Loaded(e, H)) /\ HistoryGoes(DocsOf(e), PlaceOf(e), DocsOf(Loaded(e, H)), PlaceOf(Loaded(e, H)))
         /\ Loaded(e, H).hits = H /\ ~Loaded(e, H).gesture.on
<1>1. PICK f : f = Loaded(e, H)
  OBVIOUS
<1>2. /\ DOMAIN f = Fields /\ f.hits = H /\ f.past = <<>> /\ f.future = <<>> /\ f.clip = e.clip
      /\ f.nextId = NextId(H, e.nextId) /\ f.gesture = NoGesture /\ f.changes = e.changes + 1
  BY <1>1 DEF Loaded, EdInv, Fields
<1>3. DOMAIN NoGesture = GestureFields /\ ~NoGesture.on /\ NoGesture.on \in BOOLEAN /\ NoGesture.touched \in BOOLEAN
  BY DEF NoGesture, GestureFields
<1>4. f.nextId \in Int /\ Doc(f.hits, f.nextId)
  BY <1>2, LoadableDoc, Zenon DEF EdInv
<1>5. Trail(<<>>, f.nextId) /\ Len(<<>>) = 0 /\ Len(<<>>) + Len(<<>>) <= HistoryLimit
  BY EmptyTrail, EditAssumption
<1>6. EdInv(f)
  BY <1>2, <1>3, <1>4, <1>5 DEF EdInv
<1>7. DocsOf(f) = <<H>> /\ PlaceOf(f) = 1
  BY <1>2, <1>3, <1>5, OneDocument DEF DocsOf, PlaceOf
<1> QED BY <1>1, <1>2, <1>3, <1>6, <1>7 DEF HistoryGoes

-----------------------------------------------------------------------------
(* The reducer *)

LEMMA ImageFinite ==
  ASSUME NEW S, IsFiniteSet(S), NEW g, g = [x \in S |-> g[x]]
  PROVE  IsFiniteSet({g[x] : x \in S})
<1> DEFINE T == {g[x] : x \in S}
<1>1. g \in [S -> T] /\ \A y \in T : \E x \in S : g[x] = y
  OBVIOUS
<1> HIDE DEF T
<1>2. g \in Surjection(S, T)
  BY <1>1 DEF Surjection
<1>3. IsFiniteSet(T)
  BY <1>2, FS_Surjection
<1> QED BY <1>3 DEF T

LEMMA CommittedIs ==
  ASSUME NEW e, EdInv(e), NEW H
  PROVE  /\ DOMAIN Committed(e, H) = Fields /\ Committed(e, H).hits = H /\ Committed(e, H).changes = e.changes + 1
         /\ Committed(e, H).future = <<>> /\ Committed(e, H).clip = e.clip /\ Committed(e, H).nextId = e.nextId
         /\ Committed(e, H).past = IF e.gesture.on /\ e.gesture.touched THEN e.past ELSE Pushed(e.past, e.hits)
         /\ Committed(e, H).gesture = [e.gesture EXCEPT !.touched = e.gesture.on]
BY DEF Committed, EdInv, Fields

\* f is what committing H makes of e, but for selection and clipboard.
LEMMA CommittedDoes ==
  ASSUME NEW e, EdInv(e), NEW H, H # e.hits, NEW n \in Int, n >= e.nextId, Doc(H, n),
         NEW f, DOMAIN f = Fields, f.hits = H, f.nextId = n,
         f.changes = Committed(e, H).changes, f.future = Committed(e, H).future, f.clip = Committed(e, H).clip,
         f.past = Committed(e, H).past, f.gesture = Committed(e, H).gesture
  PROVE  Does(e, f)
<1>1. Commits(e, f)
  BY CommittedIs DEF Commits
<1> QED BY <1>1 DEF Does

LEMMA SameDoes ==
  ASSUME NEW e, EdInv(e)
  PROVE  Does(e, e)
BY DEF Does, Keeps, EdInv

\* Selection and default velocity are not of the documents.
LEMMA SelectionDoes ==
  ASSUME NEW e, NEW f, Does(e, f), NEW s, NEW v
  PROVE  Does(e, [f EXCEPT !.selection = s]) /\ Does(e, [f EXCEPT !.lastVel = v])
<1>1. DOMAIN f = Fields
  BY DEF Does, Keeps, Commits
<1>2. PICK g, h : g = [f EXCEPT !.selection = s] /\ h = [f EXCEPT !.lastVel = v]
  BY Zenon
<1>3. ASSUME NEW x \in {g, h}
      PROVE  /\ DOMAIN x = Fields /\ x.hits = f.hits /\ x.changes = f.changes /\ x.past = f.past /\ x.future = f.future
             /\ x.gesture = f.gesture /\ x.nextId = f.nextId /\ x.clip = f.clip
  BY <1>1, <1>2 DEF Fields
<1>4. \A x \in {g, h} : Does(e, x)
  BY <1>3 DEF Does, Keeps, Commits
<1> QED BY <1>2, <1>4

LEMMA ChangedDoes ==
  ASSUME NEW e, EdInv(e), NEW H, Doc(H, e.nextId), NEW f, f = IF H = e.hits THEN e ELSE Committed(e, H)
  PROVE  Does(e, f)
<1>1. CASE H = e.hits
  BY <1>1, SameDoes
<1>2. CASE H # e.hits
  <2>1. f = Committed(e, H) /\ e.nextId \in Int /\ e.nextId >= e.nextId
    BY <1>2 DEF EdInv
  <2>2. DOMAIN f = Fields /\ f.hits = H /\ f.nextId = e.nextId
    <3>1. DOMAIN Committed(e, H) = Fields /\ Committed(e, H).hits = H /\ Committed(e, H).nextId = e.nextId
      BY CommittedIs, ZenonT(60)
    <3> QED BY <2>1, <3>1
  <2>3. /\ f.changes = Committed(e, H).changes /\ f.future = Committed(e, H).future
        /\ f.clip = Committed(e, H).clip /\ f.past = Committed(e, H).past /\ f.gesture = Committed(e, H).gesture
    BY <2>1
  <2> QED BY <1>2, <2>1, <2>2, <2>3, CommittedDoes
<1> QED BY <1>1, <1>2

\* What changes hits one by one and leaves their ids.
Alters(g, S) == g = [h \in S |-> g[h]] /\ \A h \in S : DOMAIN g[h] = HitFields /\ g[h].id = h.id

LEMMA AlteredDoc ==
  ASSUME NEW S, NEW n, Doc(S, n), NEW g, Alters(g, S)
  PROVE  Doc({g[h] : h \in S}, n)
<1>1. IsFiniteSet({g[h] : h \in S})
  BY ImageFinite DEF Doc, Alters
<1> QED BY <1>1 DEF Doc, Alters

LEMMA MappedDoes ==
  ASSUME NEW e, EdInv(e), NEW g, Alters(g, e.hits)
  PROVE  Does(e, IF {g[h] : h \in e.hits} = e.hits THEN e ELSE Committed(e, {g[h] : h \in e.hits}))
<1>1. PICK H, f : H = {g[h] : h \in e.hits} /\ f = IF H = e.hits THEN e ELSE Committed(e, H)
  BY Zenon
<1>2. Doc(H, e.nextId)
  BY <1>1, AlteredDoc DEF EdInv
<1>3. Does(e, f)
  BY <1>1, <1>2, ChangedDoes, Zenon
<1> QED BY <1>1, <1>3

LEMMA MovedToDoes ==
  ASSUME NEW e, EdInv(e), NEW base, NEW dt, NEW art
  PROVE  Does(e, MovedTo(e, base, dt, art))
<1> DEFINE g == [h \in e.hits |-> IF h.id \in Ids(base)
                          THEN [h EXCEPT !.t = Clamped(Hit(base, h.id).t + dt),
                                         !.art = IF art = {} THEN Hit(base, h.id).art ELSE CHOOSE a \in art : TRUE]
                          ELSE h]
<1>1. \A h \in e.hits : DOMAIN g[h] = HitFields /\ g[h].id = h.id
  BY Zenon DEF EdInv, Doc, HitFields
<1>2. MovedTo(e, base, dt, art) = IF {g[h] : h \in e.hits} = e.hits THEN e
                                  ELSE Committed(e, {g[h] : h \in e.hits})
  <2>1. {g[h] : h \in e.hits} = {IF h.id \in Ids(base)
                          THEN [h EXCEPT !.t = Clamped(Hit(base, h.id).t + dt),
                                         !.art = IF art = {} THEN Hit(base, h.id).art ELSE CHOOSE a \in art : TRUE]
                          ELSE h : h \in e.hits}
    BY Zenon
  <2> QED BY <2>1, Zenon DEF MovedTo, Mapped
<1>3. Alters(g, e.hits)
  BY <1>1, Zenon DEF Alters
<1> HIDE DEF g
<1> QED BY <1>2, <1>3, MappedDoes

LEMMA WithArtDoes ==
  ASSUME NEW e, EdInv(e), NEW art
  PROVE  Does(e, WithArt(e, art))
<1> DEFINE g == [h \in e.hits |-> IF h.id \in ToSet(e.selection) THEN [h EXCEPT !.art = art] ELSE h]
<1>1. \A h \in e.hits : DOMAIN g[h] = HitFields /\ g[h].id = h.id
  BY DEF EdInv, Doc, HitFields
<1>2. WithArt(e, art) = IF {g[h] : h \in e.hits} = e.hits THEN e
                        ELSE Committed(e, {g[h] : h \in e.hits})
  <2>1. {g[h] : h \in e.hits} = {IF h.id \in ToSet(e.selection) THEN [h EXCEPT !.art = art] ELSE h : h \in e.hits}
    BY Zenon
  <2> QED BY <2>1, Zenon DEF WithArt, MappedSelected, Mapped
<1>3. Alters(g, e.hits)
  BY <1>1, Zenon DEF Alters
<1> HIDE DEF g
<1> QED BY <1>2, <1>3, MappedDoes

LEMMA VelAddDoes ==
  ASSUME NEW e, EdInv(e), NEW delta
  PROVE  Does(e, VelAdd(e, delta))
<1> DEFINE g == [h \in e.hits |-> IF h.id \in ToSet(e.selection) THEN [h EXCEPT !.vel = ClampedVel(@ + delta)] ELSE h]
<1>1. \A h \in e.hits : DOMAIN g[h] = HitFields /\ g[h].id = h.id
  BY DEF EdInv, Doc, HitFields
<1>2. VelAdd(e, delta) = IF {g[h] : h \in e.hits} = e.hits THEN e
                         ELSE Committed(e, {g[h] : h \in e.hits})
  <2>1. {g[h] : h \in e.hits} = {IF h.id \in ToSet(e.selection) THEN [h EXCEPT !.vel = ClampedVel(@ + delta)] ELSE h : h \in e.hits}
    BY Zenon
  <2> QED BY <2>1, Zenon DEF VelAdd, MappedSelected, Mapped
<1>3. Alters(g, e.hits)
  BY <1>1 DEF Alters
<1> HIDE DEF g
<1> QED BY <1>2, <1>3, MappedDoes

LEMMA CompressedDoes ==
  ASSUME NEW e, EdInv(e)
  PROVE  Does(e, Compressed(e))
<1> DEFINE g == [h \in e.hits |-> IF h.id \in ToSet(e.selection) THEN [h EXCEPT !.vel = ClampedVel(Rounded(2 * MidVel + @ - MidVel, 2))] ELSE h]
<1>1. \A h \in e.hits : DOMAIN g[h] = HitFields /\ g[h].id = h.id
  BY DEF EdInv, Doc, HitFields
<1>2. Compressed(e) = IF {g[h] : h \in e.hits} = e.hits THEN e
                      ELSE Committed(e, {g[h] : h \in e.hits})
  <2>1. {g[h] : h \in e.hits} = {IF h.id \in ToSet(e.selection) THEN [h EXCEPT !.vel = ClampedVel(Rounded(2 * MidVel + @ - MidVel, 2))] ELSE h : h \in e.hits}
    BY Zenon
  <2> QED BY <2>1, Zenon DEF Compressed, MappedSelected, Mapped
<1>3. Alters(g, e.hits)
  BY <1>1 DEF Alters
<1> HIDE DEF g
<1> QED BY <1>2, <1>3, MappedDoes

LEMMA VelDrawnDoes ==
  ASSUME NEW e, EdInv(e), NEW ids, NEW v
  PROVE  Does(e, VelDrawn(e, ids, v))
<1> DEFINE g == [h \in e.hits |-> IF h.id \in ids THEN [h EXCEPT !.vel = ClampedVel(v)] ELSE h]
<1>1. \A h \in e.hits : DOMAIN g[h] = HitFields /\ g[h].id = h.id
  BY DEF EdInv, Doc, HitFields
<1>2. VelDrawn(e, ids, v) = IF {g[h] : h \in e.hits} = e.hits THEN e
                            ELSE Committed(e, {g[h] : h \in e.hits})
  <2>1. {g[h] : h \in e.hits} = {IF h.id \in ids THEN [h EXCEPT !.vel = ClampedVel(v)] ELSE h : h \in e.hits}
    BY Zenon
  <2> QED BY <2>1, Zenon DEF VelDrawn, Mapped
<1>3. Alters(g, e.hits)
  BY <1>1 DEF Alters
<1> HIDE DEF g
<1> QED BY <1>2, <1>3, MappedDoes

LEMMA NudgedDoes ==
  ASSUME NEW e, EdInv(e), NEW dt
  PROVE  Does(e, Nudged(e, dt))
<1> DEFINE g == [h \in e.hits |-> IF h.id \in ToSet(e.selection) THEN [h EXCEPT !.t = Clamped(@ + dt)] ELSE h]
<1>1. \A h \in e.hits : DOMAIN g[h] = HitFields /\ g[h].id = h.id
  BY DEF EdInv, Doc, HitFields
<1>2. Nudged(e, dt) = IF {g[h] : h \in e.hits} = e.hits THEN e
                      ELSE Committed(e, {g[h] : h \in e.hits})
  <2>1. {g[h] : h \in e.hits} = {IF h.id \in ToSet(e.selection) THEN [h EXCEPT !.t = Clamped(@ + dt)] ELSE h : h \in e.hits}
    BY Zenon
  <2> QED BY <2>1, Zenon DEF Nudged, MappedSelected, Mapped
<1>3. Alters(g, e.hits)
  BY <1>1 DEF Alters
<1> HIDE DEF g
<1> QED BY <1>2, <1>3, MappedDoes

LEMMA QuantizedDoes ==
  ASSUME NEW e, EdInv(e), NEW n, NEW strength
  PROVE  Does(e, Quantized(e, n, strength))
<1> DEFINE g == [h \in e.hits |-> IF h.id \in ToSet(e.selection)
                          THEN [h EXCEPT !.t = Clamped(@ + ((Snap(grid, @, n) - @) * strength) \div 2)] ELSE h]
<1>1. \A h \in e.hits : DOMAIN g[h] = HitFields /\ g[h].id = h.id
  BY DEF EdInv, Doc, HitFields
<1>2. Quantized(e, n, strength) = IF {g[h] : h \in e.hits} = e.hits THEN e
                                  ELSE Committed(e, {g[h] : h \in e.hits})
  <2>1. {g[h] : h \in e.hits} = {IF h.id \in ToSet(e.selection)
                          THEN [h EXCEPT !.t = Clamped(@ + ((Snap(grid, @, n) - @) * strength) \div 2)] ELSE h : h \in e.hits}
    BY Zenon
  <2> QED BY <2>1, Zenon DEF Quantized, MappedSelected, Mapped
<1>3. Alters(g, e.hits)
  BY <1>1, Zenon DEF Alters
<1> HIDE DEF g
<1> QED BY <1>2, <1>3, MappedDoes

LEMMA WithVelDoes ==
  ASSUME NEW e, EdInv(e), NEW v
  PROVE  Does(e, WithVel(e, v))
<1> DEFINE g == [h \in e.hits |-> IF h.id \in ToSet(e.selection) THEN [h EXCEPT !.vel = ClampedVel(v)] ELSE h]
<1>1. \A h \in e.hits : DOMAIN g[h] = HitFields /\ g[h].id = h.id
  BY DEF EdInv, Doc, HitFields
<1>2. MappedSelected(e, LAMBDA h : [h EXCEPT !.vel = ClampedVel(v)]) = IF {g[h] : h \in e.hits} = e.hits THEN e
                                                                       ELSE Committed(e, {g[h] : h \in e.hits})
  <2>1. {g[h] : h \in e.hits} = {IF h.id \in ToSet(e.selection) THEN [h EXCEPT !.vel = ClampedVel(v)] ELSE h : h \in e.hits}
    BY Zenon
  <2> QED BY <2>1, Zenon DEF MappedSelected, Mapped
<1>3. Alters(g, e.hits)
  BY <1>1 DEF Alters
<1> HIDE DEF g
<1>4. PICK f, w : f = MappedSelected(e, LAMBDA h : [h EXCEPT !.vel = ClampedVel(v)]) /\ w = ClampedVel(v)
  BY Zenon
<1>5. Does(e, f)
  BY <1>2, <1>3, <1>4, MappedDoes
<1>6. Does(e, [f EXCEPT !.lastVel = w])
  BY <1>5, SelectionDoes, Zenon
<1> QED BY <1>4, <1>6 DEF WithVel

LEMMA RemovedDoes ==
  ASSUME NEW e, EdInv(e), NEW ids
  PROVE  Does(e, Removed(e, ids))
<1> DEFINE H == {h \in e.hits : h.id \notin ids}
<1>1. CASE Ids(e.hits) \cap ids = {}
  BY <1>1, SameDoes DEF Removed
<1>2. CASE Ids(e.hits) \cap ids # {}
  <2>1. H # e.hits
    BY <1>2 DEF Ids
  <2>2. Doc(H, e.nextId)
    BY FS_Subset DEF EdInv, Doc
  <2>3. PICK s : s = Without(Committed(e, H).selection, ids)
    BY Zenon
  <2>4. Removed(e, ids) = [Committed(e, H) EXCEPT !.selection = s]
    BY <1>2, <2>3 DEF Removed
  <2> HIDE DEF H
  <2>5. PICK f : f = Committed(e, H)
    OBVIOUS
  <2>6. Does(e, f)
    <3>1. f = IF H = e.hits THEN e ELSE Committed(e, H)
      BY <2>1, <2>5
    <3> QED BY <2>2, <3>1, ChangedDoes
  <2>7. Does(e, [f EXCEPT !.selection = s])
    BY <2>6, SelectionDoes, Zenon
  <2> QED BY <2>4, <2>5, <2>7
<1> QED BY <1>1, <1>2

LEMMA SelectDoes ==
  ASSUME NEW e, EdInv(e)
  PROVE  /\ \A ids, mode : Does(e, SelectIds(e, ids, mode))
         /\ \A from, to, arts : Does(e, SelectRange(e, from, to, arts))
<1>1. \A s : Does(e, [e EXCEPT !.selection = s])
  BY SameDoes, SelectionDoes, Zenon
<1>2. \A ids, mode : \E s : SelectIds(e, ids, mode) = [e EXCEPT !.selection = s]
  BY Zenon DEF SelectIds
<1>3. \A from, to, arts : \E s : SelectRange(e, from, to, arts) = [e EXCEPT !.selection = s]
  BY Zenon DEF SelectRange
<1> QED BY <1>1, <1>2, <1>3

LEMMA WithTimeDoes ==
  ASSUME NEW e, EdInv(e), NEW t
  PROVE  Does(e, WithTime(e, t))
<1>1. \A dt : Does(e, Nudged(e, dt))
  BY NudgedDoes
<1>2. WithTime(e, t) = e \/ \E dt : WithTime(e, t) = Nudged(e, dt)
  BY DEF WithTime
<1> QED BY <1>1, <1>2, SameDoes

\* One hit more, or several, of ids from the next one on.
Fresh(new, id, n) ==
  /\ IsFiniteSet(new) /\ new # {} /\ n \in Nat \ {0}
  /\ \A h \in new : DOMAIN h = HitFields /\ h.id \in Int /\ id <= h.id /\ h.id < id + n

LEMMA MoreDoes ==
  ASSUME NEW e, EdInv(e), NEW new, NEW n, Fresh(new, e.nextId, n), NEW s
  PROVE  Does(e, [Committed(e, e.hits \cup new) EXCEPT !.selection = s, !.nextId = e.nextId + n])
<1>1. PICK H, c, f, m : /\ H = e.hits \cup new /\ c = Committed(e, H) /\ m = e.nextId + n
                        /\ f = [c EXCEPT !.selection = s, !.nextId = m]
  BY Zenon
<1>2. e.nextId \in Int /\ Doc(e.hits, e.nextId) /\ m \in Int /\ m >= e.nextId
  BY <1>1 DEF EdInv, Fresh
<1>3. Doc(H, m)
  <2>1. IsFiniteSet(H)
    BY <1>1, <1>2, FS_Union, Zenon DEF Doc, Fresh
  <2> QED BY <1>1, <1>2, <2>1 DEF Doc, Fresh
<1>4. H # e.hits
  <2>1. PICK h \in new : h.id >= e.nextId /\ h.id \in Int
    BY <1>2 DEF Fresh
  <2>2. h \notin e.hits
    BY <1>2, <2>1 DEF Doc
  <2> QED BY <1>1, <2>2
<1>5. DOMAIN c = Fields /\ c.hits = H
  <2>1. DOMAIN Committed(e, H) = Fields /\ Committed(e, H).hits = H
    BY CommittedIs, ZenonT(60)
  <2> QED BY <1>1, <2>1, Zenon
<1>6. /\ DOMAIN f = Fields /\ f.hits = H /\ f.nextId = m /\ f.changes = c.changes /\ f.future = c.future
      /\ f.clip = c.clip /\ f.past = c.past /\ f.gesture = c.gesture
  BY <1>1, <1>5 DEF Fields
<1>7. Does(e, f)
  <2>1. /\ f.changes = Committed(e, H).changes /\ f.future = Committed(e, H).future
        /\ f.clip = Committed(e, H).clip /\ f.past = Committed(e, H).past /\ f.gesture = Committed(e, H).gesture
    BY <1>1, <1>6
  <2> QED BY <1>2, <1>3, <1>4, <1>6, <2>1, CommittedDoes
<1> QED BY <1>1, <1>7

LEMMA AddedDoes ==
  ASSUME NEW e, EdInv(e), NEW art, NEW t
  PROVE  Does(e, Added(e, art, t))
<1>1. PICK hit : hit = [id |-> e.nextId, art |-> art, t |-> Clamped(t), vel |-> e.lastVel]
  BY Zenon
<1>2. DOMAIN hit = HitFields /\ hit.id = e.nextId /\ e.nextId \in Int
  BY <1>1 DEF HitFields, EdInv
<1>3. PICK c : c = Committed(e, e.hits \cup {hit})
  OBVIOUS
<1>4. c.nextId = e.nextId
  BY <1>3, CommittedIs, Zenon
<1>5. Added(e, art, t) = [c EXCEPT !.selection = <<e.nextId>>, !.nextId = e.nextId + 1]
  BY <1>1, <1>3, <1>4, Zenon DEF Added
<1>6. IsFiniteSet({hit}) /\ {hit} # {}
  BY FS_Singleton
<1>7. Fresh({hit}, e.nextId, 1)
  BY <1>2, <1>6 DEF Fresh
<1>8. \A s : Does(e, [Committed(e, e.hits \cup {hit}) EXCEPT !.selection = s, !.nextId = e.nextId + 1])
  BY <1>7, MoreDoes, Zenon
<1> QED BY <1>3, <1>5, <1>8, Zenon

LEMMA InsertedDoes ==
  ASSUME NEW e, EdInv(e), NEW items, Plain(items), NEW t
  PROVE  Does(e, Inserted(e, items, t))
<1> DEFINE g == [i \in DOMAIN items |-> [id |-> e.nextId + i - 1, art |-> items[i].art,
                                         t |-> Clamped(t + items[i].dt), vel |-> items[i].vel]]
           new == {g[i] : i \in DOMAIN items}
<1>1. CASE items = <<>>
  BY <1>1, SameDoes DEF Inserted
<1>2. CASE items # <<>>
  <2>1. Len(items) \in Nat \ {0} /\ DOMAIN items = 1..Len(items) /\ e.nextId \in Int
    BY <1>2, LenProperties, EmptySeq DEF Plain, EdInv
  <2>2. PICK n : n = Len(items)
    BY Zenon
  <2>3. \A i \in DOMAIN items : DOMAIN g[i] = HitFields /\ g[i].id = e.nextId + i - 1
    BY DEF HitFields
  <2>4. PICK s : s = [i \in DOMAIN items |-> e.nextId + i - 1]
    BY Zenon
  <2>5. new = {[id |-> e.nextId + i - 1, art |-> items[i].art, t |-> Clamped(t + items[i].dt),
                vel |-> items[i].vel] : i \in DOMAIN items}
    OBVIOUS
  <2>6. PICK c : c = Committed(e, e.hits \cup new)
    OBVIOUS
  <2>7. c.nextId = e.nextId
    BY <2>6, CommittedIs, Zenon
  <2>8. Inserted(e, items, t) = [c EXCEPT !.selection = s, !.nextId = e.nextId + n]
    BY <1>2, <2>2, <2>4, <2>5, <2>6, <2>7, Zenon DEF Inserted
  <2>9. g = [i \in DOMAIN items |-> g[i]]
    OBVIOUS
  <2> HIDE DEF g
  <2>10. IsFiniteSet(new)
    <3>1. IsFiniteSet(DOMAIN items)
      BY <2>1, FS_Interval
    <3> QED BY <2>9, <3>1, ImageFinite
  <2>11. new # {} /\ \A h \in new : DOMAIN h = HitFields /\ h.id \in Int /\ e.nextId <= h.id /\ h.id < e.nextId + n
    BY <2>1, <2>2, <2>3
  <2>12. n \in Nat \ {0}
    BY <2>1, <2>2
  <2> HIDE DEF new
  <2>13. Does(e, [Committed(e, e.hits \cup new) EXCEPT !.selection = s, !.nextId = e.nextId + n])
    <3>1. Fresh(new, e.nextId, n)
      BY <2>10, <2>11, <2>12 DEF Fresh
    <3> QED BY <3>1, MoreDoes, Zenon
  <2> QED BY <2>6, <2>8, <2>13
<1> QED BY <1>1, <1>2

LEMMA CopiedDoes ==
  ASSUME NEW e, EdInv(e)
  PROVE  Does(e, Copied(e)) /\ Plain(Copied(e).clip)
<1>1. PICK order : order = InOrder(Selected(e))
  OBVIOUS
<1>2. CASE order = <<>>
  BY <1>1, <1>2, SameDoes, Zenon DEF Copied, EdInv
<1>3. CASE order # <<>>
  <2>1. PICK k : k = Cardinality(Selected(e))
    OBVIOUS
  <2>2. k \in Nat /\ DOMAIN order = 1..k
    <3>1. IsFiniteSet(Selected(e))
      BY FS_Subset DEF Selected, EdInv, Doc
    <3>2. DOMAIN order = 1..k
      BY <1>1, <2>1 DEF InOrder
    <3> QED BY <2>1, <3>1, <3>2, FS_CardinalityType
  <2>3. PICK c : /\ Copied(e) = [e EXCEPT !.clip = c] /\ c = [i \in DOMAIN order |-> c[i]]
    <3> DEFINE item(id) == LET h == Hit(e.hits, id) IN
                           [art |-> h.art, vel |-> h.vel, dt |-> h.t - Hit(e.hits, order[1]).t]
    <3>1. Copied(e) = [e EXCEPT !.clip = [i \in DOMAIN order |-> item(order[i])]]
      BY <1>1, <1>3 DEF Copied
    <3> HIDE DEF item
    <3> QED BY <3>1, Zenon
  <2>4. Plain(c)
    <3>1. c \in [1..k -> ToSet(c)]
      BY <2>2, <2>3 DEF ToSet
    <3> QED BY <2>2, <3>1 DEF Plain
  <2>5. PICK f : f = Copied(e)
    OBVIOUS
  <2>6. /\ DOMAIN f = Fields /\ f.hits = e.hits /\ f.changes = e.changes /\ f.past = e.past /\ f.future = e.future
        /\ f.gesture = e.gesture /\ f.nextId = e.nextId /\ f.clip = c
    BY <2>3, <2>5 DEF EdInv, Fields
  <2> QED BY <2>4, <2>5, <2>6 DEF Does, Keeps
<1> QED BY <1>2, <1>3

-----------------------------------------------------------------------------
(* The page *)

\* The editor goes on as some e, and its history with it.
Moves == \E e : Goes(ed, e) /\ Becomes(e)

LEMMA OperateMoves ==
  ASSUME EdInv(ed), Operate
  PROVE  Moves
<1>1. \A e : Does(ed, e) => Goes(ed, e)
  BY DoesGoes
<1>2. ASSUME NEW e, Goes(ed, e), Do(e)  PROVE Moves
  BY <1>2 DEF Do, Moves
<1>3. CASE Undo
  BY <1>2, <1>3, UndoneGoes DEF Undo
<1>4. CASE Redo
  BY <1>2, <1>4, RedoneGoes DEF Redo
<1>5. CASE DeleteSelection
  BY <1>1, <1>2, <1>5, RemovedDoes DEF DeleteSelection
<1>6. CASE Copy
  BY <1>1, <1>2, <1>6, CopiedDoes DEF Copy
<1>7. CASE Duplicate
  <2>1. PICK t : Do(Inserted(ed, Copied(ed).clip, t))
    BY <1>7 DEF Duplicate
  <2>2. Does(ed, Inserted(ed, Copied(ed).clip, t))
    BY CopiedDoes, InsertedDoes
  <2> QED BY <1>1, <1>2, <2>1, <2>2
<1>8. CASE Compress
  BY <1>1, <1>2, <1>8, CompressedDoes DEF Compress
<1>9. CASE Release
  <2>1. CASE drag.kind = "press"
    BY <1>1, <1>9, <2>1, SameDoes DEF Release, Moves
  <2>2. CASE drag.kind # "press"
    BY <1>9, <2>2, EndedGoes DEF Release, Moves
  <2> QED BY <2>1, <2>2
<1>10. CASE SliderDown
  BY <1>10, BegunKeeps DEF SliderDown, Moves
<1>11. ASSUME NEW dir, NudgeFine(dir) \/ ChangeVel(dir * VelStep)  PROVE Moves
  BY <1>1, <1>2, <1>11, NudgedDoes, VelAddDoes DEF NudgeFine, ChangeVel
<1>12. ASSUME NEW i, SelectAllInView(i)  PROVE Moves
  BY <1>1, <1>2, <1>12, SelectDoes DEF SelectAllInView
<1>13. ASSUME NEW art, SetArt(art)  PROVE Moves
  BY <1>1, <1>2, <1>13, WithArtDoes DEF SetArt
<1>14. ASSUME NEW dir, NEW n, NudgeGrid(dir, n)  PROVE Moves
  <2>1. PICK dt : Do(Nudged(ed, dt))
    BY <1>14 DEF NudgeGrid
  <2> QED BY <1>1, <1>2, <2>1, NudgedDoes
<1>15. ASSUME NEW n, NEW strength, QuantizeSelection(n, strength)  PROVE Moves
  BY <1>1, <1>2, <1>15, QuantizedDoes DEF QuantizeSelection
<1>16. ASSUME NEW t, NEW snap, NEW n, Paste(t, snap, n)  PROVE Moves
  <2>1. PICK u : Do(Inserted(ed, ed.clip, u))
    BY <1>16 DEF Paste
  <2>2. Does(ed, Inserted(ed, ed.clip, u))
    BY InsertedDoes, Zenon DEF EdInv
  <2> QED BY <1>1, <1>2, <2>1, <2>2
<1>17. ASSUME NEW t, NEW snap, NEW n, NEW art, AddHit(art, t, snap, n)  PROVE Moves
  BY <1>1, <1>2, <1>17, AddedDoes DEF AddHit
<1> QED
  BY <1>3, <1>4, <1>5, <1>6, <1>7, <1>8, <1>9, <1>10, <1>11, <1>12, <1>13, <1>14, <1>15, <1>16, <1>17 DEF Operate

LEMMA PointMoves ==
  ASSUME EdInv(ed), Point
  PROVE  Moves
<1>1. \A e : Does(ed, e) => Goes(ed, e)
  BY DoesGoes
<1>2. ASSUME NEW e, Goes(ed, e), Do(e)  PROVE Moves
  BY <1>2 DEF Do, Moves
<1>3. \A e : Does(Begun(ed), e) => Goes(ed, e)
  <2>1. EdInv(Begun(ed)) /\ DocsOf(Begun(ed)) = DocsOf(ed) /\ PlaceOf(Begun(ed)) = PlaceOf(ed) /\ Seen(Begun(ed)) = Seen(ed)
    BY BegunKeeps
  <2>2. \A e : Does(Begun(ed), e) => Goes(Begun(ed), e)
    BY <2>1, DoesGoes
  <2> QED BY <2>1, <2>2 DEF Goes
<1>4. EdInv(Begun(ed))
  BY BegunKeeps
<1>5. ASSUME NEW id, EraseOver(id)  PROVE Moves
  BY <1>1, <1>2, <1>5, RemovedDoes DEF EraseOver
<1>6. ASSUME NEW id, NEW shift, GrabHit(id, shift)  PROVE Moves
  <2>1. PICK mode : Becomes(SelectIds(ed, <<id>>, mode))
    BY <1>6 DEF GrabHit
  <2> QED BY <1>1, <2>1, SelectDoes DEF Moves
<1>7. ASSUME NEW ids, EraseDown(ids)  PROVE Moves
  BY <1>3, <1>4, <1>7, RemovedDoes DEF EraseDown, Moves
<1>8. ASSUME NEW t, SetTime(t)  PROVE Moves
  BY <1>1, <1>2, <1>8, WithTimeDoes DEF SetTime
<1>9. ASSUME NEW t, NEW u, NEW A, NEW shift, Marquee(t, u, A, shift)  PROVE Moves
  <2>1. PICK ids : Do(SelectIds(ed, ids, "replace"))
    BY <1>9 DEF Marquee
  <2> QED BY <1>1, <1>2, <2>1, SelectDoes
<1>10. ASSUME NEW t, NEW i, NEW v, VelDown(t, i, v)  PROVE Moves
  BY <1>3, <1>4, <1>10, VelDrawnDoes DEF VelDown, Moves
<1>11. ASSUME NEW t, NEW i, NEW v, VelOver(t, i, v)  PROVE Moves
  BY <1>1, <1>2, <1>11, VelDrawnDoes DEF VelOver
<1>12. ASSUME NEW v, SliderTo(v)  PROVE Moves
  BY <1>1, <1>2, <1>12, WithVelDoes DEF SliderTo
<1>13. ASSUME NEW dt, NEW art, NEW snap, NEW n, NEW lead, DragTo(dt, art, snap, n, lead)  PROVE Moves
  <2>1. PICK by : Becomes(MovedTo(IF drag.kind = "press" THEN Begun(ed) ELSE ed, drag.base, by, art))
    BY <1>13 DEF DragTo
  <2>2. Does(Begun(ed), MovedTo(Begun(ed), drag.base, by, art)) /\ Does(ed, MovedTo(ed, drag.base, by, art))
    BY <1>4, MovedToDoes
  <2> QED BY <1>1, <1>3, <2>1, <2>2 DEF Moves
<1> QED
  BY <1>5, <1>6, <1>7, <1>8, <1>9, <1>10, <1>11, <1>12, <1>13 DEF Point

\* Every step of the editor is one of its history, and keeps the invariant.
LEMMA EditStepIs ==
  ASSUME EditIInv, EditNext
  PROVE  EditIInv' /\ HistoryGoes(DocsOf(ed), PlaceOf(ed), DocsOf(ed'), PlaceOf(ed'))
<1>1. EdInv(ed) /\ watched = Seen(ed)
  BY DEF EditIInv
<1>2. CASE Moves
  <2>1. Goes(ed, ed') /\ watched' = Watching(watched, ed')
    BY <1>2 DEF Moves, Becomes
  <2>2. EdInv(ed') /\ watched' = Seen(ed')
    BY <1>1, <2>1 DEF Goes
  <2>3. EditIInv'
    BY <2>2, Zenon DEF EditIInv, EdInv, Seen, Doc, Trail, Plain, InGesture
  <2> QED BY <2>1, <2>3 DEF Goes
<1>3. ASSUME NEW H \in Documents, Reload(H)  PROVE EditIInv' /\ HistoryGoes(DocsOf(ed), PlaceOf(ed), DocsOf(ed'), PlaceOf(ed'))
  <2>1. ed' = Loaded(ed, H) /\ watched' = [changes |-> ed'.changes, hits |-> H]
    BY <1>3 DEF Reload
  <2>2. /\ EdInv(ed') /\ HistoryGoes(DocsOf(ed), PlaceOf(ed), DocsOf(ed'), PlaceOf(ed'))
        /\ ed'.hits = H /\ ~ed'.gesture.on
    BY <1>1, <2>1, LoadedGoes
  <2>3. watched' = Seen(ed')
    BY <2>1, <2>2 DEF Seen
  <2> QED BY <2>2, <2>3 DEF EditIInv
<1> QED BY <1>1, <1>2, <1>3, OperateMoves, PointMoves DEF EditNext

-----------------------------------------------------------------------------
(* The kit: the inductive invariant *)

KitPlans == {NewPlan(f, Total, loop) : f \in 0..Total - 1, loop \in Regions}
Clocks == [created : BOOLEAN, playing : BOOLEAN, flushing : BOOLEAN, now : Nat, offset : Nat,
           underruns : Nat, generation : Nat, plan : KitPlans]
Kits == [midi : BOOLEAN, status : {"idle", "loading", "ready", "error"}, stemMuted : BOOLEAN]
Scheds == [alive : BOOLEAN, cursor : Int, generation : Int, underruns : Nat, from : Int, room : Nat,
           since : Int, slow : BOOLEAN]

\* Which hit of which frame of which stream a voice plays.
Key(v) == <<v.of, v.id, v.sf>>

KitTypes ==
  /\ clock \in Clocks /\ clock.offset <= clock.now
  /\ kit \in Kits /\ sched \in Scheds
  /\ kit.stemMuted = (kit.midi /\ clock.created)
  /\ sched.alive = (kit.midi /\ kit.status = "ready" /\ clock.created)
  /\ sched.cursor >= -1 /\ sched.underruns <= clock.underruns
  /\ sched.generation <= clock.generation
  /\ \A h \in plays : h = [id |-> h.id, t |-> h.t]

VoicesQueued ==
  /\ ~sched.alive => voices = {}
  /\ \A v \in voices :
       /\ v.of \in Nat /\ v.of <= clock.generation /\ v.sf \in Int /\ v.when \in Int /\ v.start \in Int
       /\ v.start >= clock.now /\ v.when <= v.start /\ v.t \in 0..Total
       /\ v.when >= clock.now => [id |-> v.id, t |-> v.t] \in plays

\* A stream has nothing queued or heard before it begins, and the scheduler has
\* not seen it.
Begins ==
  clock.flushing =>
    /\ sched.alive => NewGeneration
    /\ clock.underruns = 0 =>
         /\ \A v \in voices : v.of # clock.generation
         /\ \A k \in heard.all : k[1] # clock.generation

\* Without an underrun: what waits was not heard yet, each is queued once, and
\* what is queued or heard of the stream lies before the cursor.
QueuedOnce ==
  clock.underruns = 0 =>
    /\ ~heard.twice
    /\ \A k \in heard.all : k[1] <= clock.generation /\ k[1] \in Int /\ k[3] \in Int
    /\ \A v \in voices : Key(v) \notin heard.all
    /\ \A v, w \in voices : Key(v) = Key(w) => v = w
    /\ Clocked =>
         /\ \A v \in voices : v.of = clock.generation =>
              v.when = v.sf + clock.offset /\ v.start <= v.when + Late
         /\ \A k \in heard.all : k[1] = clock.generation => k[3] < StreamNow
    /\ sched.alive /\ Clocked /\ ~NewGeneration =>
         /\ sched.cursor >= 0
         /\ \A v \in voices : v.of = clock.generation => v.sf < sched.cursor
         /\ \A k \in heard.all : k[1] = clock.generation => k[3] < sched.cursor

\* How far the queue reaches, and that the steady hits before its end are in it
\* or heard.
Covered ==
  \A h \in steady, f \in sched.from..sched.cursor - 1 :
    InPlan(f) /\ SongFrameAt(clock.plan, f) = h.t =>
      \/ <<clock.generation, h.id, f>> \in heard.all
      \/ \E v \in voices : Key(v) = <<clock.generation, h.id, f>>

Reaches ==
  sched.alive /\ Clocked /\ ~NewGeneration /\ clock.underruns = 0 /\ ~sched.slow =>
    /\ steady \subseteq plays
    /\ sched.since = -1 => sched.cursor >= StreamNow + sched.room
    /\ sched.since # -1 => /\ sched.since <= clock.now /\ sched.room <= Late
                           /\ sched.cursor = sched.since - clock.offset
                           /\ sched.cursor >= StreamNow + sched.room - Late
    /\ Covered

\* The inductive invariant of the kit.
KitIInv == KitTypes /\ VoicesQueued /\ Begins /\ QueuedOnce /\ Reaches
-----------------------------------------------------------------------------
(* The kit: the plans it hears *)

LEMMA KitSongs ==
  /\ Total \in Nat \ {0} /\ Lookahead \in Nat \ {0} /\ Late \in Nat /\ Late < Lookahead
  /\ MinLoop \in Nat \ {0}
  BY KitAssumption, PlayPlanAssumption

IsKitLoop(r) ==
  /\ r = [start |-> r.start, end |-> r.end]
  /\ r.start \in 0..Total /\ r.end \in 0..Total /\ r.start < r.end

IsKitPlan(p) ==
  /\ p.start \in 0..Total /\ p.prefix \in 0..Total /\ p.start + p.prefix <= Total
  /\ p.total = Total
  /\ p.loop = NoLoop \/ IsKitLoop(p.loop)

LEMMA KitClampIn == ASSUME NEW x \in Int  PROVE  Clamp(x, Total) \in 0..Total
  BY KitSongs DEF Clamp, Greatest, Least

LEMMA KitLoopIs ==
  ASSUME NEW loop, loop.start \in Int, loop.end \in Int, ValidLoop(loop, Total) # NoLoop
  PROVE  IsKitLoop(ValidLoop(loop, Total))
<1> DEFINE start == Clamp(loop.start, Total)
           end == Clamp(loop.end, Total)
<1>1. start \in 0..Total /\ end \in 0..Total
  BY KitClampIn
<1>2. ~(end - start < MinLoop) /\ ValidLoop(loop, Total) = [start |-> start, end |-> end]
  BY DEF ValidLoop
<1> QED
  BY <1>1, <1>2, KitSongs DEF IsKitLoop

LEMMA KitPlanIs ==
  ASSUME NEW frame \in Int, NEW loop, loop.start \in Int, loop.end \in Int
  PROVE  IsKitPlan(NewPlan(frame, Total, loop))
<1> DEFINE start == Clamp(frame, Total)
           valid == ValidLoop(loop, Total)
<1>1. start \in 0..Total
  BY KitClampIn
<1>2. CASE valid # NoLoop /\ start < valid.end
  <2>1. IsKitLoop(valid)
    BY <1>2, KitLoopIs
  <2>2. NewPlan(frame, Total, loop) =
          [start |-> start, loop |-> valid, prefix |-> valid.end - start,
           length |-> Endless, total |-> Total]
    BY <1>2 DEF NewPlan
  <2> QED
    BY <1>1, <1>2, <2>1, <2>2, KitSongs DEF IsKitPlan, IsKitLoop
<1>3. CASE ~(valid # NoLoop /\ start < valid.end)
  <2>1. NewPlan(frame, Total, loop) =
          [start |-> start, loop |-> NoLoop, prefix |-> Total - start,
           length |-> Total - start, total |-> Total]
    BY <1>3 DEF NewPlan
  <2> QED
    BY <1>1, <2>1, KitSongs DEF IsKitPlan
<1> QED
  BY <1>2, <1>3

LEMMA KitSongFrame ==
  ASSUME NEW p, IsKitPlan(p), NEW x \in Int
  PROVE  SongFrameAt(p, x) \in 0..Total
<1> DEFINE s == Greatest(0, x)
<1>1. s \in Nat
  BY DEF Greatest
<1>2. CASE s < p.prefix
  <2>1. SongFrameAt(p, x) = p.start + s
    BY <1>2 DEF SongFrameAt
  <2> QED
    BY <1>1, <1>2, <2>1, KitSongs DEF IsKitPlan
<1>3. CASE ~(s < p.prefix) /\ p.loop = NoLoop
  <2>1. SongFrameAt(p, x) = p.total
    BY <1>3 DEF SongFrameAt
  <2> QED
    BY <2>1, KitSongs DEF IsKitPlan
<1>4. CASE ~(s < p.prefix) /\ p.loop # NoLoop
  <2>1. SongFrameAt(p, x) = p.loop.start + ((s - p.prefix) % LoopFrames(p))
    BY <1>4 DEF SongFrameAt
  <2>2. IsKitLoop(p.loop) /\ p.prefix \in Int
    BY <1>4 DEF IsKitPlan
  <2>3. LoopFrames(p) \in Nat \ {0} /\ LoopFrames(p) <= Total - p.loop.start
    BY <2>2, KitSongs DEF IsKitLoop, LoopFrames
  <2>4. ((s - p.prefix) % LoopFrames(p)) \in 0..LoopFrames(p) - 1
    <3>1. PICK f \in Nat \ {0} : f = LoopFrames(p)
      BY <2>3
    <3>2. PICK q \in Int : q = s - p.prefix
      BY <1>1, <2>2
    <3>3. (q % f) \in 0..f - 1
      BY SMT
    <3> QED
      BY <3>1, <3>2, <3>3, Zenon
  <2>5. p.loop.start \in 0..Total
    BY <2>2 DEF IsKitLoop
  <2>6. PICK f \in Nat \ {0} : \E o \in 0..f - 1 :
          f = LoopFrames(p) /\ o = (s - p.prefix) % LoopFrames(p)
    BY <2>3, <2>4
  <2> QED
    BY <2>1, <2>3, <2>5, <2>6, KitSongs
<1> QED
  BY <1>2, <1>3, <1>4

LEMMA KitHearsSong ==
  ASSUME KitTypes, NEW f \in Int
  PROVE  SongFrameAt(clock.plan, f) \in 0..Total
<1>1. clock.plan \in KitPlans
  BY DEF KitTypes, Clocks
<1>2. PICK g \in 0..Total - 1, loop \in Regions : clock.plan = NewPlan(g, Total, loop)
  BY <1>1 DEF KitPlans
<1>3. g \in Int /\ loop.start \in Int /\ loop.end \in Int
  BY KitAssumption
<1>4. IsKitPlan(clock.plan)
  BY <1>2, <1>3, KitPlanIs
<1> QED
  BY <1>4, KitSongFrame

-----------------------------------------------------------------------------
(* The kit: its state begins well, and what it promises follows *)

LEMMA KitFields ==
  ASSUME KitTypes
  PROVE  /\ clock.now \in Nat /\ clock.offset \in Nat /\ clock.offset <= clock.now
         /\ clock.underruns \in Nat /\ clock.generation \in Nat
         /\ StreamNow \in Nat /\ StreamNow = clock.now - clock.offset
         /\ sched.cursor \in Int /\ sched.generation \in Int /\ sched.underruns \in Nat
         /\ sched.from \in Int /\ sched.room \in Nat /\ sched.since \in Int
         /\ sched.cursor >= -1 /\ sched.underruns <= clock.underruns
         /\ sched.generation <= clock.generation
  BY DEF KitTypes, Clocks, Scheds, StreamNow

LEMMA KitBegins ==
  ASSUME NEW n, KitInit(n), \A h \in plays : h = [id |-> h.id, t |-> h.t]
  PROVE  KitIInv
<1>1. NewPlan(0, Total, NoLoop) \in KitPlans
  BY KitAssumption DEF KitPlans
<1>2. KitTypes
  <2>1. clock \in Clocks /\ clock.offset <= clock.now /\ clock.underruns = 0 /\ clock.generation = 0
    BY <1>1 DEF KitInit, Clocks
  <2>2. kit \in Kits /\ kit.stemMuted = FALSE /\ kit.midi = FALSE
    BY DEF KitInit, Kits
  <2>3. sched \in Scheds /\ sched.cursor = -1 /\ sched.underruns = 0 /\ sched.generation = -1
    BY DEF KitInit, NoSched, Scheds
  <2>4. sched.alive = FALSE
    BY DEF KitInit, NoSched
  <2>5. /\ kit.stemMuted = (kit.midi /\ clock.created)
        /\ sched.alive = (kit.midi /\ kit.status = "ready" /\ clock.created)
    BY <2>2, <2>4, Zenon
  <2>6. sched.cursor >= -1 /\ sched.underruns <= clock.underruns /\ sched.generation <= clock.generation
    BY <2>1, <2>3
  <2> QED
    BY <2>1, <2>2, <2>3, <2>5, <2>6, Zenon DEF KitTypes
<1>3. VoicesQueued /\ Begins /\ Reaches
  BY DEF KitInit, VoicesQueued, Begins, Reaches, NoSched
<1>4. QueuedOnce
  BY DEF KitInit, QueuedOnce, NoSched
<1> QED
  BY <1>2, <1>3, <1>4 DEF KitIInv

\* What was steady and is not queued any more has been heard.
LEMMA KitMissesNothing == KitIInv => NothingMissed
<1> SUFFICES ASSUME KitIInv, sched.alive, Clocked, ~NewGeneration, clock.underruns = 0, ~sched.slow,
                    NEW h \in steady, NEW f \in sched.from..StreamNow - 1 - Late,
                    InPlan(f), SongFrameAt(clock.plan, f) = h.t,
                    <<clock.generation, h.id, f>> \notin heard.all
             PROVE  FALSE
  BY DEF NothingMissed
<1> USE KitSongs
<1>1. KitTypes /\ VoicesQueued /\ QueuedOnce /\ Reaches
  BY DEF KitIInv
<1>2. /\ clock.now \in Nat /\ clock.offset \in Nat
      /\ StreamNow \in Nat /\ StreamNow = clock.now - clock.offset
      /\ sched.cursor \in Int /\ sched.from \in Int /\ sched.room \in Nat
  BY <1>1, KitFields
<1>3. Covered /\ sched.cursor >= StreamNow - Late
  BY <1>1, <1>2 DEF Reaches
<1>4. f \in Int /\ f <= StreamNow - 1 - Late /\ f \in sched.from..sched.cursor - 1
  BY <1>2, <1>3
<1>5. PICK v \in voices : Key(v) = <<clock.generation, h.id, f>>
  BY <1>3, <1>4, Zenon DEF Covered
<1>6. v.of = clock.generation /\ v.sf = f
  BY <1>5 DEF Key
<1>7. v.when = v.sf + clock.offset /\ v.start <= v.when + Late
  BY <1>1, <1>6 DEF QueuedOnce
<1>8. v.start >= clock.now /\ v.start \in Int /\ v.when \in Int
  BY <1>1, Zenon DEF VoicesQueued
<1> QED
  BY <1>2, <1>4, <1>6, <1>7, <1>8

LEMMA KitPromises == KitIInv => KitInv
<1> SUFFICES ASSUME KitIInv  PROVE  KitInv
  OBVIOUS
<1>1. KitTypes /\ VoicesQueued /\ QueuedOnce
  BY DEF KitIInv
<1>2. KitTypeOK
  <2>1. clock.now \in Nat /\ clock.offset \in Nat /\ (sched.cursor = -1 \/ sched.cursor >= 0)
    BY <1>1, KitFields
  <2>2. \A v \in voices : v.start >= clock.now /\ v.t \in 0..Total
    BY <1>1, Zenon DEF VoicesQueued
  <2>3. sched.alive => kit.status = "ready" /\ clock.created
    BY <1>1, Zenon DEF KitTypes
  <2> QED
    BY <2>1, <2>2, <2>3, Zenon DEF KitTypeOK
<1>3. OncePerPass
  BY <1>1 DEF QueuedOnce, OncePerPass
<1>4. NothingStale
  BY <1>1 DEF VoicesQueued, NothingStale
<1>5. StemOrKit
  <2>1. kit.stemMuted = (kit.midi /\ clock.created)
    BY <1>1, Zenon DEF KitTypes
  <2>2. sched.alive = (kit.midi /\ kit.status = "ready" /\ clock.created)
    BY <1>1, Zenon DEF KitTypes
  <2>3. ~sched.alive => voices = {}
    BY <1>1, Zenon DEF VoicesQueued
  <2> QED
    BY <2>1, <2>2, <2>3, Zenon DEF StemOrKit
<1> QED
  BY <1>2, <1>3, <1>4, <1>5, KitMissesNothing DEF KitInv

-----------------------------------------------------------------------------
(* The kit: each step keeps it *)

LEMMA KitStands == ASSUME KitIInv, UNCHANGED kitVars  PROVE  KitIInv'
<1> USE DEF kitVars
<1>1. KitTypes'
  BY DEF KitIInv, KitTypes
<1>2. VoicesQueued' /\ Begins'
  BY DEF KitIInv, VoicesQueued, Begins, NewGeneration
<1>3. QueuedOnce'
  BY DEF KitIInv, QueuedOnce, Clocked, NewGeneration, StreamNow, Key
<1>4. Reaches'
  BY DEF KitIInv, Reaches, Covered, Clocked, NewGeneration, StreamNow, Key, InPlan
<1> QED
  BY <1>1, <1>2, <1>3, <1>4 DEF KitIInv

\* A frame of audio, with the stream, without one, or as an underrun.
LEMMA KitRuns ==
  ASSUME KitIInv, NEW o \in {clock.offset, clock.offset + 1},
         NEW u \in {clock.underruns, clock.underruns + 1},
         u = 0 /\ Clocked => o = clock.offset,
         Runs([clock EXCEPT !.now = @ + 1, !.offset = o, !.underruns = u])
  PROVE  KitIInv'
<1> USE KitSongs
<1>1. KitTypes /\ VoicesQueued /\ Begins /\ QueuedOnce /\ Reaches
  BY DEF KitIInv
<1>2. /\ clock.now \in Nat /\ clock.offset \in Nat /\ clock.offset <= clock.now
      /\ clock.underruns \in Nat /\ clock.generation \in Nat
      /\ StreamNow \in Nat /\ StreamNow = clock.now - clock.offset
      /\ sched.cursor \in Int /\ sched.generation \in Int /\ sched.underruns \in Nat
      /\ sched.from \in Int /\ sched.room \in Nat /\ sched.since \in Int
      /\ sched.cursor >= -1 /\ sched.underruns <= clock.underruns
      /\ sched.generation <= clock.generation
  BY <1>1, KitFields
<1>3. clock \in Clocks /\ sched \in Scheds
  BY <1>1 DEF KitTypes
<1>4. /\ clock' = [clock EXCEPT !.now = @ + 1, !.offset = o, !.underruns = u]
      /\ voices' = voices \ Sounding
      /\ heard' = [all |-> heard.all \cup {<<v.of, v.id, v.sf>> : v \in Sounding},
                   twice |-> heard.twice \/ \E v \in Sounding : <<v.of, v.id, v.sf>> \in heard.all]
      /\ sched' = [sched EXCEPT !.room = Greatest(0, @ - 1), !.slow = @ \/ sched.room = 0]
      /\ UNCHANGED <<kit, plays, steady>>
  BY DEF Runs
<1>5. /\ clock'.now = clock.now + 1 /\ clock'.offset = o /\ clock'.underruns = u
      /\ clock'.created = clock.created /\ clock'.playing = clock.playing
      /\ clock'.flushing = clock.flushing /\ clock'.generation = clock.generation
      /\ clock'.plan = clock.plan
  BY <1>3, <1>4 DEF Clocks
<1>6. /\ sched'.room = Greatest(0, sched.room - 1) /\ sched'.alive = sched.alive
      /\ sched'.cursor = sched.cursor /\ sched'.generation = sched.generation
      /\ sched'.underruns = sched.underruns /\ sched'.from = sched.from /\ sched'.since = sched.since
  BY <1>3, <1>4 DEF Scheds
<1>7. sched'.slow = (sched.slow \/ sched.room = 0)
  BY <1>3, <1>4 DEF Scheds
<1>8. (Clocked' <=> Clocked) /\ (NewGeneration' <=> NewGeneration) /\ StreamNow' = clock.now + 1 - o
  <2>1. (Clocked' <=> Clocked) /\ (NewGeneration' <=> NewGeneration)
    BY <1>5, <1>6, Zenon DEF Clocked, NewGeneration
  <2>2. StreamNow' = clock'.now - clock'.offset
    BY DEF StreamNow
  <2>3. clock'.now - clock'.offset = clock.now + 1 - o
    BY <1>2, <1>5
  <2> QED
    BY <2>1, <2>2, <2>3, Zenon
<1>9. ASSUME NEW v \in voices'  PROVE  v \in voices /\ v.start > clock.now
  <2>1. v \in voices /\ v.start # clock.now
    BY <1>4, Zenon DEF Sounding
  <2>2. v.start \in Int /\ v.start >= clock.now
    BY <1>1, <2>1, Zenon DEF VoicesQueued
  <2> QED
    BY <1>2, <2>1, <2>2
<1>10. \A k \in heard'.all : k \in heard.all \/ \E v \in Sounding : k = Key(v)
  BY <1>4 DEF Key
<1>11. KitTypes'
  <2>1. clock' \in Clocks /\ clock'.offset <= clock'.now
    <3>1. o \in Nat /\ u \in Nat /\ clock.now + 1 \in Nat /\ o <= clock.now + 1
      BY <1>2
    <3>2. clock' \in Clocks
      BY <1>3, <1>4, <3>1, Zenon DEF Clocks
    <3> QED
      BY <1>5, <3>1, <3>2, Zenon
  <2>2. sched' \in Scheds
    <3>1. Greatest(0, sched.room - 1) \in Nat
      BY <1>2 DEF Greatest
    <3>2. (sched.slow \/ sched.room = 0) \in BOOLEAN
      BY Zenon
    <3> QED
      BY <1>3, <1>4, <3>1, <3>2, Zenon DEF Scheds
  <2>3. sched'.cursor >= -1 /\ sched'.underruns <= clock'.underruns /\ sched'.generation <= clock'.generation
    BY <1>2, <1>5, <1>6
  <2> QED
    BY <1>1, <1>4, <1>5, <1>6, <2>1, <2>2, <2>3, Zenon DEF KitTypes
<1>12. VoicesQueued'
  <2>1. ~sched'.alive => voices' = {}
    BY <1>1, <1>4, <1>6 DEF VoicesQueued
  <2> SUFFICES ASSUME NEW v \in voices'
               PROVE  /\ v.of \in Nat /\ v.of <= clock'.generation /\ v.sf \in Int /\ v.when \in Int
                      /\ v.start \in Int /\ v.start >= clock'.now /\ v.when <= v.start /\ v.t \in 0..Total
                      /\ v.when >= clock'.now => [id |-> v.id, t |-> v.t] \in plays
    BY <1>4, <2>1 DEF VoicesQueued
  <2> QED
    BY <1>1, <1>2, <1>5, <1>9 DEF VoicesQueued
<1>13. Begins'
  <2> SUFFICES ASSUME clock.flushing
               PROVE  /\ sched.alive => NewGeneration
                      /\ u = 0 => /\ \A v \in voices' : v.of # clock.generation
                                  /\ \A k \in heard'.all : k[1] # clock.generation
    BY <1>5, <1>6, <1>8 DEF Begins
  <2>1. u = 0 => clock.underruns = 0
    BY <1>2
  <2> QED
    BY <1>1, <1>9, <1>10, <2>1 DEF Begins, Key, Sounding
<1>14. ASSUME u = 0  PROVE  QueuedOnce' /\ Reaches'
  <2>1. clock.underruns = 0 /\ clock'.underruns = 0 /\ (Clocked => o = clock.offset)
    BY <1>2, <1>5, <1>14
  <2>2. \A v \in voices : Key(v) \notin heard.all
    BY <1>1, <2>1 DEF QueuedOnce
  <2>3. ~heard'.twice
    BY <1>1, <1>4, <2>1, <2>2, Zenon DEF QueuedOnce, Sounding, Key
  <2>4. \A k \in heard'.all : k[1] <= clock'.generation /\ k[1] \in Int /\ k[3] \in Int
    <3>1. \A k \in heard.all : k[1] <= clock.generation /\ k[1] \in Int /\ k[3] \in Int
      BY <1>1, <2>1 DEF QueuedOnce
    <3>2. \A v \in voices : v.of \in Nat /\ v.of <= clock.generation /\ v.sf \in Int
      BY <1>1, Zenon DEF VoicesQueued
    <3> QED
      BY <1>5, <1>10, <3>1, <3>2 DEF Key, Sounding
  <2>5. \A v, w \in voices : Key(v) = Key(w) => v = w
    BY <1>1, <2>1 DEF QueuedOnce
  <2>6. \A v \in voices' : Key(v) \notin heard'.all
    BY <1>4, <1>9, <1>10, <2>2, <2>5, Zenon DEF Sounding
  <2>7. ASSUME Clocked
        PROVE  /\ \A v \in voices' : v.of = clock'.generation =>
                    v.when = v.sf + clock'.offset /\ v.start <= v.when + Late
               /\ \A k \in heard'.all : k[1] = clock'.generation => k[3] < StreamNow'
    <3>1. \A v \in voices : v.of = clock.generation =>
            v.when = v.sf + clock.offset /\ v.start <= v.when + Late
      BY <1>1, <2>1, <2>7 DEF QueuedOnce
    <3>2. \A k \in heard.all : k[1] = clock.generation => k[3] < StreamNow /\ k[3] \in Int
      BY <1>1, <2>1, <2>7 DEF QueuedOnce
    <3>3. \A v \in Sounding : v.of = clock.generation => v.sf \in Int /\ v.sf <= StreamNow
      <4> SUFFICES ASSUME NEW v \in voices, v.start = clock.now, v.of = clock.generation
                   PROVE  v.sf \in Int /\ v.sf <= StreamNow
        BY DEF Sounding
      <4>1. v.sf \in Int /\ v.when \in Int /\ v.when <= v.start
        BY <1>1, Zenon DEF VoicesQueued
      <4>2. v.when = v.sf + clock.offset
        BY <3>1
      <4> QED
        BY <1>2, <4>1, <4>2
    <3>4. StreamNow' = StreamNow + 1
      BY <1>2, <1>8, <2>1, <2>7
    <3>5. \A k \in heard'.all : k[1] = clock.generation => k[3] < StreamNow'
      BY <1>2, <1>10, <3>2, <3>3, <3>4 DEF Key
    <3> QED
      BY <1>5, <1>9, <2>1, <2>7, <3>1, <3>5
  <2>8. ASSUME sched.alive, Clocked, ~NewGeneration
        PROVE  /\ sched'.cursor >= 0
               /\ \A v \in voices' : v.of = clock'.generation => v.sf < sched'.cursor
               /\ \A k \in heard'.all : k[1] = clock'.generation => k[3] < sched'.cursor
    <3>1. /\ sched.cursor >= 0
          /\ \A v \in voices : v.of = clock.generation => v.sf < sched.cursor
          /\ \A k \in heard.all : k[1] = clock.generation => k[3] < sched.cursor
      BY <1>1, <2>1, <2>8 DEF QueuedOnce
    <3> QED
      BY <1>5, <1>6, <1>9, <1>10, <3>1 DEF Key, Sounding
  <2>9. QueuedOnce'
    <3>1. \A v, w \in voices' : Key(v) = Key(w) => v = w
      BY <1>9, <2>5
    <3>2. sched'.alive /\ Clocked' /\ ~NewGeneration' =>
         /\ sched'.cursor >= 0
         /\ \A v \in voices' : v.of = clock'.generation => v.sf < sched'.cursor
         /\ \A k \in heard'.all : k[1] = clock'.generation => k[3] < sched'.cursor
      BY <1>6, <1>8, <2>8, Zenon
    <3>3. Clocked' =>
         /\ \A v \in voices' : v.of = clock'.generation =>
              v.when = v.sf + clock'.offset /\ v.start <= v.when + Late
         /\ \A k \in heard'.all : k[1] = clock'.generation => k[3] < StreamNow'
      BY <1>8, <2>7, Zenon
    <3> QED
      BY <2>3, <2>4, <2>6, <3>1, <3>2, <3>3, Zenon DEF QueuedOnce, Key
  <2>10. ASSUME sched.alive, Clocked, ~NewGeneration, ~sched'.slow
         PROVE  /\ steady \subseteq plays
                /\ sched.since = -1 => sched.cursor >= StreamNow' + sched'.room
                /\ sched.since # -1 => /\ sched.since <= clock'.now /\ sched'.room <= Late
                                       /\ sched.cursor = sched.since - clock'.offset
                                       /\ sched.cursor >= StreamNow' + sched'.room - Late
                /\ Covered'
    <3>1. ~sched.slow /\ sched.room # 0
      BY <1>7, <2>10, Zenon
    <3>2. /\ steady \subseteq plays
          /\ sched.since = -1 => sched.cursor >= StreamNow + sched.room
          /\ sched.since # -1 => /\ sched.since <= clock.now /\ sched.room <= Late
                                 /\ sched.cursor = sched.since - clock.offset
                                 /\ sched.cursor >= StreamNow + sched.room - Late
          /\ Covered
      BY <1>1, <2>1, <2>10, <3>1, Zenon DEF Reaches
    <3>3. StreamNow' = StreamNow + 1 /\ sched'.room = sched.room - 1 /\ o = clock.offset
      BY <1>2, <1>6, <1>8, <2>1, <2>10, <3>1 DEF Greatest
    <3>4. /\ sched.since = -1 => sched.cursor >= StreamNow' + sched'.room
          /\ sched.since # -1 => /\ sched.since <= clock'.now /\ sched'.room <= Late
                                 /\ sched.cursor = sched.since - clock'.offset
                                 /\ sched.cursor >= StreamNow' + sched'.room - Late
      BY <1>2, <1>5, <3>2, <3>3
    <3>5. Covered'
      <4> SUFFICES ASSUME NEW h \in steady', NEW f \in (sched.from..sched.cursor - 1)',
                          InPlan(f)', (SongFrameAt(clock.plan, f) = h.t)'
                   PROVE  \/ <<clock'.generation, h.id, f>> \in heard'.all
                          \/ \E v \in voices' : Key(v) = <<clock'.generation, h.id, f>>
        BY Zenon DEF Covered, Key
      <4>1. /\ steady' = steady /\ sched'.from = sched.from /\ sched'.cursor = sched.cursor
            /\ clock'.plan = clock.plan /\ clock'.generation = clock.generation
        BY <1>4, <1>5, <1>6, Zenon
      <4>2. h \in steady /\ f \in sched.from..sched.cursor - 1 /\ SongFrameAt(clock.plan, f) = h.t
        BY <4>1, Zenon
      <4>3. InPlan(f)
        BY <4>1, Zenon DEF InPlan
      <4>4. CASE <<clock.generation, h.id, f>> \in heard.all
        BY <1>4, <4>1, <4>4
      <4>5. CASE \E v \in voices : Key(v) = <<clock.generation, h.id, f>>
        <5>1. PICK v \in voices : Key(v) = <<clock.generation, h.id, f>>
          BY <4>5
        <5>2. CASE v \in Sounding
          BY <1>4, <4>1, <5>1, <5>2 DEF Key
        <5>3. CASE v \notin Sounding
          BY <1>4, <4>1, <5>1, <5>3
        <5> QED
          BY <5>2, <5>3
      <4> QED
        BY <3>2, <4>2, <4>3, <4>4, <4>5, Zenon DEF Covered
    <3> QED
      BY <3>2, <3>4, <3>5
  <2>11. Reaches'
    BY <1>4, <1>6, <1>8, <2>10, Zenon DEF Reaches
  <2> QED
    BY <2>9, <2>11
<1>15. ASSUME u # 0  PROVE  QueuedOnce' /\ Reaches'
  BY <1>5, <1>15, Zenon DEF QueuedOnce, Reaches
<1> QED
  BY <1>11, <1>12, <1>13, <1>14, <1>15 DEF KitIInv

\* The scheduler after a tick.
LEMMA KitTicked ==
  ASSUME sched \in Scheds
  PROVE  /\ Ticked \in Scheds /\ Ticked.alive = sched.alive /\ Ticked.from = sched.from
         /\ Ticked.underruns = sched.underruns /\ Ticked.generation = sched.generation
         /\ Ticked.room = Lookahead /\ Ticked.since = -1
         /\ Ticked.slow = (sched.slow /\ ~NewGeneration)
<1>1. (sched.slow /\ ~NewGeneration) \in BOOLEAN
  BY Zenon
<1>2. Ticked.slow = (sched.slow /\ ~NewGeneration)
  BY DEF Ticked, Scheds
<1>3. PICK b \in BOOLEAN : b = (sched.slow /\ ~NewGeneration)
  BY <1>1, Zenon
<1>4. Ticked = [sched EXCEPT !.room = Lookahead, !.since = -1, !.slow = b]
  BY <1>3, Zenon DEF Ticked
<1>5. Lookahead \in Nat /\ -1 \in Int
  BY KitSongs
<1>6. Ticked \in Scheds
  BY <1>4, <1>5, Zenon DEF Scheds
<1>7. /\ Ticked.alive = sched.alive /\ Ticked.from = sched.from
      /\ Ticked.underruns = sched.underruns /\ Ticked.generation = sched.generation
      /\ Ticked.room = Lookahead /\ Ticked.since = -1
  BY <1>4 DEF Scheds
<1> QED
  BY <1>2, <1>6, <1>7, Zenon

LEMMA KitIdles == ASSUME KitIInv, TickIdle  PROVE  KitIInv'
<1>1. KitTypes /\ VoicesQueued /\ Begins /\ QueuedOnce
  BY DEF KitIInv
<1>2. clock.generation \in Nat /\ clock.underruns \in Nat /\ sched.underruns <= clock.underruns
  BY <1>1, KitFields
<1>3. /\ ~Clocked /\ voices' = {} /\ UNCHANGED <<clock, kit, plays, heard, steady>>
      /\ sched' = [Ticked EXCEPT !.cursor = -1, !.generation = -1]
  BY DEF TickIdle
<1>4. sched \in Scheds
  BY <1>1 DEF KitTypes
<1>5. /\ sched' \in Scheds /\ sched'.alive = sched.alive /\ sched'.underruns = sched.underruns
      /\ sched'.cursor = -1 /\ sched'.generation = -1
  BY <1>3, <1>4, KitTicked, Zenon DEF Scheds
<1>6. ~Clocked'
  BY <1>3, Zenon DEF Clocked
<1>7. KitTypes'
  <2>1. sched'.cursor >= -1 /\ sched'.underruns <= clock'.underruns /\ sched'.generation <= clock'.generation
    BY <1>2, <1>3, <1>5
  <2> QED
    BY <1>1, <1>3, <1>5, <2>1, Zenon DEF KitTypes
<1>8. VoicesQueued'
  BY <1>3 DEF VoicesQueued
<1>9. Begins'
  <2>1. clock'.generation # sched'.generation
    BY <1>2, <1>3, <1>5
  <2> QED
    BY <1>1, <1>3, <2>1 DEF Begins, NewGeneration
<1>10. QueuedOnce' /\ Reaches'
  BY <1>1, <1>3, <1>6 DEF QueuedOnce, Reaches
<1> QED
  BY <1>7, <1>8, <1>9, <1>10 DEF KitIInv

LEMMA KitStalls == ASSUME KitIInv, TickStalled  PROVE  KitIInv'
<1>1. KitTypes /\ VoicesQueued
  BY DEF KitIInv
<1>2. /\ clock.generation \in Nat /\ clock.underruns \in Nat /\ sched.underruns \in Nat
      /\ sched.underruns <= clock.underruns /\ StreamNow \in Nat
      /\ sched.generation <= clock.generation
  BY <1>1, KitFields
<1>3. /\ sched.alive /\ Clocked /\ Stalled
      /\ voices' = KeptFrom(clock.now)
      /\ sched' = [Ticked EXCEPT !.underruns = clock.underruns, !.cursor = StreamNow]
      /\ UNCHANGED <<clock, kit, plays, heard, steady, frames>>
  BY DEF TickStalled
<1>4. sched \in Scheds
  BY <1>1 DEF KitTypes
<1>5. /\ sched' \in Scheds /\ sched'.alive = sched.alive /\ sched'.underruns = clock.underruns
      /\ sched'.cursor = StreamNow /\ sched'.generation = sched.generation
  <2>1. Ticked \in Scheds /\ Ticked.alive = sched.alive /\ Ticked.generation = sched.generation
    BY <1>4, KitTicked
  <2>2. StreamNow \in Int /\ clock.underruns \in Nat
    BY <1>2
  <2>3. sched' = [Ticked EXCEPT !.underruns = clock.underruns, !.cursor = StreamNow]
    BY <1>3
  <2>4. sched' \in Scheds
    BY <2>1, <2>2, <2>3, Zenon DEF Scheds
  <2> QED
    BY <2>1, <2>3, <2>4 DEF Scheds
<1>6. clock'.underruns # 0
  BY <1>2, <1>3 DEF Stalled
<1>7. KitTypes'
  <2>1. sched'.cursor >= -1 /\ sched'.underruns <= clock'.underruns /\ sched'.generation <= clock'.generation
    BY <1>2, <1>3, <1>5
  <2> QED
    BY <1>1, <1>3, <1>5, <2>1, Zenon DEF KitTypes
<1>8. VoicesQueued'
  BY <1>1, <1>3, <1>5, Zenon DEF VoicesQueued, KeptFrom
<1>9. Begins' /\ QueuedOnce' /\ Reaches'
  BY <1>3, <1>6, Zenon DEF Begins, QueuedOnce, Reaches, Clocked
<1> QED
  BY <1>7, <1>8, <1>9 DEF KitIInv

\* A tick queues what comes until the horizon, from where the last one ended.
LEMMA KitTicks == ASSUME KitIInv, Tick  PROVE  KitIInv'
<1> USE KitSongs
<1> DEFINE cursor == Resumed(IF NewGeneration THEN -1 ELSE sched.cursor)
           horizon == StreamNow + Lookahead
           old == IF NewGeneration THEN {} ELSE voices
           new == Voices(cursor, horizon)
<1>1. KitTypes /\ VoicesQueued /\ Begins /\ QueuedOnce /\ Reaches
  BY DEF KitIInv
<1>2. /\ clock.now \in Nat /\ clock.offset \in Nat /\ clock.offset <= clock.now
      /\ clock.underruns \in Nat /\ clock.generation \in Nat
      /\ StreamNow \in Nat /\ StreamNow = clock.now - clock.offset
      /\ sched.cursor \in Int /\ sched.generation \in Int /\ sched.underruns \in Nat
      /\ sched.from \in Int /\ sched.room \in Nat /\ sched.since \in Int
      /\ sched.cursor >= -1 /\ sched.underruns <= clock.underruns
      /\ sched.generation <= clock.generation
  BY <1>1, KitFields
<1>3. clock \in Clocks /\ sched \in Scheds /\ \A h \in plays : h = [id |-> h.id, t |-> h.t]
  BY <1>1, Zenon DEF KitTypes
<1>4. /\ sched.alive /\ Clocked /\ ~Stalled
      /\ voices' = old \cup new
      /\ sched' = [Ticked EXCEPT !.generation = clock.generation, !.underruns = clock.underruns,
                                 !.cursor = Greatest(cursor, horizon),
                                 !.from = IF NewGeneration THEN StreamNow ELSE @]
      /\ steady' = IF NewGeneration THEN plays ELSE steady
      /\ UNCHANGED <<clock, kit, plays, heard, frames>>
  BY DEF Tick
<1>5. /\ cursor \in Int /\ cursor >= StreamNow - Late
      /\ NewGeneration => cursor = StreamNow
      /\ ~NewGeneration /\ sched.cursor >= 0 => cursor >= sched.cursor
      /\ ~NewGeneration /\ sched.cursor >= 0 /\ sched.cursor >= StreamNow - Late => cursor = sched.cursor
      /\ cursor >= 0
  BY <1>2 DEF Resumed, Greatest
<1>6. /\ Greatest(cursor, horizon) \in Nat /\ Greatest(cursor, horizon) >= cursor
      /\ Greatest(cursor, horizon) >= horizon /\ horizon \in Nat
      /\ Greatest(cursor, horizon) \in {cursor, horizon}
  BY <1>2, <1>5 DEF Greatest
<1> HIDE DEF cursor
<1>7. (IF NewGeneration THEN StreamNow ELSE sched.from) \in Int
  BY <1>2
<1>8. /\ sched' \in Scheds /\ sched'.alive = sched.alive /\ sched'.underruns = clock.underruns
      /\ sched'.generation = clock.generation /\ sched'.cursor = Greatest(cursor, horizon)
      /\ sched'.from = (IF NewGeneration THEN StreamNow ELSE sched.from)
      /\ sched'.room = Lookahead /\ sched'.since = -1
  <2>1. /\ Ticked \in Scheds /\ Ticked.alive = sched.alive /\ Ticked.from = sched.from
        /\ Ticked.room = Lookahead /\ Ticked.since = -1
    BY <1>3, KitTicked
  <2>2. sched' = [Ticked EXCEPT !.generation = clock.generation, !.underruns = clock.underruns,
                                !.cursor = Greatest(cursor, horizon),
                                !.from = IF NewGeneration THEN StreamNow ELSE sched.from]
    BY <1>4, <2>1, Zenon
  <2> HIDE DEF horizon
  <2>3. sched' \in Scheds
    <3>1. /\ clock.generation \in Int /\ clock.underruns \in Nat
          /\ Greatest(cursor, horizon) \in Int
          /\ (IF NewGeneration THEN StreamNow ELSE sched.from) \in Int
      BY <1>2, <1>6, <1>7
    <3> QED
      BY <2>1, <2>2, <3>1, Zenon DEF Scheds
  <2>4. /\ sched'.alive = Ticked.alive /\ sched'.underruns = clock.underruns
        /\ sched'.generation = clock.generation /\ sched'.cursor = Greatest(cursor, horizon)
        /\ sched'.from = (IF NewGeneration THEN StreamNow ELSE sched.from)
        /\ sched'.room = Ticked.room /\ sched'.since = Ticked.since
    BY <2>1, <2>2 DEF Scheds
  <2> QED
    BY <2>1, <2>3, <2>4, Zenon
<1>9. sched'.slow = (sched.slow /\ ~NewGeneration)
  BY <1>3, <1>4, KitTicked DEF Scheds
<1>10. ASSUME NEW v \in new
       PROVE  \E h \in plays, f \in cursor..horizon - 1 :
                /\ SongFrameAt(clock.plan, f) = h.t
                /\ v = [id |-> h.id, t |-> h.t, of |-> clock.generation, sf |-> f,
                        when |-> clock.now + f - StreamNow, start |-> StartOf(clock.now + f - StreamNow)]
  BY Zenon DEF Voices
<1>11. ASSUME NEW v \in new
       PROVE  /\ v.of = clock.generation /\ v.sf \in Int /\ v.sf >= cursor /\ v.sf < horizon
              /\ v.when = v.sf + clock.offset /\ v.start \in Int /\ v.start >= clock.now
              /\ v.when <= v.start /\ v.start <= v.when + Late
              /\ v.t = SongFrameAt(clock.plan, v.sf) /\ v.t \in 0..Total
              /\ [id |-> v.id, t |-> v.t] \in plays
              /\ v = [id |-> v.id, t |-> v.t, of |-> v.of, sf |-> v.sf, when |-> v.when, start |-> v.start]
  <2>1. PICK h \in plays, f \in cursor..horizon - 1 :
                /\ SongFrameAt(clock.plan, f) = h.t
                /\ v = [id |-> h.id, t |-> h.t, of |-> clock.generation, sf |-> f,
                        when |-> clock.now + f - StreamNow, start |-> StartOf(clock.now + f - StreamNow)]
    BY <1>10
  <2>2. /\ v.of = clock.generation /\ v.sf = f /\ v.id = h.id /\ v.t = h.t
        /\ v.when = clock.now + f - StreamNow /\ v.start = StartOf(clock.now + f - StreamNow)
        /\ v = [id |-> v.id, t |-> v.t, of |-> v.of, sf |-> v.sf, when |-> v.when, start |-> v.start]
    BY <2>1
  <2>3. f \in Int /\ f >= cursor /\ f < horizon
    BY <1>5, <1>6
  <2>4. v.when = f + clock.offset /\ v.when \in Int
    BY <1>2, <2>2, <2>3
  <2>5. /\ v.start \in Int /\ v.start >= clock.now
        /\ v.when <= v.start /\ v.start <= v.when + Late
    BY <1>2, <1>5, <2>2, <2>3, <2>4 DEF StartOf, Greatest
  <2>6. SongFrameAt(clock.plan, f) \in 0..Total
    BY <1>1, <2>3, KitHearsSong
  <2>7. [id |-> v.id, t |-> v.t] \in plays
    BY <1>3, <2>2
  <2> QED
    BY <2>1, <2>2, <2>3, <2>4, <2>5, <2>6, <2>7, Zenon
<1> HIDE DEF new
<1>12. KitTypes'
  <2>1. sched'.cursor >= -1 /\ sched'.underruns <= clock'.underruns /\ sched'.generation <= clock'.generation
    BY <1>2, <1>4, <1>6, <1>8
  <2> QED
    BY <1>1, <1>4, <1>8, <2>1, Zenon DEF KitTypes
<1>13. VoicesQueued'
  <2> SUFFICES ASSUME NEW v \in voices'
               PROVE  /\ v.of \in Nat /\ v.of <= clock.generation /\ v.sf \in Int /\ v.when \in Int
                      /\ v.start \in Int /\ v.start >= clock.now /\ v.when <= v.start /\ v.t \in 0..Total
                      /\ v.when >= clock.now => [id |-> v.id, t |-> v.t] \in plays
    BY <1>4, <1>8, Zenon DEF VoicesQueued
  <2>1. CASE v \in new
    BY <1>2, <1>11, <2>1
  <2>2. CASE v \in voices
    BY <1>1, <2>2, Zenon DEF VoicesQueued
  <2> QED
    BY <1>4, <2>1, <2>2
<1>14. Begins'
  BY <1>4, Zenon DEF Begins, Clocked
<1>15. ASSUME clock.underruns = 0  PROVE  QueuedOnce' /\ Reaches'
  <2>1. /\ \A k \in heard.all : k[1] <= clock.generation /\ k[1] \in Int /\ k[3] \in Int
        /\ \A v \in voices : Key(v) \notin heard.all
        /\ \A v, w \in voices : Key(v) = Key(w) => v = w
        /\ \A v \in voices : v.of = clock.generation =>
              v.when = v.sf + clock.offset /\ v.start <= v.when + Late
        /\ \A k \in heard.all : k[1] = clock.generation => k[3] < StreamNow
    BY <1>1, <1>4, <1>15, Zenon DEF QueuedOnce
  <2>2. ~NewGeneration => /\ sched.cursor >= 0
                          /\ \A v \in voices : v.of = clock.generation => v.sf < sched.cursor
                          /\ \A k \in heard.all : k[1] = clock.generation => k[3] < sched.cursor
    BY <1>1, <1>4, <1>15, Zenon DEF QueuedOnce
  <2>3. \A k \in heard.all : k[1] = clock.generation => k[3] < cursor
    BY <1>2, <1>5, <2>1, <2>2
  <2>4. \A v \in old : v \in voices /\ v.sf \in Int /\ (v.of = clock.generation => v.sf < cursor)
    <3> SUFFICES ASSUME NEW v \in voices, ~NewGeneration
                 PROVE  v.sf \in Int /\ (v.of = clock.generation => v.sf < cursor)
      OBVIOUS
    <3>1. v.sf \in Int
      BY <1>1, Zenon DEF VoicesQueued
    <3> QED
      BY <1>2, <1>5, <2>2, <3>1
  <2>5. \A v \in voices' : Key(v) \notin heard.all
    <3> SUFFICES ASSUME NEW v \in new, Key(v) \in heard.all  PROVE  FALSE
      BY <1>4, <2>1
    <3>1. Key(v)[1] = v.of /\ Key(v)[3] = v.sf
      BY DEF Key
    <3>2. v.of = clock.generation /\ v.sf \in Int /\ v.sf >= cursor
      BY <1>11, Zenon
    <3>3. Key(v)[3] < cursor
      BY <2>3, <3>1, <3>2
    <3> QED
      BY <1>5, <3>1, <3>2, <3>3
  <2>6. \A v, w \in voices' : Key(v) = Key(w) => v = w
    <3> SUFFICES ASSUME NEW v \in voices', NEW w \in voices', Key(v) = Key(w)  PROVE  v = w
      OBVIOUS
    <3>1. v.of = w.of /\ v.id = w.id /\ v.sf = w.sf
      BY DEF Key
    <3>2. CASE v \in new /\ w \in new
      <4>1. v.t = w.t
        BY <1>11, <3>1, <3>2, Zenon
      <4>2. v.when = w.when
        BY <1>11, <3>1, <3>2, Zenon
      <4>3. v.start = w.start
        <5>1. PICK h \in plays, f \in cursor..horizon - 1 :
                /\ SongFrameAt(clock.plan, f) = h.t
                /\ v = [id |-> h.id, t |-> h.t, of |-> clock.generation, sf |-> f,
                        when |-> clock.now + f - StreamNow, start |-> StartOf(clock.now + f - StreamNow)]
          BY <1>10, <3>2
        <5>2. PICK g \in plays, e \in cursor..horizon - 1 :
                /\ SongFrameAt(clock.plan, e) = g.t
                /\ w = [id |-> g.id, t |-> g.t, of |-> clock.generation, sf |-> e,
                        when |-> clock.now + e - StreamNow, start |-> StartOf(clock.now + e - StreamNow)]
          BY <1>10, <3>2
        <5>3. v.sf = f /\ w.sf = e /\ v.start = StartOf(clock.now + f - StreamNow)
              /\ w.start = StartOf(clock.now + e - StreamNow)
          BY <5>1, <5>2
        <5> QED
          BY <3>1, <5>3, Zenon
      <4>4. /\ v = [id |-> v.id, t |-> v.t, of |-> v.of, sf |-> v.sf, when |-> v.when, start |-> v.start]
            /\ w = [id |-> w.id, t |-> w.t, of |-> w.of, sf |-> w.sf, when |-> w.when, start |-> w.start]
        BY <1>11, <3>2, Zenon
      <4> QED
        BY <3>1, <4>1, <4>2, <4>3, <4>4, Zenon
    <3>3. CASE v \in old /\ w \in old
      BY <2>1, <2>4, <3>3
    <3>4. CASE v \in old /\ w \in new
      <4>1. w.of = clock.generation /\ w.sf \in Int /\ w.sf >= cursor
        BY <1>11, <3>4, Zenon
      <4>2. v.sf \in Int /\ (v.of = clock.generation => v.sf < cursor)
        BY <2>4, <3>4
      <4> QED
        BY <1>5, <3>1, <4>1, <4>2
    <3>5. CASE v \in new /\ w \in old
      <4>1. v.of = clock.generation /\ v.sf \in Int /\ v.sf >= cursor
        BY <1>11, <3>5, Zenon
      <4>2. w.sf \in Int /\ (w.of = clock.generation => w.sf < cursor)
        BY <2>4, <3>5
      <4> QED
        BY <1>5, <3>1, <4>1, <4>2
    <3> QED
      BY <1>4, <3>2, <3>3, <3>4, <3>5
  <2>7. \A v \in voices' : v.of = clock.generation =>
              v.when = v.sf + clock.offset /\ v.start <= v.when + Late
    BY <1>4, <1>11, <2>1, <2>4, Zenon
  <2>8. sched'.cursor \in Nat /\ sched'.cursor >= cursor /\ sched'.cursor >= horizon
    BY <1>6, <1>8
  <2>9. \A v \in voices' : v.of = clock.generation => v.sf < sched'.cursor
    <3>1. ASSUME NEW v \in new  PROVE  v.sf < sched'.cursor
      <4>1. v.sf \in Int /\ v.sf < horizon
        BY <1>11, Zenon
      <4> QED
        BY <1>6, <2>8, <4>1
    <3>2. \A v \in old : v.of = clock.generation => v.sf < sched'.cursor
      BY <1>5, <2>4, <2>8
    <3> QED
      BY <1>4, <3>1, <3>2, Zenon
  <2>10. \A k \in heard.all : k[1] = clock.generation => k[3] < sched'.cursor
    BY <1>5, <2>1, <2>3, <2>8
  <2>11. QueuedOnce'
    <3>1. ~heard.twice
      BY <1>1, <1>15, Zenon DEF QueuedOnce
    <3>2. StreamNow' = StreamNow
      BY <1>4, Zenon DEF StreamNow
    <3>3. sched'.cursor >= 0
      BY <2>8
    <3>4. /\ ~heard'.twice
          /\ \A k \in heard'.all : k[1] <= clock'.generation /\ k[1] \in Int /\ k[3] \in Int
          /\ \A v \in voices' : Key(v) \notin heard'.all
          /\ \A v, w \in voices' : Key(v) = Key(w) => v = w
      BY <1>4, <2>1, <2>5, <2>6, <3>1, Zenon
    <3>5. /\ \A v \in voices' : v.of = clock'.generation =>
                v.when = v.sf + clock'.offset /\ v.start <= v.when + Late
          /\ \A k \in heard'.all : k[1] = clock'.generation => k[3] < StreamNow'
      BY <1>4, <2>1, <2>7, <3>2, Zenon
    <3>6. /\ sched'.cursor >= 0
          /\ \A v \in voices' : v.of = clock'.generation => v.sf < sched'.cursor
          /\ \A k \in heard'.all : k[1] = clock'.generation => k[3] < sched'.cursor
      BY <1>4, <2>9, <2>10, <3>3, Zenon
    <3> QED
      BY <3>4, <3>5, <3>6, Zenon DEF QueuedOnce, Key
  <2>12. Reaches'
    <3> SUFFICES ASSUME ~sched'.slow
                 PROVE  /\ steady' \subseteq plays /\ sched'.cursor >= StreamNow + sched'.room
                        /\ Covered'
      <4>1. StreamNow' = StreamNow /\ plays' = plays /\ sched'.since = -1
        BY <1>4, <1>8, Zenon DEF StreamNow
      <4> QED
        BY <4>1, Zenon DEF Reaches
    <3>1. sched'.cursor >= StreamNow + sched'.room
      BY <1>8, <2>8
    <3>2. ~NewGeneration => ~sched.slow
      BY <1>9, Zenon
    <3>3. ~NewGeneration => /\ steady \subseteq plays /\ Covered
                            /\ sched.cursor >= StreamNow - Late
      BY <1>1, <1>2, <1>4, <1>15, <3>2 DEF Reaches
    <3>4. steady' \subseteq plays
      BY <1>4, <3>3
    <3>5. Covered'
      <4> SUFFICES ASSUME NEW h \in steady', NEW f \in (sched.from..sched.cursor - 1)',
                          InPlan(f)', (SongFrameAt(clock.plan, f) = h.t)'
                   PROVE  \/ <<clock'.generation, h.id, f>> \in heard'.all
                          \/ \E v \in voices' : Key(v) = <<clock'.generation, h.id, f>>
        BY Zenon DEF Covered, Key
      <4>1. h \in plays /\ InPlan(f) /\ SongFrameAt(clock.plan, f) = h.t
        BY <1>4, <3>4, Zenon DEF InPlan
      <4>2. f \in Int /\ f >= sched'.from /\ f < sched'.cursor
        BY <1>8, <2>8 DEF Scheds
      <4>3. CASE ~NewGeneration /\ f < cursor
        <5>1. cursor = sched.cursor
          BY <1>5, <2>2, <3>3, <4>3
        <5>2. f \in sched.from..sched.cursor - 1 /\ h \in steady
          BY <1>2, <1>4, <1>8, <4>2, <4>3, <5>1
        <5>3. \/ <<clock.generation, h.id, f>> \in heard.all
              \/ \E v \in voices : Key(v) = <<clock.generation, h.id, f>>
          BY <3>3, <4>1, <4>3, <5>2, Zenon DEF Covered
        <5> QED
          BY <1>4, <4>3, <5>3, Zenon
      <4>4. CASE NewGeneration \/ f >= cursor
        <5>1. f >= cursor /\ f < horizon
          BY <1>5, <1>6, <1>8, <4>2, <4>4
        <5>2. f \in cursor..horizon - 1
          BY <1>5, <1>6, <4>2, <5>1
        <5> DEFINE v == [id |-> h.id, t |-> h.t, of |-> clock.generation, sf |-> f,
                         when |-> clock.now + f - StreamNow, start |-> StartOf(clock.now + f - StreamNow)]
        <5>3. v \in new
          BY <4>1, <5>2 DEF new, Voices
        <5>4. Key(v) = <<clock.generation, h.id, f>>
          BY DEF Key
        <5> HIDE DEF v
        <5> QED
          BY <1>4, <5>3, <5>4, Zenon
      <4> QED
        BY <1>5, <4>2, <4>3, <4>4
    <3> QED
      BY <3>1, <3>4, <3>5
  <2> QED
    BY <2>11, <2>12
<1>16. ASSUME clock.underruns # 0  PROVE  QueuedOnce' /\ Reaches'
  BY <1>4, <1>16, Zenon DEF QueuedOnce, Reaches
<1> QED
  BY <1>12, <1>13, <1>14, <1>15, <1>16 DEF KitIInv

\* A change of the hits takes back what has not sounded, and the next tick
\* begins at what sounds now.
LEMMA KitRescans ==
  ASSUME KitIInv, NEW H, \A h \in H : h = [id |-> h.id, t |-> h.t], SetHits(H)
  PROVE  KitIInv'
<1> USE KitSongs
<1>1. KitTypes /\ VoicesQueued /\ Begins /\ QueuedOnce /\ Reaches
  BY DEF KitIInv
<1>2. /\ clock.now \in Nat /\ clock.offset \in Nat
      /\ clock.underruns \in Nat /\ clock.generation \in Nat
      /\ StreamNow \in Nat /\ StreamNow = clock.now - clock.offset
      /\ sched.cursor \in Int /\ sched.generation \in Int /\ sched.underruns \in Nat
      /\ sched.from \in Int /\ sched.room \in Nat /\ sched.since \in Int
      /\ sched.underruns <= clock.underruns /\ sched.generation <= clock.generation
  BY <1>1, KitFields
<1>3. clock \in Clocks /\ sched \in Scheds
  BY <1>1, Zenon DEF KitTypes
<1>4. plays' = H /\ UNCHANGED <<clock, kit, heard, frames>>
  BY DEF SetHits
<1>5. CASE ~sched.alive
  <2>1. UNCHANGED <<sched, voices, steady>> /\ voices = {}
    BY <1>1, <1>5, Zenon DEF SetHits, VoicesQueued
  <2>2. KitTypes'
    BY <1>1, <1>4, <2>1, Zenon DEF KitTypes
  <2>3. VoicesQueued'
    BY <1>4, <2>1 DEF VoicesQueued
  <2>4. Begins'
    BY <1>1, <1>4, <2>1 DEF Begins, NewGeneration
  <2>5. QueuedOnce'
    BY <1>1, <1>4, <2>1 DEF QueuedOnce, Clocked, NewGeneration, StreamNow, Key
  <2>6. Reaches'
    BY <1>5, <2>1, Zenon DEF Reaches
  <2> QED
    BY <2>2, <2>3, <2>4, <2>5, <2>6 DEF KitIInv
<1>6. CASE sched.alive
  <2>1. /\ steady' = steady \cap H
        /\ voices' = IF Clocked THEN KeptFrom(clock.now) ELSE {}
        /\ sched' = [sched EXCEPT !.cursor = Rescanned,
                                  !.room = Least(@, Late),
                                  !.since = IF @ = -1 THEN clock.now ELSE @,
                                  !.slow = @ \/ (sched.since # -1 /\ sched.since # clock.now)]
    BY <1>6 DEF SetHits
  <2>2. Rescanned \in Int /\ Rescanned >= -1 /\ (Clocked /\ ~NewGeneration => Rescanned = StreamNow)
    BY <1>2 DEF Rescanned
  <2>3. Least(sched.room, Late) \in Nat /\ Least(sched.room, Late) <= Late
    BY <1>2 DEF Least
  <2>4. (IF sched.since = -1 THEN clock.now ELSE sched.since) \in Int
    BY <1>2
  <2>5. PICK b \in BOOLEAN : b = (sched.slow \/ (sched.since # -1 /\ sched.since # clock.now))
    <3>1. (sched.slow \/ (sched.since # -1 /\ sched.since # clock.now)) \in BOOLEAN
      BY Zenon
    <3> QED
      BY <3>1, Zenon
  <2>6. sched' = [sched EXCEPT !.cursor = Rescanned, !.room = Least(sched.room, Late),
                               !.since = IF sched.since = -1 THEN clock.now ELSE sched.since,
                               !.slow = b]
    BY <2>1, <2>5, Zenon
  <2>7. sched' \in Scheds
    BY <1>3, <2>2, <2>3, <2>4, <2>6, Zenon DEF Scheds
  <2>8. /\ sched'.cursor = Rescanned /\ sched'.room = Least(sched.room, Late)
        /\ sched'.since = (IF sched.since = -1 THEN clock.now ELSE sched.since) /\ sched'.slow = b
        /\ sched'.alive = sched.alive /\ sched'.generation = sched.generation
        /\ sched'.underruns = sched.underruns /\ sched'.from = sched.from
    BY <1>3, <2>6 DEF Scheds
  <2>9. /\ Clocked' <=> Clocked
        /\ NewGeneration' <=> NewGeneration
        /\ StreamNow' = StreamNow
    BY <1>4, <2>8, Zenon DEF Clocked, NewGeneration, StreamNow
  <2>10. \A v \in voices' : v \in voices /\ v.when < clock.now /\ Clocked
    BY <2>1, Zenon DEF KeptFrom
  <2>11. KitTypes'
    <3>1. sched'.cursor >= -1 /\ sched'.underruns <= clock'.underruns /\ sched'.generation <= clock'.generation
      BY <1>2, <1>4, <2>2, <2>8
    <3>2. clock' \in Clocks /\ clock'.offset <= clock'.now /\ kit' \in Kits
          /\ kit'.stemMuted = (kit'.midi /\ clock'.created)
          /\ sched'.alive = (kit'.midi /\ kit'.status = "ready" /\ clock'.created)
      BY <1>1, <1>4, <2>8, Zenon DEF KitTypes
    <3> QED
      BY <1>4, <2>7, <3>1, <3>2, Zenon DEF KitTypes
  <2>12. VoicesQueued'
    <3> SUFFICES ASSUME NEW v \in voices'
                 PROVE  /\ v.of \in Nat /\ v.of <= clock.generation /\ v.sf \in Int /\ v.when \in Int
                        /\ v.start \in Int /\ v.start >= clock.now /\ v.when <= v.start /\ v.t \in 0..Total
                        /\ ~(v.when >= clock.now)
      BY <1>4, <1>6, <2>8, Zenon DEF VoicesQueued
    <3>1. /\ v.of \in Nat /\ v.of <= clock.generation /\ v.sf \in Int /\ v.when \in Int
          /\ v.start \in Int /\ v.start >= clock.now /\ v.when <= v.start /\ v.t \in 0..Total
      BY <1>1, <2>10, Zenon DEF VoicesQueued
    <3>2. ~(v.when >= clock.now)
      BY <1>2, <2>10, <3>1
    <3> QED
      BY <3>1, <3>2
  <2>13. Begins'
    BY <1>1, <1>4, <2>8, <2>9, <2>10, Zenon DEF Begins
  <2>14. ASSUME clock.underruns = 0  PROVE  QueuedOnce'
    <3>1. /\ ~heard.twice
          /\ \A k \in heard.all : k[1] <= clock.generation /\ k[1] \in Int /\ k[3] \in Int
          /\ \A v \in voices : Key(v) \notin heard.all
          /\ \A v, w \in voices : Key(v) = Key(w) => v = w
          /\ Clocked => \A v \in voices : v.of = clock.generation =>
                          v.when = v.sf + clock.offset /\ v.start <= v.when + Late
          /\ Clocked => \A k \in heard.all : k[1] = clock.generation => k[3] < StreamNow
      BY <1>1, <2>14, Zenon DEF QueuedOnce
    <3>2. ASSUME Clocked, ~NewGeneration, NEW v \in voices', v.of = clock.generation
          PROVE  v.sf < sched'.cursor
      <4>1. v.when = v.sf + clock.offset /\ v.when < clock.now
        BY <2>10, <3>1, <3>2
      <4>2. v.sf \in Int
        BY <1>1, <2>10, <3>2, Zenon DEF VoicesQueued
      <4> QED
        BY <1>2, <2>2, <2>8, <3>2, <4>1, <4>2
    <3>3. Clocked /\ ~NewGeneration => sched'.cursor >= 0 /\ sched'.cursor = StreamNow
      BY <1>2, <2>2, <2>8
    <3>4. sched'.alive /\ Clocked' /\ ~NewGeneration' =>
            /\ sched'.cursor >= 0
            /\ \A v \in voices' : v.of = clock'.generation => v.sf < sched'.cursor
            /\ \A k \in heard'.all : k[1] = clock'.generation => k[3] < sched'.cursor
      BY <1>4, <2>9, <3>1, <3>2, <3>3, Zenon
    <3>5. Clocked' =>
            /\ \A v \in voices' : v.of = clock'.generation =>
                 v.when = v.sf + clock'.offset /\ v.start <= v.when + Late
            /\ \A k \in heard'.all : k[1] = clock'.generation => k[3] < StreamNow'
      BY <1>4, <2>9, <2>10, <3>1, Zenon
    <3>6. /\ ~heard'.twice
          /\ \A k \in heard'.all : k[1] <= clock'.generation /\ k[1] \in Int /\ k[3] \in Int
          /\ \A v \in voices' : Key(v) \notin heard'.all
          /\ \A v, w \in voices' : Key(v) = Key(w) => v = w
      BY <1>4, <2>10, <3>1, Zenon
    <3> QED
      BY <3>4, <3>5, <3>6, Zenon DEF QueuedOnce, Key
  <2>15. ASSUME Clocked, ~NewGeneration, clock.underruns = 0, ~b  PROVE  Reaches'
    <3>1. ~sched.slow /\ (sched.since = -1 \/ sched.since = clock.now)
      BY <2>5, <2>15, Zenon
    <3>2. /\ sched.since = -1 => sched.cursor >= StreamNow + sched.room
          /\ sched.since # -1 => sched.cursor = sched.since - clock.offset
          /\ Covered
      BY <1>1, <1>6, <2>15, <3>1, Zenon DEF Reaches
    <3>3. sched.cursor >= StreamNow
      BY <1>2, <3>1, <3>2
    <3>4. sched'.since = clock.now /\ sched'.cursor = StreamNow /\ sched'.room \in Nat /\ sched'.room <= Late
      BY <1>2, <2>2, <2>3, <2>8, <2>15, <3>1
    <3>5. /\ sched'.since # -1 /\ sched'.since <= clock.now
          /\ sched'.cursor = sched'.since - clock.offset
          /\ sched'.cursor >= StreamNow + sched'.room - Late
      BY <1>2, <3>4
    <3>6. Covered'
      <4> SUFFICES ASSUME NEW h \in steady', NEW f \in (sched.from..sched.cursor - 1)',
                          InPlan(f)', (SongFrameAt(clock.plan, f) = h.t)'
                   PROVE  \/ <<clock'.generation, h.id, f>> \in heard'.all
                          \/ \E v \in voices' : Key(v) = <<clock'.generation, h.id, f>>
        BY Zenon DEF Covered, Key
      <4>1. h \in steady /\ InPlan(f) /\ SongFrameAt(clock.plan, f) = h.t
        BY <1>4, <2>1, Zenon DEF InPlan
      <4>2. f \in Int /\ f >= sched.from /\ f < StreamNow
        BY <1>2, <2>8, <3>4
      <4>3. f \in sched.from..sched.cursor - 1
        BY <1>2, <3>3, <4>2
      <4>4. \/ <<clock.generation, h.id, f>> \in heard.all
            \/ \E v \in voices : Key(v) = <<clock.generation, h.id, f>>
        BY <3>2, <4>1, <4>3, Zenon DEF Covered
      <4>5. CASE <<clock.generation, h.id, f>> \in heard.all
        BY <1>4, <4>5, Zenon
      <4>6. CASE \E v \in voices : Key(v) = <<clock.generation, h.id, f>>
        <5>1. PICK v \in voices : Key(v) = <<clock.generation, h.id, f>>
          BY <4>6
        <5>2. v.of = clock.generation /\ v.sf = f
          BY <5>1 DEF Key
        <5>3. v.when = v.sf + clock.offset
          BY <1>1, <2>15, <5>2, Zenon DEF QueuedOnce
        <5>4. v.when < clock.now
          BY <1>2, <4>2, <5>2, <5>3
        <5>5. v \in voices'
          BY <2>1, <2>15, <5>4, Zenon DEF KeptFrom
        <5> QED
          BY <1>4, <5>1, <5>5, Zenon
      <4> QED
        BY <4>4, <4>5, <4>6
    <3>7. steady' \subseteq plays'
      BY <1>4, <2>1
    <3>8. clock' = clock /\ StreamNow' = StreamNow
      BY <1>4, <2>9
    <3> QED
      BY <3>4, <3>5, <3>6, <3>7, <3>8, Zenon DEF Reaches
  <2>16. QueuedOnce' /\ Reaches'
    <3>1. clock.underruns # 0 => QueuedOnce'
      BY <1>4, Zenon DEF QueuedOnce
    <3>2. ~(Clocked /\ ~NewGeneration /\ clock.underruns = 0 /\ ~b) => Reaches'
      BY <1>4, <2>8, <2>9, Zenon DEF Reaches
    <3> QED
      BY <2>14, <2>15, <3>1, <3>2
  <2> QED
    BY <2>11, <2>12, <2>13, <2>16 DEF KitIInv
<1> QED
  BY <1>5, <1>6

LEMMA KitAlive ==
  ASSUME NEW a \in BOOLEAN
  PROVE  /\ [NoSched EXCEPT !.alive = a] \in Scheds
         /\ [NoSched EXCEPT !.alive = a].alive = a
         /\ [NoSched EXCEPT !.alive = a].cursor = -1
         /\ [NoSched EXCEPT !.alive = a].generation = -1
         /\ [NoSched EXCEPT !.alive = a].underruns = 0
<1>1. 0 \in Nat /\ 0 \in Int /\ -1 \in Int /\ FALSE \in BOOLEAN
  OBVIOUS
<1> QED
  BY <1>1, Zenon DEF NoSched, Scheds

\* The scheduler lives while the mode, the status and the engine say so, and
\* begins anew each time.
LEMMA KitBecomes ==
  ASSUME KitIInv, NEW k \in Kits, NEW c \in Clocks, Becoming(k, c),
         c.now = clock.now, c.offset = clock.offset, c.underruns = clock.underruns,
         c = clock \/ (c.flushing /\ c.generation = clock.generation + 1)
  PROVE  KitIInv'
<1> DEFINE alive == k.midi /\ k.status = "ready" /\ c.created
<1>1. KitTypes /\ VoicesQueued /\ Begins /\ QueuedOnce /\ Reaches
  BY DEF KitIInv
<1>2. /\ clock.underruns \in Nat /\ clock.generation \in Nat /\ clock.offset <= clock.now
      /\ sched.generation \in Int /\ sched.underruns \in Nat /\ sched.cursor >= -1
      /\ sched.underruns <= clock.underruns /\ sched.generation <= clock.generation
  BY <1>1, KitFields
<1>3. c.generation \in Nat /\ c.generation >= clock.generation
  BY <1>2 DEF Clocks
<1>4. /\ clock' = c
      /\ kit' = [k EXCEPT !.stemMuted = ForcedMute(k, c),
                          !.status = IF @ = "idle" /\ k.midi /\ c.created THEN "loading" ELSE @]
      /\ sched' = IF alive = sched.alive THEN sched ELSE [NoSched EXCEPT !.alive = alive]
      /\ voices' = IF sched.alive /\ ~alive THEN {} ELSE voices
      /\ UNCHANGED <<plays, steady, heard>>
  BY DEF Becoming
<1>5. alive \in BOOLEAN /\ ForcedMute(k, c) \in BOOLEAN
  BY Zenon DEF ForcedMute
<1>6. kit' \in Kits /\ kit'.midi = k.midi /\ kit'.stemMuted = ForcedMute(k, c)
      /\ kit'.status = (IF k.status = "idle" /\ k.midi /\ c.created THEN "loading" ELSE k.status)
  <2>1. (IF k.status = "idle" /\ k.midi /\ c.created THEN "loading" ELSE k.status)
           \in {"idle", "loading", "ready", "error"}
    BY DEF Kits
  <2>2. PICK m \in BOOLEAN : m = ForcedMute(k, c)
    BY <1>5
  <2>3. kit' = [k EXCEPT !.stemMuted = m,
                         !.status = IF k.status = "idle" /\ k.midi /\ c.created THEN "loading" ELSE k.status]
    BY <1>4, <2>2, Zenon
  <2>4. kit' \in Kits
    BY <2>1, <2>3, Zenon DEF Kits
  <2>5. kit'.midi = k.midi /\ kit'.stemMuted = m
      /\ kit'.status = (IF k.status = "idle" /\ k.midi /\ c.created THEN "loading" ELSE k.status)
    BY <2>3 DEF Kits
  <2> QED
    BY <2>2, <2>4, <2>5, Zenon
<1>7. kit'.stemMuted = (kit'.midi /\ clock'.created)
  <2>1. ForcedMute(k, c) = (k.midi /\ c.created)
    BY DEF ForcedMute
  <2>2. kit'.midi = k.midi /\ clock'.created = c.created
    BY <1>4, <1>6, Zenon
  <2> QED
    BY <1>6, <2>1, <2>2, Zenon
<1>8. alive = (kit'.midi /\ kit'.status = "ready" /\ clock'.created)
  <2>1. kit'.status = "ready" <=> k.status = "ready"
    BY <1>6
  <2> QED
    BY <1>4, <1>6, <2>1, Zenon
<1> HIDE DEF alive
<1>9. CASE alive = sched.alive
  <2>1. sched' = sched /\ voices' = voices
    <3>1. ~(sched.alive /\ ~alive)
      BY <1>9, Zenon
    <3> QED
      BY <1>4, <1>9, <3>1, Zenon
  <2>2. KitTypes'
    <3>1. sched'.cursor >= -1 /\ sched'.underruns <= clock'.underruns /\ sched'.generation <= clock'.generation
      <4>1. sched.underruns <= c.underruns /\ sched.generation <= c.generation
        BY <1>2, <1>3
      <4> QED
        BY <1>2, <1>4, <2>1, <4>1, Zenon
    <3>2. clock'.offset <= clock'.now /\ clock' \in Clocks /\ kit' \in Kits
      BY <1>2, <1>4, <1>6, Zenon
    <3> QED
      BY <1>1, <1>4, <1>7, <1>8, <1>9, <2>1, <3>1, <3>2, Zenon DEF KitTypes
  <2>3. VoicesQueued'
    <3>1. ASSUME NEW v \in voices  PROVE  v.of <= c.generation
      <4>1. v.of \in Nat /\ v.of <= clock.generation
        BY <1>1, Zenon DEF VoicesQueued
      <4> QED
        BY <1>2, <1>3, <4>1
    <3> QED
      BY <1>1, <1>4, <2>1, <3>1, Zenon DEF VoicesQueued
  <2>4. CASE c = clock
    <3>1. Begins'
      BY <1>1, <1>4, <2>1, <2>4, Zenon DEF Begins, NewGeneration
    <3>2. QueuedOnce'
      BY <1>1, <1>4, <2>1, <2>4, Zenon DEF QueuedOnce, Clocked, NewGeneration, StreamNow, Key
    <3>3. Reaches'
      <4>1. UNCHANGED <<clock, sched, voices, plays, steady, heard>>
        BY <1>4, <2>1, <2>4
      <4> QED
        BY <1>1, <4>1 DEF Reaches, Covered, Clocked, NewGeneration, StreamNow, Key, InPlan
    <3> QED
      BY <2>2, <2>3, <3>1, <3>2, <3>3 DEF KitIInv
  <2>5. CASE c.flushing /\ c.generation = clock.generation + 1
    <3>1. ~Clocked'
      BY <1>4, <2>5, Zenon DEF Clocked
    <3>2. clock.underruns = 0 => \A q \in heard.all : q[1] <= clock.generation /\ q[1] \in Int /\ q[3] \in Int
      BY <1>1, Zenon DEF QueuedOnce
    <3>3. Begins'
      <4>1. c.generation # sched.generation
        BY <1>2, <2>5
      <4>2. ASSUME NEW v \in voices  PROVE  v.of # c.generation
        <5>1. v.of \in Nat /\ v.of <= clock.generation
          BY <1>1, Zenon DEF VoicesQueued
        <5> QED
          BY <1>2, <2>5, <5>1
      <4>3. clock.underruns = 0 => \A q \in heard.all : q[1] # c.generation
        BY <1>2, <2>5, <3>2
      <4> QED
        BY <1>4, <2>1, <4>1, <4>2, <4>3, Zenon DEF Begins, NewGeneration
    <3>4. QueuedOnce'
      <4>1. clock.underruns = 0 => \A q \in heard.all : q[1] <= c.generation
        BY <1>2, <2>5, <3>2
      <4> QED
        BY <1>1, <1>4, <2>1, <3>1, <3>2, <4>1, Zenon DEF QueuedOnce, Key
    <3>5. Reaches'
      BY <3>1, Zenon DEF Reaches
    <3> QED
      BY <2>2, <2>3, <3>3, <3>4, <3>5 DEF KitIInv
  <2> QED
    BY <2>4, <2>5
<1>10. CASE alive # sched.alive
  <2>1. sched' = [NoSched EXCEPT !.alive = alive]
    BY <1>4, <1>10, Zenon
  <2>2. /\ sched' \in Scheds /\ sched'.alive = alive
        /\ sched'.cursor = -1 /\ sched'.generation = -1 /\ sched'.underruns = 0
    BY <1>5, <2>1, KitAlive, Zenon
  <2>3. voices' = {}
    <3>1. sched.alive \in BOOLEAN
      BY <1>1 DEF KitTypes, Scheds
    <3>2. CASE sched.alive
      BY <1>4, <1>5, <1>10, <3>2, Zenon
    <3>3. CASE ~sched.alive
      BY <1>1, <1>4, <3>3, Zenon DEF VoicesQueued
    <3> QED
      BY <3>2, <3>3
  <2>4. clock'.generation # sched'.generation
    BY <1>3, <1>4, <2>2
  <2>5. KitTypes'
    <3>1. sched'.cursor >= -1 /\ sched'.underruns <= clock'.underruns /\ sched'.generation <= clock'.generation
      BY <1>2, <1>3, <1>4, <2>2
    <3>2. clock'.offset <= clock'.now /\ clock' \in Clocks /\ kit' \in Kits
      BY <1>2, <1>4, <1>6, Zenon
    <3> QED
      BY <1>1, <1>4, <1>7, <1>8, <2>2, <3>1, <3>2, Zenon DEF KitTypes
  <2>6. VoicesQueued'
    BY <2>3, Zenon DEF VoicesQueued
  <2>7. clock.underruns = 0 => /\ ~heard.twice
                               /\ \A q \in heard.all : q[1] <= clock.generation /\ q[1] \in Int /\ q[3] \in Int
                               /\ Clocked => \A q \in heard.all : q[1] = clock.generation => q[3] < StreamNow
    BY <1>1, Zenon DEF QueuedOnce
  <2>8. Begins'
    <3>1. CASE c = clock
      BY <1>1, <1>4, <2>3, <2>4, <3>1, Zenon DEF Begins, NewGeneration
    <3>2. CASE c.flushing /\ c.generation = clock.generation + 1
      <4>1. clock.underruns = 0 => \A q \in heard.all : q[1] # c.generation
        BY <1>2, <2>7, <3>2
      <4> QED
        BY <1>4, <2>3, <2>4, <4>1, Zenon DEF Begins, NewGeneration
    <3> QED
      BY <3>1, <3>2
  <2>9. QueuedOnce'
    <3>1. clock.underruns = 0 => \A q \in heard.all : q[1] <= c.generation
      BY <1>2, <1>3, <2>7
    <3>2. Clocked' /\ clock.underruns = 0 =>
            \A q \in heard'.all : q[1] = clock'.generation => q[3] < StreamNow'
      <4>1. CASE c = clock
        BY <1>4, <2>7, <4>1, Zenon DEF Clocked, StreamNow
      <4>2. CASE c.flushing
        BY <1>4, <4>2, Zenon DEF Clocked
      <4> QED
        BY <4>1, <4>2
    <3> QED
      BY <1>4, <2>3, <2>4, <2>7, <3>1, <3>2, Zenon DEF QueuedOnce, NewGeneration
  <2>10. Reaches'
    BY <2>4, Zenon DEF Reaches, NewGeneration
  <2> QED
    BY <2>5, <2>6, <2>8, <2>9, <2>10 DEF KitIInv
<1> QED
  BY <1>9, <1>10

LEMMA KitReplans ==
  ASSUME KitIInv, NEW f \in 0..Total - 1, NEW loop \in Regions, Replan(f, loop)
  PROVE  KitIInv'
<1> DEFINE c == [clock EXCEPT !.created = TRUE, !.playing = TRUE, !.flushing = TRUE,
                              !.generation = @ + 1, !.plan = NewPlan(f, Total, loop)]
<1>1. clock \in Clocks /\ kit \in Kits
  BY DEF KitIInv, KitTypes
<1>2. NewPlan(f, Total, loop) \in KitPlans
  BY DEF KitPlans
<1>3. clock.generation + 1 \in Nat
  BY <1>1 DEF Clocks
<1>4. c \in Clocks
  BY <1>1, <1>2, <1>3, Zenon DEF Clocks
<1>5. /\ c.now = clock.now /\ c.offset = clock.offset /\ c.underruns = clock.underruns
      /\ c.flushing /\ c.generation = clock.generation + 1
  BY <1>1 DEF Clocks
<1>6. Becoming(kit, c)
  BY DEF Replan
<1> HIDE DEF c
<1> QED
  BY <1>1, <1>4, <1>5, <1>6, KitBecomes

LEMMA KitModes ==
  ASSUME KitIInv, (\E midi \in BOOLEAN : SetMode(midi)) \/ (\E s \in {"ready", "error"} : KitLoads(s))
  PROVE  KitIInv'
<1>1. clock \in Clocks /\ kit \in Kits
  BY DEF KitIInv, KitTypes
<1>2. PICK k \in Kits : Becoming(k, clock)
  <2>1. CASE \E midi \in BOOLEAN : SetMode(midi)
    <3>1. PICK midi \in BOOLEAN : SetMode(midi)
      BY <2>1
    <3>2. [kit EXCEPT !.midi = midi] \in Kits
      BY <1>1 DEF Kits
    <3> QED
      BY <3>1, <3>2 DEF SetMode
  <2>2. CASE \E s \in {"ready", "error"} : KitLoads(s)
    <3>1. PICK s \in {"ready", "error"} : KitLoads(s)
      BY <2>2
    <3>2. [kit EXCEPT !.status = s] \in Kits
      BY <1>1 DEF Kits
    <3> QED
      BY <3>1, <3>2 DEF KitLoads
  <2> QED
    BY <2>1, <2>2
<1> QED
  BY <1>1, <1>2, KitBecomes

\* The audio thread begins with the stream, or the engine stops.
LEMMA KitTurns == ASSUME KitIInv, Flushed \/ StopPlaying  PROVE  KitIInv'
<1>1. KitTypes /\ VoicesQueued /\ Begins /\ QueuedOnce /\ Reaches
  BY DEF KitIInv
<1>2. clock.now \in Nat /\ clock \in Clocks
  BY <1>1, KitFields DEF KitTypes
<1>3. UNCHANGED <<kit, sched, plays, voices, heard, steady>>
  BY DEF Flushed, StopPlaying
<1>4. CASE Flushed
  <2>1. clock.flushing /\ clock' = [clock EXCEPT !.flushing = FALSE, !.offset = clock.now]
    BY <1>4 DEF Flushed
  <2>2. /\ clock' \in Clocks /\ clock'.offset = clock'.now
        /\ ~clock'.flushing /\ clock'.created = clock.created /\ clock'.now = clock.now
        /\ clock'.underruns = clock.underruns /\ clock'.generation = clock.generation
    BY <1>2, <2>1, Zenon DEF Clocks
  <2>3. KitTypes'
    <3>1. clock'.offset <= clock'.now
      BY <1>2, <2>2
    <3> QED
      BY <1>1, <1>3, <2>2, <3>1, Zenon DEF KitTypes
  <2>4. VoicesQueued'
    BY <1>1, <1>3, <2>2, Zenon DEF VoicesQueued
  <2>5. Begins'
    BY <2>2, Zenon DEF Begins
  <2>6. (sched.alive => NewGeneration')
        /\ (clock.underruns = 0 => /\ \A v \in voices : v.of # clock.generation
                                   /\ \A k \in heard.all : k[1] # clock.generation)
    BY <1>1, <1>3, <2>1, <2>2, Zenon DEF Begins, NewGeneration
  <2>7. QueuedOnce' /\ Reaches'
    BY <1>1, <1>3, <2>2, <2>6, Zenon DEF QueuedOnce, Reaches, Key
  <2> QED
    BY <2>3, <2>4, <2>5, <2>7 DEF KitIInv
<1>5. CASE StopPlaying
  <2>1. clock' = [clock EXCEPT !.playing = FALSE]
    BY <1>5 DEF StopPlaying
  <2>2. /\ clock' \in Clocks /\ clock'.offset = clock.offset /\ ~clock'.playing
        /\ clock'.flushing = clock.flushing /\ clock'.created = clock.created /\ clock'.now = clock.now
        /\ clock'.underruns = clock.underruns /\ clock'.generation = clock.generation
    BY <1>2, <2>1, Zenon DEF Clocks
  <2>3. KitTypes'
    BY <1>1, <1>3, <2>2, Zenon DEF KitTypes
  <2>4. VoicesQueued' /\ Begins'
    BY <1>1, <1>3, <2>2, Zenon DEF VoicesQueued, Begins, NewGeneration
  <2>5. ~Clocked'
    BY <2>2, Zenon DEF Clocked
  <2>6. QueuedOnce' /\ Reaches'
    BY <1>1, <1>3, <2>2, <2>5, Zenon DEF QueuedOnce, Reaches, Key
  <2> QED
    BY <2>3, <2>4, <2>6 DEF KitIInv
<1> QED
  BY <1>4, <1>5

LEMMA KitGoesOn == ASSUME KitIInv, KitNext  PROVE  KitIInv'
<1>1. clock.offset \in Nat /\ clock.underruns \in Nat
  BY KitFields DEF KitIInv
<1>2. CASE Advance
  <2>1. CASE Clocked
    <3>1. Runs([clock EXCEPT !.now = @ + 1, !.offset = clock.offset, !.underruns = clock.underruns])
      <4>1. [clock EXCEPT !.now = @ + 1, !.offset = IF Clocked THEN @ ELSE @ + 1]
              = [clock EXCEPT !.now = @ + 1, !.offset = clock.offset, !.underruns = clock.underruns]
        BY <2>1, Zenon DEF KitIInv, KitTypes, Clocks
      <4> QED
        BY <1>2, <4>1, Zenon DEF Advance
    <3>2. clock.offset \in {clock.offset, clock.offset + 1} /\ clock.underruns \in {clock.underruns, clock.underruns + 1}
      OBVIOUS
    <3> QED
      BY <3>1, <3>2, KitRuns, Zenon
  <2>2. CASE ~Clocked
    <3>1. Runs([clock EXCEPT !.now = @ + 1, !.offset = clock.offset + 1, !.underruns = clock.underruns])
      <4>1. [clock EXCEPT !.now = @ + 1, !.offset = IF Clocked THEN @ ELSE @ + 1]
              = [clock EXCEPT !.now = @ + 1, !.offset = clock.offset + 1, !.underruns = clock.underruns]
        BY <2>2, Zenon DEF KitIInv, KitTypes, Clocks
      <4> QED
        BY <1>2, <4>1, Zenon DEF Advance
    <3>2. clock.offset + 1 \in {clock.offset, clock.offset + 1} /\ clock.underruns \in {clock.underruns, clock.underruns + 1}
      OBVIOUS
    <3> QED
      BY <2>2, <3>1, <3>2, KitRuns, Zenon
  <2> QED
    BY <2>1, <2>2
<1>3. CASE Underrun
  <2>1. Runs([clock EXCEPT !.now = @ + 1, !.offset = clock.offset + 1, !.underruns = clock.underruns + 1])
    BY <1>3, Zenon DEF Underrun
  <2>2. clock.offset + 1 \in {clock.offset, clock.offset + 1}
        /\ clock.underruns + 1 \in {clock.underruns, clock.underruns + 1} /\ clock.underruns + 1 # 0
    BY <1>1
  <2> QED
    BY <2>1, <2>2, KitRuns, Zenon
<1> QED
  BY <1>2, <1>3, KitTicks, KitIdles, KitStalls, KitTurns, KitModes, KitReplans, Zenon DEF KitNext

LEMMA SoundIs ==
  ASSUME NEW H, NEW mutes, NEW alone
  PROVE  \A h \in Sound(H, mutes, alone) : h = [id |-> h.id, t |-> h.t]
BY DEF Sound

\* What an edit or a button of a row does to the kit is a change of its hits.
LEMMA KitInEditor ==
  ASSUME KitIInv, [EditorNext]_editorVars
  PROVE  KitIInv'
<1>1. CASE UNCHANGED kitVars
  BY <1>1, KitStands
<1>2. CASE \E H, mutes, alone : SetHits(Sound(H, mutes, alone))
  BY <1>2, SoundIs, KitRescans
<1>3. CASE KitNext
  BY <1>3, KitGoesOn
<1>4. CASE EditStep
  BY <1>1, <1>2, <1>4 DEF EditStep
<1>5. CASE KitStep \/ (\E loop \in Regions \ {NoLoop} : LookStep(loop)) \/ (\E key \in RowKeys : ToggleRow(key))
  BY <1>1, <1>2, <1>3, <1>5 DEF KitStep, LookStep, ToggleRow
<1> QED
  BY <1>1, <1>4, <1>5 DEF EditorNext

-----------------------------------------------------------------------------
(* The grid *)

LEMMA DivMod ==
  ASSUME NEW x \in Int, NEW n \in Nat \ {0}
  PROVE  /\ x \div n \in Int /\ (x % n) \in Nat /\ (x % n) < n
         /\ x = n * (x \div n) + (x % n)
OBVIOUS

LEMMA TimesGrows ==
  ASSUME NEW n \in Nat \ {0}, NEW e \in Int
  PROVE  /\ e >= 1 => n * e >= n
         /\ e <= -1 => n * e <= -n
OBVIOUS

LEMMA DivIs ==
  ASSUME NEW x \in Int, NEW n \in Nat \ {0}, NEW q \in Int, n * q <= x, x < n * q + n
  PROVE  x \div n = q
<1> DEFINE d == x \div n
<1> DEFINE m == x % n
<1>1. d \in Int /\ m \in Nat /\ m < n /\ x = n * d + m
  BY DivMod
<1> HIDE DEF d, m
<1>2. PICK e \in Int : e = d - q
  BY <1>1
<1>3. n * e = n * d - n * q
  BY <1>1, <1>2
<1>4. n * e < n /\ n * e > -n
  BY <1>1, <1>3
<1>5. ~(e >= 1) /\ ~(e <= -1)
  BY <1>4, TimesGrows
<1> QED BY <1>1, <1>2, <1>5 DEF d

LEMMA DivOf ==
  ASSUME NEW q \in Int, NEW n \in Nat \ {0}
  PROVE  (n * q) \div n = q
<1> DEFINE x == n * q
<1>1. x \in Int /\ n * q <= x /\ x < n * q + n
  OBVIOUS
<1> HIDE DEF x
<1>2. x \div n = q
  BY <1>1, DivIs
<1> QED BY <1>2 DEF x

\* A whole multiple: what is divided comes back.
LEMMA Divides ==
  ASSUME NEW x \in Int, NEW n \in Nat \ {0}, x % n = 0
  PROVE  x \div n \in Int /\ x = n * (x \div n)
BY DivMod

LEMMA DividesPos ==
  ASSUME NEW x \in Nat \ {0}, NEW n \in Nat \ {0}, x % n = 0
  PROVE  x \div n \in Nat \ {0} /\ x = n * (x \div n)
<1> DEFINE d == x \div n
<1>1. d \in Int /\ x = n * d
  BY Divides
<1> HIDE DEF d
<1>2. ~(d <= 0)
  <2> SUFFICES ASSUME d <= 0 PROVE FALSE
    OBVIOUS
  <2>1. n * d <= 0
    <3>1. CASE d = 0
      BY <3>1
    <3>2. CASE d <= -1
      BY <1>1, <3>2, TimesGrows
    <3> QED BY <1>1, <3>1, <3>2
  <2> QED BY <1>1, <2>1
<1> QED BY <1>1, <1>2 DEF d

-----------------------------------------------------------------------------
Clip(g, k) == IF k < 0 THEN 0 ELSE IF k > Len(g.beats) - 2 THEN Len(g.beats) - 2 ELSE k

\* What the lemmas about a grid assume.
Ready(g, D) == IsGrid(g, D) /\ HasGrid(g) /\ D \subseteq Nat \ {0}

LEMMA GridHas ==
  ASSUME NEW g, NEW D, Ready(g, D)
  PROVE  /\ Len(g.beats) \in Nat /\ Len(g.beats) >= 2
         /\ \A j \in 1..Len(g.beats) : g.beats[j] \in Int
         /\ g.offset \in Int /\ BeatUnits \in Nat \ {0}
BY BeatGridAssumption DEF Ready, IsGrid, HasGrid

LEMMA ClipIn ==
  ASSUME NEW g, NEW D, Ready(g, D), NEW k \in Int
  PROVE  Clip(g, k) \in 0..Len(g.beats) - 2
BY GridHas DEF Clip

LEMMA IntervalIs ==
  ASSUME NEW g, NEW D, Ready(g, D), NEW k \in Int
  PROVE  Interval(g, k) = g.beats[Clip(g, k) + 2] - g.beats[Clip(g, k) + 1]
BY GridHas DEF Clip, Interval

LEMMA IntervalHas ==
  ASSUME NEW g, NEW D, Ready(g, D), NEW k \in Int
  PROVE  /\ Interval(g, k) \in Nat \ {0} /\ BeatUnits % Interval(g, k) = 0
         /\ \A n \in D : Interval(g, k) % n = 0 /\ BeatUnits % n = 0
<1>0. Clip(g, k) \in 0..Len(g.beats) - 2 /\ Len(g.beats) \in Nat
  BY ClipIn, GridHas, Zenon
<1>1. Clip(g, k) + 1 \in 1..Len(g.beats) - 1 /\ Clip(g, k) + 2 = (Clip(g, k) + 1) + 1
  BY <1>0
<1> DEFINE j == Clip(g, k) + 1
<1>2. j \in 1..Len(g.beats) - 1 /\ Interval(g, k) = g.beats[j + 1] - g.beats[j]
  BY <1>1, IntervalIs
<1> HIDE DEF j
<1>3. /\ g.beats[j + 1] - g.beats[j] > 0 /\ BeatUnits % (g.beats[j + 1] - g.beats[j]) = 0
      /\ \A n \in D : (g.beats[j + 1] - g.beats[j]) % n = 0 /\ BeatUnits % n = 0
  BY <1>2, Zenon DEF Ready, IsGrid
<1>4. g.beats[j + 1] - g.beats[j] \in Int
  BY <1>2, GridHas
<1> QED BY <1>2, <1>3, <1>4

\* A line is a whole part of a beat, and of what a time unit is worth.
LEMMA Units ==
  ASSUME NEW g, NEW D, Ready(g, D), NEW k \in Int, NEW n \in D
  PROVE  /\ n \in Nat \ {0} /\ BeatUnits \in Nat \ {0}
         /\ BeatUnits \div n \in Nat \ {0} /\ BeatUnits = n * (BeatUnits \div n)
         /\ Interval(g, k) \div n \in Nat \ {0} /\ Interval(g, k) = n * (Interval(g, k) \div n)
         /\ BeatUnits \div Interval(g, k) \in Nat \ {0}
         /\ BeatUnits \div n = (Interval(g, k) \div n) * (BeatUnits \div Interval(g, k))
<1> DEFINE I == Interval(g, k)
<1>0. n \in Nat \ {0} /\ BeatUnits \in Nat \ {0}
  BY GridHas, Zenon DEF Ready
<1>1. I \in Nat \ {0} /\ BeatUnits % I = 0 /\ I % n = 0 /\ BeatUnits % n = 0
  BY IntervalHas
<1> HIDE DEF I
<1> DEFINE line == BeatUnits \div n
<1> DEFINE u == I \div n
<1> DEFINE c == BeatUnits \div I
<1>2. line \in Nat \ {0} /\ BeatUnits = n * line
  BY <1>0, <1>1, DividesPos
<1>3. u \in Nat \ {0} /\ I = n * u
  BY <1>0, <1>1, DividesPos
<1>4. c \in Nat \ {0} /\ BeatUnits = I * c
  BY <1>0, <1>1, DividesPos
<1> HIDE DEF line, u, c
<1>5. n * line = (n * u) * c
  BY <1>2, <1>3, <1>4
<1>6. (n * u) * c = n * (u * c)
  BY <1>0, <1>3, <1>4
<1>7. (n * line) \div n = line /\ (n * (u * c)) \div n = u * c
  <2>1. u * c \in Int /\ line \in Int
    BY <1>2, <1>3, <1>4
  <2> QED BY <1>0, <2>1, DivOf
<1>8. line = u * c
  BY <1>5, <1>6, <1>7, Zenon
<1> QED BY <1>0, <1>2, <1>3, <1>4, <1>8, Zenon DEF I, u, c, line

LEMMA LeastNat ==
  ASSUME NEW S, S \subseteq Nat, S # {}
  PROVE  \E m \in S : \A x \in S : m <= x
<1>1. PICK m \in S : \A x \in S : ~(<<x, m>> \in OpToRel(<, Nat))
  BY NatLessThanWellFounded, WFMin, Zenon
<1>2. ASSUME NEW x \in S PROVE m <= x
  <2>1. ~(x < m)
    BY <1>1, Zenon DEF OpToRel
  <2> QED BY <2>1
<1> QED BY <1>2

\* The least and the greatest of whole numbers, bounded by low or high.
LEMMA LeastInt ==
  ASSUME NEW S, S \subseteq Int, S # {}, NEW low \in Int, \A x \in S : low <= x
  PROVE  \E m \in S : \A x \in S : m <= x
<1> DEFINE T == {x - low : x \in S}
<1>0. PICK x0 \in S : TRUE
  BY Zenon
<1>1. T \subseteq Nat /\ T # {}
  <2>1. x0 - low \in T
    BY <1>0
  <2>2. ASSUME NEW y \in T PROVE y \in Nat
    <3>1. PICK x \in S : y = x - low
      OBVIOUS
    <3> QED BY <3>1
  <2> QED BY <2>1, <2>2
<1>2. PICK k \in T : \A x \in T : k <= x
  <2> HIDE DEF T
  <2> QED BY <1>1, LeastNat, Zenon
<1>3. PICK m \in S : k = m - low
  OBVIOUS
<1>4. ASSUME NEW x \in S PROVE m <= x
  <2>1. x - low \in T
    OBVIOUS
  <2>2. m - low <= x - low
    BY <1>2, <1>3, <2>1, Zenon
  <2> QED BY <2>2
<1> QED BY <1>4

LEMMA GreatestInt ==
  ASSUME NEW S, S \subseteq Int, S # {}, NEW high \in Int, \A x \in S : x <= high
  PROVE  \E m \in S : \A x \in S : x <= m
<1> DEFINE T == {high - x : x \in S}
<1>0. PICK x0 \in S : TRUE
  BY Zenon
<1>1. T \subseteq Nat /\ T # {}
  <2>1. high - x0 \in T
    BY <1>0
  <2>2. ASSUME NEW y \in T PROVE y \in Nat
    <3>1. PICK x \in S : y = high - x
      OBVIOUS
    <3> QED BY <3>1
  <2> QED BY <2>1, <2>2
<1>2. PICK k \in T : \A x \in T : k <= x
  <2> HIDE DEF T
  <2> QED BY <1>1, LeastNat, Zenon
<1>3. PICK m \in S : k = high - m
  OBVIOUS
<1>4. ASSUME NEW x \in S PROVE x <= m
  <2>1. high - x \in T
    OBVIOUS
  <2>2. high - m <= high - x
    BY <1>2, <1>3, <2>1, Zenon
  <2> QED BY <2>2
<1> QED BY <1>4

\* The beats are in order.
LEMMA BeatsRise ==
  ASSUME NEW g, NEW D, Ready(g, D), NEW i \in 1..Len(g.beats), NEW j \in 1..Len(g.beats), i < j
  PROVE  g.beats[i] < g.beats[j]
<1> DEFINE S == {d \in Nat : d >= 1 /\ i + d <= Len(g.beats) /\ ~(g.beats[i] < g.beats[i + d])}
<1>0. Len(g.beats) \in Nat /\ \A k \in 1..Len(g.beats) : g.beats[k] \in Int
  BY GridHas, Zenon
<1>1. \A k \in 1..Len(g.beats) - 1 : g.beats[k + 1] - g.beats[k] > 0
  BY Zenon DEF Ready, IsGrid
<1>2. S = {}
  <2> SUFFICES ASSUME S # {} PROVE FALSE
    OBVIOUS
  <2>1. PICK d \in S : \A x \in S : d <= x
    <3>1. S \subseteq Nat
      OBVIOUS
    <3> HIDE DEF S
    <3> QED BY <3>1, LeastNat, Zenon
  <2>2. d \in Nat /\ d >= 1 /\ i + d <= Len(g.beats) /\ ~(g.beats[i] < g.beats[i + d])
    OBVIOUS
  <2>3. i + d - 1 \in 1..Len(g.beats) - 1 /\ (i + d - 1) + 1 = i + d
    BY <1>0, <2>2
  <2>4. g.beats[i + d] - g.beats[i + d - 1] > 0
    BY <1>1, <2>3
  <2>5. CASE d = 1
    <3>1. i + d - 1 = i
      BY <2>5
    <3>2. g.beats[i + d - 1] = g.beats[i]
      BY <3>1, Zenon
    <3>3. g.beats[i + d] \in Int /\ g.beats[i] \in Int
      BY <1>0, <2>2
    <3> QED BY <2>2, <2>4, <3>2, <3>3
  <2>6. CASE d > 1
    <3>1. d - 1 \in Nat /\ d - 1 >= 1 /\ i + (d - 1) <= Len(g.beats) /\ ~(d <= d - 1)
      BY <1>0, <2>2, <2>6
    <3>2. d - 1 \notin S
      BY <2>1, <3>1, Zenon
    <3>3. g.beats[i] < g.beats[i + (d - 1)]
      BY <3>1, <3>2, Zenon
    <3>4. i + (d - 1) = i + d - 1
      BY <2>2
    <3>5. g.beats[i] < g.beats[i + d - 1]
      BY <3>3, <3>4, Zenon
    <3>6. g.beats[i + d] \in Int /\ g.beats[i] \in Int /\ g.beats[i + d - 1] \in Int
      BY <1>0, <2>2, <2>3
    <3>7. g.beats[i] < g.beats[i + d]
      <4>1. PICK x \in Int, y \in Int, z \in Int : x = g.beats[i] /\ y = g.beats[i + d - 1] /\ z = g.beats[i + d]
        BY <3>6, Zenon
      <4>2. z - y > 0 /\ x < y
        BY <2>4, <3>5, <4>1, Zenon
      <4>3. x < z
        BY <4>2
      <4> QED BY <4>1, <4>3, Zenon
    <3>8. ~(g.beats[i] < g.beats[i + d])
      BY <2>2, Zenon
    <3> QED BY <3>7, <3>8, Zenon
  <2> QED BY <2>2, <2>5, <2>6
<1>3. PICK d \in Nat : d >= 1 /\ i + d = j
  <2> WITNESS j - i \in Nat
  <2> QED BY <1>0
<1>4. d \notin S
  BY <1>2
<1>5. i + d <= Len(g.beats)
  BY <1>0, <1>3
<1>6. g.beats[i] < g.beats[i + d]
  BY <1>3, <1>4, <1>5
<1> QED BY <1>3, <1>6, Zenon

\* The beat that is counted from: the last one that is not later.
LEMMA IndexHas ==
  ASSUME NEW g, NEW D, Ready(g, D), NEW sec \in Int
  PROVE  /\ IndexAt(g, sec) \in 0..Len(g.beats) - 2
         /\ \A j \in 0..Len(g.beats) - 2 : g.beats[j + 1] <= sec => j <= IndexAt(g, sec)
         /\ IndexAt(g, sec) > 0 => g.beats[IndexAt(g, sec) + 1] <= sec
<1> DEFINE before == {k \in 0..Len(g.beats) - 2 : g.beats[k + 1] <= sec}
<1>0. Len(g.beats) \in Nat /\ Len(g.beats) >= 2
  BY GridHas, Zenon
<1>1. CASE before = {}
  <2>1. IndexAt(g, sec) = 0
    BY <1>1 DEF IndexAt
  <2>2. \A j \in 0..Len(g.beats) - 2 : ~(g.beats[j + 1] <= sec)
    BY <1>1, Zenon
  <2> QED BY <1>0, <2>1, <2>2
<1>2. CASE before # {}
  <2>1. \E k \in before : \A j \in before : j <= k
    <3>1. before \subseteq Int /\ \A x \in before : x <= Len(g.beats)
      BY <1>0
    <3>2. Len(g.beats) \in Int
      BY <1>0
    <3> HIDE DEF before
    <3> QED BY <1>2, <3>1, <3>2, GreatestInt, Zenon
  <2>2. IndexAt(g, sec) = CHOOSE k \in before : \A j \in before : j <= k
    BY <1>2, Zenon DEF IndexAt
  <2>3. IndexAt(g, sec) \in before /\ \A j \in before : j <= IndexAt(g, sec)
    <3> HIDE DEF before
    <3> QED BY <2>1, <2>2, Zenon
  <2> QED BY <2>3
<1> QED BY <1>1, <1>2

LEMMA IndexIs ==
  ASSUME NEW g, NEW D, Ready(g, D), NEW sec \in Int, NEW i \in 0..Len(g.beats) - 2,
         i > 0 => g.beats[i + 1] <= sec, i < Len(g.beats) - 2 => sec < g.beats[i + 2]
  PROVE  IndexAt(g, sec) = i
<1> DEFINE k == IndexAt(g, sec)
<1>0. /\ Len(g.beats) \in Nat /\ Len(g.beats) >= 2
      /\ \A j \in 1..Len(g.beats) : g.beats[j] \in Int
  BY GridHas, Zenon
<1>1. /\ k \in 0..Len(g.beats) - 2
      /\ \A j \in 0..Len(g.beats) - 2 : g.beats[j + 1] <= sec => j <= k
      /\ k > 0 => g.beats[k + 1] <= sec
  BY IndexHas, Zenon
<1> HIDE DEF k
<1>2. ~(k < i)
  BY <1>0, <1>1
<1>3. ~(k > i)
  <2> SUFFICES ASSUME k > i PROVE FALSE
    OBVIOUS
  <2>1. i < Len(g.beats) - 2 /\ k > 0 /\ i + 2 \in 1..Len(g.beats) /\ k + 1 \in 1..Len(g.beats)
    BY <1>0, <1>1
  <2>2. sec < g.beats[i + 2] /\ g.beats[k + 1] <= sec
    BY <1>1, <2>1
  <2>3. g.beats[i + 2] \in Int /\ g.beats[k + 1] \in Int
    BY <1>0, <2>1, Zenon
  <2>4. CASE k + 1 = i + 2
    <3>1. g.beats[k + 1] = g.beats[i + 2]
      BY <2>4, Zenon
    <3> QED BY <2>2, <2>3, <3>1
  <2>5. CASE k + 1 # i + 2
    <3>1. i + 2 < k + 1
      BY <1>1, <2>5
    <3>2. g.beats[i + 2] < g.beats[k + 1]
      BY <2>1, <3>1, BeatsRise, Zenon
    <3> QED BY <2>2, <2>3, <3>2
  <2> QED BY <2>4, <2>5
<1>4. k = i
  BY <1>1, <1>2, <1>3
<1> QED BY <1>4 DEF k

LEMMA ClipSame ==
  ASSUME NEW g, NEW D, Ready(g, D), NEW i \in 0..Len(g.beats) - 2
  PROVE  Clip(g, i) = i
BY GridHas DEF Clip

LEMMA SecondsIs ==
  ASSUME NEW g, NEW D, Ready(g, D), NEW beat \in Int
  PROVE  \E i \in 0..Len(g.beats) - 2 :
           /\ i = Clip(g, beat \div BeatUnits - g.offset)
           /\ i > 0 => beat \div BeatUnits >= g.offset + i
           /\ i < Len(g.beats) - 2 => beat \div BeatUnits <= g.offset + i
           /\ Seconds(g, beat) = g.beats[i + 1]
                + ((beat - BeatUnits * (g.offset + i)) * Interval(g, i)) \div BeatUnits
<1>0. /\ Len(g.beats) \in Nat /\ Len(g.beats) >= 2 /\ g.offset \in Int /\ BeatUnits \in Nat \ {0}
  BY GridHas, Zenon
<1>1. PICK w \in Int : w = beat \div BeatUnits
  BY <1>0, DivMod
<1>2. PICK i \in 0..Len(g.beats) - 2 : i = Clip(g, w - g.offset)
  <2>1. w - g.offset \in Int
    BY <1>0
  <2> QED BY <2>1, ClipIn, Zenon
<1>3. /\ i > 0 => w >= g.offset + i
      /\ i < Len(g.beats) - 2 => w <= g.offset + i
  BY <1>0, <1>2 DEF Clip
<1>4. Seconds(g, beat) = g.beats[i + 1]
                + ((beat - BeatUnits * (g.offset + i)) * Interval(g, i)) \div BeatUnits
  BY <1>1, <1>2, Zenon DEF Seconds, Clip
<1> QED BY <1>1, <1>2, <1>3, <1>4, Zenon

LEMMA Ring ==
  ASSUME NEW a \in Int, NEW b \in Int, NEW c \in Int
  PROVE  /\ (a - b) * c = a * c - b * c /\ (a * b) * c = (a * c) * b /\ a * (b + c) = a * b + a * c
         /\ a * b = b * a /\ a * b \in Int /\ a * (b - c) = a * b - a * c
OBVIOUS

LEMMA RingFour ==
  ASSUME NEW a \in Int, NEW b \in Int, NEW c \in Int, NEW d \in Int
  PROVE  (a * b) * (c * d) = (c * b) * (a * d)
OBVIOUS

LEMMA NatProduct ==
  ASSUME NEW a \in Nat, NEW b \in Nat
  PROVE  a * b \in Nat
OBVIOUS

\* The K-th line lies in the i-th interval, m lines after its beat, where a line
\* is u units of time and c beat units make one of them.
LineOf(g, n, K, i, m, u, c, line) ==
  /\ line = BeatUnits \div n /\ line = u * c
  /\ Interval(g, i) = n * u /\ BeatUnits \div Interval(g, i) = c
  /\ K * line = BeatUnits * (g.offset + i) + m * line
  /\ Seconds(g, K * line) = g.beats[i + 1] + m * u
  /\ i > 0 => m >= 0
  /\ i < Len(g.beats) - 2 => m < n

LEMMA LineIs ==
  ASSUME NEW g, NEW D, Ready(g, D), NEW n \in D, NEW K \in Int
  PROVE  \E i \in 0..Len(g.beats) - 2, m \in Int, u \in Nat \ {0}, c \in Nat \ {0}, line \in Nat \ {0} :
           LineOf(g, n, K, i, m, u, c, line)
<1>0. /\ Len(g.beats) \in Nat /\ Len(g.beats) >= 2 /\ g.offset \in Int /\ BeatUnits \in Nat \ {0}
      /\ n \in Nat \ {0}
  <2>1. n \in Nat \ {0}
    BY DEF Ready
  <2> QED BY <2>1, GridHas, Zenon
<1>1. PICK line \in Nat \ {0} : line = BeatUnits \div n /\ BeatUnits = n * line
  <2>1. 0 \in Int
    OBVIOUS
  <2>2. BeatUnits \div n \in Nat \ {0} /\ BeatUnits = n * (BeatUnits \div n)
    BY <2>1, Units, Zenon
  <2> QED BY <2>2, Zenon
<1>2. PICK p \in Int : p = K * line
  OBVIOUS
<1>3. PICK i \in 0..Len(g.beats) - 2 :
           /\ i = Clip(g, p \div BeatUnits - g.offset)
           /\ i > 0 => p \div BeatUnits >= g.offset + i
           /\ i < Len(g.beats) - 2 => p \div BeatUnits <= g.offset + i
           /\ Seconds(g, p) = g.beats[i + 1]
                + ((p - BeatUnits * (g.offset + i)) * Interval(g, i)) \div BeatUnits
  BY <1>2, SecondsIs, Zenon
<1>4. i \in Int
  BY <1>0
<1> DEFINE u == Interval(g, i) \div n
<1> DEFINE c == BeatUnits \div Interval(g, i)
<1>5. u \in Nat \ {0} /\ c \in Nat \ {0} /\ Interval(g, i) = n * u /\ BeatUnits \div n = u * c
  <2>1. /\ Interval(g, i) \div n \in Nat \ {0} /\ Interval(g, i) = n * (Interval(g, i) \div n)
        /\ BeatUnits \div Interval(g, i) \in Nat \ {0}
        /\ BeatUnits \div n = (Interval(g, i) \div n) * (BeatUnits \div Interval(g, i))
    <3> HIDE DEF u, c
    <3> QED BY <1>4, Units
  <2> QED BY <2>1, Zenon
<1>5a. c = BeatUnits \div Interval(g, i)
  OBVIOUS
<1> HIDE DEF u, c
<1>11. PICK q \in Int : q = g.offset + i
  BY <1>0, <1>4
<1> DEFINE m == K - n * q
<1>7. m \in Int
  BY <1>0, <1>4
<1>8. p = BeatUnits * q + m * line
  <2>1. m * line = K * line - (n * q) * line
    <3>1. n * q \in Int /\ line \in Int
      BY <1>0
    <3> QED BY <3>1, Ring
  <2>2. (n * q) * line = (n * line) * q
    BY <1>0, Ring
  <2>3. m * line \in Int /\ (n * line) * q \in Int
    BY <1>0, <1>7
  <2>4. K * line = (n * line) * q + m * line
    BY <2>1, <2>2, <2>3, <1>2
  <2> QED BY <1>1, <1>2, <2>4, Zenon
<1> HIDE DEF m
<1>9. Seconds(g, p) = g.beats[i + 1] + m * u
  <2>1. PICK s \in Int : s = BeatUnits * q
    BY <1>0
  <2>2. p - s = m * line
    BY <1>7, <1>8, <2>1
  <2>4. (m * line) * (n * u) = (n * line) * (m * u)
    BY <1>0, <1>5, <1>7, RingFour
  <2>5. ((n * line) * (m * u)) \div (n * line) = m * u
    <3>1. n * line \in Nat \ {0} /\ m * u \in Int
      BY <1>0, <1>1, <1>5, <1>7
    <3> QED BY <3>1, DivOf, Zenon
  <2>6. ((p - BeatUnits * (g.offset + i)) * Interval(g, i)) \div BeatUnits = m * u
    BY <1>1, <1>5, <1>11, <2>1, <2>2, <2>4, <2>5, Zenon
  <2> QED BY <1>3, <2>6, Zenon
<1>10. PICK w \in Int, r \in Nat : w = p \div BeatUnits /\ r < BeatUnits /\ p = BeatUnits * w + r
  <2>2. p \div BeatUnits \in Int /\ (p % BeatUnits) \in Nat /\ (p % BeatUnits) < BeatUnits
         /\ p = BeatUnits * (p \div BeatUnits) + (p % BeatUnits)
    BY <1>0, DivMod, Zenon
  <2> QED BY <2>2, Zenon
<1>12. m * line = BeatUnits * (w - q) + r
  <2>1. BeatUnits * (w - q) = BeatUnits * w - BeatUnits * q
    BY <1>0, Ring
  <2>2. BeatUnits * w \in Int /\ BeatUnits * q \in Int /\ m * line \in Int
    BY <1>0, <1>7
  <2>3. PICK Q \in Int, W \in Int, M \in Int :
             Q = BeatUnits * q /\ W = BeatUnits * w /\ M = m * line
    BY <2>2, Zenon
  <2>4. p = Q + M /\ p = W + r
    BY <1>8, <1>10, <2>3, Zenon
  <2>5. M = (W - Q) + r
    BY <2>4
  <2> QED BY <2>1, <2>3, <2>5, Zenon
<1>13. i > 0 => m >= 0
  <2> SUFFICES ASSUME i > 0, ~(m >= 0) PROVE FALSE
    OBVIOUS
  <2>0. w >= q
    BY <1>3, <1>10, <1>11, Zenon
  <2>1. w - q \in Nat
    BY <2>0
  <2>2. m <= -1 /\ line * m <= -line
    BY <1>7, TimesGrows
  <2>3. line * m = m * line /\ m * line \in Int
    BY <1>7, Ring
  <2>4. BeatUnits * (w - q) \in Nat
    BY <1>0, <2>1, NatProduct
  <2> QED BY <1>7, <1>12, <2>2, <2>3, <2>4
<1>14. i < Len(g.beats) - 2 => m < n
  <2> SUFFICES ASSUME i < Len(g.beats) - 2, ~(m < n) PROVE FALSE
    OBVIOUS
  <2>0. w <= q
    BY <1>3, <1>10, <1>11, Zenon
  <2>1. q - w \in Nat /\ m - n \in Nat
    BY <1>0, <1>7, <2>0
  <2>2. line * (m - n) \in Nat /\ BeatUnits * (q - w) \in Nat
    BY <1>0, <2>1, NatProduct
  <2>3. line * (m - n) = line * m - line * n /\ line * m = m * line /\ line * n = n * line
    BY <1>0, <1>7, Ring
  <2>4. BeatUnits * (q - w) = BeatUnits * q - BeatUnits * w /\ BeatUnits * (w - q) = BeatUnits * w - BeatUnits * q
    BY <1>0, Ring
  <2>5. m * line \in Int /\ n * line \in Int /\ BeatUnits * q \in Int /\ BeatUnits * w \in Int
    BY <1>0, <1>7, Ring
  <2>6. m * line - BeatUnits >= 0
    BY <1>1, <2>2, <2>3, <2>5
  <2>7. m * line <= r
    BY <1>12, <2>2, <2>4, <2>5
  <2> QED BY <1>0, <1>10, <2>5, <2>6, <2>7
<1>15. LineOf(g, n, K, i, m, u, c, line)
  BY <1>1, <1>2, <1>5, <1>5a, <1>8, <1>9, <1>11, <1>13, <1>14, Zenon DEF LineOf
<1> QED BY <1>5, <1>7, <1>15, Zenon

LEMMA SecondsWhole ==
  ASSUME NEW g, NEW D, Ready(g, D), NEW beat \in Int
  PROVE  Seconds(g, beat) \in Int
<1>0. /\ Len(g.beats) \in Nat /\ g.offset \in Int /\ BeatUnits \in Nat \ {0}
      /\ \A j \in 1..Len(g.beats) : g.beats[j] \in Int
  BY GridHas, Zenon
<1>1. PICK i \in 0..Len(g.beats) - 2 :
        Seconds(g, beat) = g.beats[i + 1]
                + ((beat - BeatUnits * (g.offset + i)) * Interval(g, i)) \div BeatUnits
  BY SecondsIs, Zenon
<1>2. i \in Int /\ i + 1 \in 1..Len(g.beats)
  BY <1>0
<1>3. PICK I \in Nat : I = Interval(g, i)
  BY <1>2, IntervalHas
<1>4. PICK x \in Int : x = (beat - BeatUnits * (g.offset + i)) * I
  BY <1>0, <1>2
<1>5. x \div BeatUnits \in Int
  BY <1>0, DivMod
<1>6. g.beats[i + 1] \in Int
  BY <1>0, <1>2
<1>7. Seconds(g, beat) = g.beats[i + 1] + x \div BeatUnits
  BY <1>1, <1>3, <1>4, Zenon
<1> QED BY <1>5, <1>6, <1>7

LEMMA BeatWhole ==
  ASSUME NEW g, NEW D, Ready(g, D), NEW sec \in Int
  PROVE  Beat(g, sec) \in Int
<1>0. /\ Len(g.beats) \in Nat /\ g.offset \in Int /\ BeatUnits \in Nat \ {0}
      /\ \A j \in 1..Len(g.beats) : g.beats[j] \in Int
  BY GridHas, Zenon
<1>1. PICK k \in 0..Len(g.beats) - 2 : k = IndexAt(g, sec)
  BY IndexHas, Zenon
<1>2. k \in Int /\ k + 1 \in 1..Len(g.beats)
  BY <1>0
<1>3. PICK c \in Int : c = BeatUnits \div Interval(g, k)
  <2>1. Interval(g, k) \in Nat \ {0}
    BY <1>2, IntervalHas
  <2> QED BY <1>0, <2>1, DivMod
<1>4. PICK b \in Int : b = g.beats[k + 1]
  BY <1>0, <1>2
<1>5. Beat(g, sec) = BeatUnits * (g.offset + k) + (sec - b) * c
  BY <1>1, <1>3, <1>4, Zenon DEF Beat
<1> QED BY <1>0, <1>2, <1>5

LEMMA LineBeat ==
  ASSUME NEW g, NEW D, Ready(g, D), NEW n \in D, NEW K \in Int
  PROVE  Beat(g, Seconds(g, K * (BeatUnits \div n))) = K * (BeatUnits \div n)
<1>0. /\ Len(g.beats) \in Nat /\ Len(g.beats) >= 2 /\ g.offset \in Int /\ BeatUnits \in Nat \ {0}
      /\ \A j \in 1..Len(g.beats) : g.beats[j] \in Int
  BY GridHas, Zenon
<1>0n. n \in Nat \ {0}
  BY DEF Ready
<1>1. PICK i \in 0..Len(g.beats) - 2, m \in Int, u \in Nat \ {0}, c \in Nat \ {0}, line \in Nat \ {0} :
           LineOf(g, n, K, i, m, u, c, line)
  BY LineIs, Zenon
<1>2. /\ line = BeatUnits \div n /\ line = u * c
      /\ Interval(g, i) = n * u /\ BeatUnits \div Interval(g, i) = c
      /\ K * line = BeatUnits * (g.offset + i) + m * line
      /\ Seconds(g, K * line) = g.beats[i + 1] + m * u
      /\ i > 0 => m >= 0
      /\ i < Len(g.beats) - 2 => m < n
  BY <1>1, Zenon DEF LineOf
<1>3. i \in Int /\ i + 1 \in 1..Len(g.beats) /\ i + 2 \in 1..Len(g.beats)
  BY <1>0
<1>4. PICK b \in Int : b = g.beats[i + 1]
  BY <1>0, <1>3
<1>5. PICK b2 \in Int : b2 = g.beats[i + 2]
  BY <1>0, <1>3
<1>6. b2 - b = n * u
  <2>1. Interval(g, i) = g.beats[Clip(g, i) + 2] - g.beats[Clip(g, i) + 1]
    BY <1>3, IntervalIs
  <2>2. Clip(g, i) = i
    BY ClipSame
  <2> QED BY <1>2, <1>4, <1>5, <2>1, <2>2, Zenon
<1>7. PICK sec \in Int : sec = b + m * u /\ sec = Seconds(g, K * line)
  <2>1. b + m * u \in Int
    OBVIOUS
  <2> QED BY <1>2, <1>4, <2>1, Zenon
<1>8. i > 0 => g.beats[i + 1] <= sec
  <2> SUFFICES ASSUME i > 0 PROVE b <= sec
    BY <1>4, Zenon
  <2>1. m \in Nat
    BY <1>2
  <2>2. m * u \in Nat
    BY <2>1, NatProduct
  <2> QED BY <1>7, <2>2
<1>9. i < Len(g.beats) - 2 => sec < g.beats[i + 2]
  <2> SUFFICES ASSUME i < Len(g.beats) - 2 PROVE sec < b2
    BY <1>5, Zenon
  <2>1. PICK e \in Int : e = n - m /\ e >= 1
    <3>1. m < n
      BY <1>2
    <3> QED BY <3>1, <1>0n
  <2>2. u * e >= u
    BY <2>1, TimesGrows
  <2>3. u * e = u * n - u * m /\ u * n = n * u /\ u * m = m * u /\ u * n \in Int /\ u * m \in Int
    BY <2>1, <1>0n, Ring
  <2> QED BY <1>6, <1>7, <2>2, <2>3
<1>10. IndexAt(g, sec) = i
  BY <1>8, <1>9, IndexIs, Zenon
<1>11. Beat(g, sec) = BeatUnits * (g.offset + i) + (sec - b) * c
  BY <1>2, <1>4, <1>10, Zenon DEF Beat
<1>12. (sec - b) * c = m * line
  <2>1. sec - b = m * u
    BY <1>7
  <2>2. (m * u) * c = m * (u * c)
    OBVIOUS
  <2> QED BY <1>2, <2>1, <2>2, Zenon
<1> QED BY <1>2, <1>7, <1>11, <1>12, Zenon

\* The line nearest to a position is at most half a line away, and that of a
\* line is the line itself.
LEMMA RoundedNear ==
  ASSUME NEW x \in Int, NEW line \in Nat \ {0}
  PROVE  /\ Rounded(x, line) \in Int
         /\ 2 * (x - Rounded(x, line) * line) <= line
         /\ 2 * (x - Rounded(x, line) * line) >= -line
<1>1. PICK y \in Int, z \in Nat \ {0} : y = 2 * x + line /\ z = 2 * line
  OBVIOUS
<1>2. PICK d \in Int : d = Rounded(x, line) /\ (\E r \in Nat : r < z /\ y = z * d + r)
  <2>1. y \div z \in Int /\ (y % z) \in Nat /\ (y % z) < z /\ y = z * (y \div z) + (y % z)
    BY DivMod
  <2>2. Rounded(x, line) = y \div z
    BY <1>1, Zenon DEF Rounded
  <2> QED BY <2>1, <2>2, Zenon
<1>3. z * d = 2 * (d * line)
  BY <1>1
<1>4. d * line \in Int
  OBVIOUS
<1>5. 2 * (x - d * line) <= line /\ 2 * (x - d * line) >= -line
  BY <1>1, <1>2, <1>3, <1>4
<1> QED BY <1>2, <1>5, Zenon

LEMMA RoundedLine ==
  ASSUME NEW K \in Int, NEW line \in Nat \ {0}
  PROVE  Rounded(K * line, line) = K
<1>1. PICK y \in Int, z \in Nat \ {0} : y = 2 * (K * line) + line /\ z = 2 * line
  OBVIOUS
<1>2. z * K = 2 * (K * line) /\ K * line \in Int
  BY <1>1
<1>3. z * K <= y /\ y < z * K + z
  BY <1>1, <1>2
<1>4. y \div z = K
  BY <1>3, DivIs
<1> QED BY <1>1, <1>4, Zenon DEF Rounded

LEMMA SnapNear ==
  ASSUME NEW g, NEW D, Ready(g, D), NEW n \in D, NEW t \in Int
  PROVE  /\ Snap(g, t, n) \in Int
         /\ 2 * (Beat(g, t) - Beat(g, Snap(g, t, n))) <= BeatUnits \div n
         /\ 2 * (Beat(g, t) - Beat(g, Snap(g, t, n))) >= -(BeatUnits \div n)
<1>1. PICK line \in Nat \ {0} : line = BeatUnits \div n
  <2>1. 0 \in Int
    OBVIOUS
  <2>2. BeatUnits \div n \in Nat \ {0}
    BY <2>1, Units, Zenon
  <2> QED BY <2>2, Zenon
<1>2. PICK x \in Int : x = Beat(g, t)
  BY BeatWhole, Zenon
<1>3. PICK K \in Int : /\ K = Rounded(x, line)
                       /\ 2 * (x - K * line) <= line /\ 2 * (x - K * line) >= -line
  BY RoundedNear, Zenon
<1>4. Snap(g, t, n) = Seconds(g, K * line)
  BY <1>1, <1>2, <1>3, Zenon DEF Snap
<1>5. Beat(g, Snap(g, t, n)) = K * line
  BY <1>1, <1>4, LineBeat, Zenon
<1>6. K * line \in Int
  OBVIOUS
<1>7. Snap(g, t, n) \in Int
  BY <1>4, <1>6, SecondsWhole, Zenon
<1> QED BY <1>1, <1>2, <1>3, <1>5, <1>7, Zenon

LEMMA LinesAreSnapped ==
  ASSUME NEW g, NEW D, Ready(g, D), NEW n \in D, NEW from \in Int, NEW to \in Int,
         NEW l \in Lines(g, from, to, n)
  PROVE  Snap(g, l.t, n) = l.t /\ Step(g, Step(g, l.t, n, 1), n, -1) = l.t
<1>1. PICK line \in Nat \ {0} : line = BeatUnits \div n
  <2>1. 0 \in Int
    OBVIOUS
  <2>2. BeatUnits \div n \in Nat \ {0}
    BY <2>1, Units, Zenon
  <2> QED BY <2>2, Zenon
<1>2. PICK K \in Int : l.t = Seconds(g, K * line)
  <2>1. PICK x \in Int, y \in Int : x = Beat(g, from) /\ y = Beat(g, to)
    BY BeatWhole, Zenon
  <2> DEFINE first == (x + line - 1) \div line
             last == y \div line
  <2>2. first \in Int /\ last \in Int
    BY DivMod
  <2> HIDE DEF first, last
  <2>3. PICK kind : l \in {[t |-> Seconds(g, k * line), beat |-> k * line, kind |-> kind[k]] : k \in first..last}
    <3> DEFINE kinds(k) == IF k % n # 0 THEN "sub"
                      ELSE IF BarAt(g, k \div n).startBeat = k \div n THEN "bar" ELSE "beat"
    <3>1. l \in {[t |-> Seconds(g, k * line), beat |-> k * line, kind |-> kinds(k)] : k \in first..last}
      BY <1>1, <2>1, Zenon DEF Lines, first, last, Ready
    <3> HIDE DEF kinds
    <3>2. \A k \in first..last : [j \in first..last |-> kinds(j)][k] = kinds(k)
      OBVIOUS
    <3>3. l \in {[t |-> Seconds(g, k * line), beat |-> k * line,
                   kind |-> [j \in first..last |-> kinds(j)][k]] : k \in first..last}
      BY <3>1, <3>2
    <3> QED BY <3>3, Zenon
  <2>4. PICK K \in first..last : l = [t |-> Seconds(g, K * line), beat |-> K * line, kind |-> kind[K]]
    BY <2>3
  <2>5. K \in Int
    BY <2>2, <2>4
  <2> QED BY <2>4, <2>5
<1>3. Beat(g, l.t) = K * line
  BY <1>1, <1>2, LineBeat, Zenon
<1>4. Snap(g, l.t, n) = l.t
  <2>1. Rounded(K * line, line) = K
    BY RoundedLine
  <2> QED BY <1>1, <1>2, <1>3, <2>1, Zenon DEF Snap
<1>5. Step(g, l.t, n, 1) = Seconds(g, (K + 1) * line)
  <2>1. K * line + 1 * line = (K + 1) * line
    OBVIOUS
  <2> QED BY <1>1, <1>3, <2>1, Zenon DEF Step
<1>6. Beat(g, Step(g, l.t, n, 1)) = (K + 1) * line
  <2>1. K + 1 \in Int
    OBVIOUS
  <2> QED BY <1>1, <1>5, <2>1, LineBeat, Zenon
<1>7. Step(g, Step(g, l.t, n, 1), n, -1) = Seconds(g, K * line)
  <2>1. (K + 1) * line + (-1) * line = K * line
    OBVIOUS
  <2> QED BY <1>1, <1>6, <2>1, Zenon DEF Step
<1> QED BY <1>2, <1>4, <1>7, Zenon

-----------------------------------------------------------------------------

\* Finitely many numbers have a least and a greatest one.
LEMMA FiniteAbove ==
  ASSUME NEW H, IsFiniteSet(H), H \subseteq Int
  PROVE  \E b \in Int : \A x \in H : x <= b
<1> DEFINE Bad == {T \in SUBSET H : ~\E b \in Int : \A x \in T : x <= b}
<1>1. Bad \subseteq FiniteSubsetsOf(H)
  BY FS_Subset DEF FiniteSubsetsOf
<1>2. Bad = {}
  <2>1. SUFFICES ASSUME Bad # {} PROVE FALSE
    OBVIOUS
  <2>2. PICK T \in Bad : \A U \in Bad : ~(<<U, T>> \in StrictSubsetOrdering(H))
    <3> HIDE DEF Bad
    <3> QED BY <1>1, <2>1, FS_StrictSubsetOrderingWellFounded, WFMin
  <2>3. T \in SUBSET H /\ \A b \in Int : ~\A x \in T : x <= b
    OBVIOUS
  <2>4. PICK y \in T : TRUE
    <3>1. T = {} => \A x \in T : x <= 0
      OBVIOUS
    <3> QED BY <2>3, <3>1
  <2> DEFINE U == T \ {y}
  <2>5. U \notin Bad /\ U \in SUBSET H
    <3>1. <<U, T>> \in StrictSubsetOrdering(H)
      BY <2>3, <2>4, Zenon DEF StrictSubsetOrdering
    <3> HIDE DEF Bad
    <3> QED BY <2>2, <2>3, <3>1
  <2>6. PICK b \in Int : \A x \in U : x <= b
    BY <2>5
  <2>7. y \in Int /\ \A x \in T : x \in Int
    BY <2>3
  <2>8. \E c \in Int : \A x \in T : x <= c
    <3>1. CASE y <= b
      BY <2>6, <3>1
    <3>2. CASE ~(y <= b)
      <4>1. \A x \in T : x <= y
        BY <2>6, <2>7, <3>2
      <4> QED BY <2>7, <4>1
    <3> QED BY <3>1, <3>2
  <2> QED BY <2>3, <2>8
<1> QED BY <1>2

LEMMA FiniteGreatest ==
  ASSUME NEW H, IsFiniteSet(H), H \subseteq Int, H # {}
  PROVE  \E m \in H : \A x \in H : x <= m
<1>1. PICK b \in Int : \A x \in H : x <= b
  BY FiniteAbove, Zenon
<1> QED BY <1>1, GreatestInt, Zenon

LEMMA FiniteLeast ==
  ASSUME NEW H, IsFiniteSet(H), H \subseteq Int, H # {}
  PROVE  \E m \in H : \A x \in H : m <= x
<1> DEFINE f == [x \in H |-> -x]
           T == {f[x] : x \in H}
<1>1. IsFiniteSet(T)
  BY ImageFinite, Zenon
<1>2. T \subseteq Int
  OBVIOUS
<1>3. PICK b \in Int : \A y \in T : y <= b
  <2> HIDE DEF T
  <2> QED BY <1>1, <1>2, FiniteAbove, Zenon
<1>4. \A x \in H : -b <= x
  <2> SUFFICES ASSUME NEW x \in H PROVE -b <= x
    OBVIOUS
  <2>1. f[x] \in T /\ f[x] = -x
    OBVIOUS
  <2>2. -x <= b
    BY <1>3, <2>1
  <2> QED BY <2>2
<1>5. -b \in Int
  OBVIOUS
<1> QED BY <1>4, <1>5, LeastInt, Zenon

-----------------------------------------------------------------------------
(* Bars *)

\* What is known of the changes of signature: finitely many at different beats,
\* the first one at the first beat or before.
LEMMA ChangesAre ==
  ASSUME NEW g, NEW D, Ready(g, D)
  PROVE  /\ IsFiniteSet(Changes(g))
         /\ \A s \in Changes(g) : s.beat \in Int /\ s.numerator \in Nat \ {0}
         /\ \A r, s \in Changes(g) : r.beat = s.beat => r = s
         /\ \E s \in Changes(g) : s.beat <= 0
<1> DEFINE G == g.signatures
           N == Len(g.signatures)
           Lasts == {i \in DOMAIN G : \A j \in DOMAIN G : j > i => G[j].beat # G[i].beat}
           given == {[beat |-> G[i].beat, numerator |-> G[i].numerator] : i \in Lasts}
           Earlier(i, j) == \/ G[i].beat < G[j].beat
                            \/ G[i].beat = G[j].beat /\ i <= j
           first == CHOOSE i \in DOMAIN G : \A j \in DOMAIN G : Earlier(i, j)
<1>1. /\ N \in Nat /\ DOMAIN G = 1..N
      /\ \A i \in 1..N : G[i] \in [beat : Int, numerator : Nat \ {0}]
  <2> DEFINE R == [beat : Int, numerator : Nat \ {0}]
  <2>1. G \in Seq(R)
    BY Zenon DEF Ready, IsGrid
  <2> HIDE DEF R, G
  <2>2. Len(G) \in Nat /\ DOMAIN G = 1..Len(G) /\ \A i \in 1..Len(G) : G[i] \in R
    BY <2>1
  <2> QED BY <2>2, Zenon DEF R, G
<1>2. \A i \in 1..N : G[i].beat \in Int /\ G[i].numerator \in Nat \ {0}
  BY <1>1
<1>3. IsFiniteSet(given)
  <2> DEFINE f == [i \in Lasts |-> [beat |-> G[i].beat, numerator |-> G[i].numerator]]
  <2>1. IsFiniteSet(1..N)
    BY <1>1, FS_Interval
  <2>2. IsFiniteSet(Lasts)
    <3>1. Lasts \in SUBSET (1..N)
      BY <1>1
    <3> HIDE DEF Lasts
    <3> QED BY <2>1, <3>1, FS_Subset, Zenon
  <2>3. IsFiniteSet({f[i] : i \in Lasts})
    <3>1. f = [i \in Lasts |-> f[i]]
      BY Zenon
    <3> HIDE DEF f, Lasts
    <3> QED BY <2>2, <3>1, ImageFinite
  <2>4. given = {f[i] : i \in Lasts}
    BY Zenon
  <2> QED BY <2>3, <2>4, Zenon
<1>4. \A s \in given : \E i \in 1..N : i \in Lasts /\ s = [beat |-> G[i].beat, numerator |-> G[i].numerator]
  <2>1. Lasts \subseteq 1..N
    BY <1>1
  <2> HIDE DEF Lasts
  <2> QED BY <2>1, Zenon
<1>5. \A s \in given : s.beat \in Int /\ s.numerator \in Nat \ {0}
  BY <1>2, <1>4
<1>6. \A r, s \in given : r.beat = s.beat => r = s
  <2> SUFFICES ASSUME NEW r \in given, NEW s \in given, r.beat = s.beat PROVE r = s
    OBVIOUS
  <2>1. PICK i \in 1..N : i \in Lasts /\ r = [beat |-> G[i].beat, numerator |-> G[i].numerator]
    BY <1>4
  <2>2. PICK j \in 1..N : j \in Lasts /\ s = [beat |-> G[j].beat, numerator |-> G[j].numerator]
    BY <1>4
  <2>3. G[i].beat = G[j].beat
    BY <2>1, <2>2
  <2>4. ~(j > i) /\ ~(i > j)
    BY <1>1, <2>1, <2>2, <2>3
  <2>5. i = j
    BY <2>4
  <2> QED BY <2>1, <2>2, <2>5
\* Every given signature is there, itself or as the later one at its beat.
<1>7. ASSUME NEW i \in 1..N PROVE \E s \in given : s.beat = G[i].beat
  <2> DEFINE Same == {j \in 1..N : G[j].beat = G[i].beat}
  <2>1. PICK j \in Same : \A k \in Same : k <= j
    <3>1. Same \subseteq Int /\ i \in Same /\ N \in Int /\ \A k \in Same : k <= N
      BY <1>1
    <3> HIDE DEF Same
    <3> QED BY <3>1, GreatestInt, Zenon
  <2>2. j \in 1..N /\ G[j].beat = G[i].beat
    OBVIOUS
  <2>3. j \in Lasts
    <3>1. ASSUME NEW k \in 1..N, k > j, G[k].beat = G[j].beat PROVE FALSE
      <4>1. k \in Same
        BY <2>2, <3>1
      <4>2. k <= j
        BY <2>1, <4>1, Zenon
      <4> QED BY <3>1, <4>2
    <3> QED BY <1>1, <2>2, <3>1
  <2>4. [beat |-> G[j].beat, numerator |-> G[j].numerator] \in given
    BY <2>3
  <2> QED BY <2>2, <2>4, Zenon
<1>8. CASE given = {}
  <2>1. Changes(g) = {[beat |-> 0, numerator |-> 4]}
    BY <1>8, Zenon DEF Changes
  <2>2. IsFiniteSet(Changes(g))
    BY <2>1, FS_Singleton, Zenon
  <2> HIDE DEF given, first
  <2> QED BY <2>1, <2>2
<1>9. CASE given # {}
  <2>1. first \in 1..N /\ \A j \in 1..N : Earlier(first, j)
    <3>1. PICK i0 \in 1..N : TRUE
      BY <1>4, <1>9
    <3> DEFINE f == [i \in 1..N |-> G[i].beat]
               B == {f[i] : i \in 1..N}
    <3>2. IsFiniteSet(B) /\ B \subseteq Int /\ B # {}
      <4>1. IsFiniteSet(1..N)
        BY <1>1, FS_Interval
      <4>2. IsFiniteSet(B)
        BY <4>1, ImageFinite, Zenon
      <4> QED BY <1>2, <3>1, <4>2, Zenon
    <3>3. PICK b \in B : \A c \in B : b <= c
      <4> HIDE DEF B
      <4> QED BY <3>2, FiniteLeast, Zenon
    <3> DEFINE Low == {i \in 1..N : G[i].beat = b}
    <3>4. PICK i \in Low : \A k \in Low : i <= k
      <4>0. PICK k \in 1..N : b = f[k]
        BY <3>3
      <4>1. Low \subseteq Nat /\ k \in Low
        BY <4>0
      <4> HIDE DEF Low
      <4> QED BY <4>1, LeastNat, Zenon
    <3>5. i \in 1..N /\ G[i].beat = b
      OBVIOUS
    <3>6. ASSUME NEW j \in 1..N PROVE Earlier(i, j)
      <4>1. f[j] \in B /\ f[j] = G[j].beat
        OBVIOUS
      <4>2. b <= G[j].beat /\ G[j].beat \in Int /\ b \in Int
        BY <1>2, <3>3, <3>5, <4>1, Zenon
      <4>3. CASE G[j].beat = b
        <5>1. j \in Low
          BY <4>3
        <5> QED BY <3>4, <3>5, <4>3, <5>1, Zenon
      <4>4. CASE G[j].beat # b
        BY <3>5, <4>2, <4>4
      <4> QED BY <4>3, <4>4
    <3>7. \E x \in DOMAIN G : \A j \in DOMAIN G : Earlier(x, j)
      <4> HIDE DEF Earlier
      <4> QED BY <1>1, <3>5, <3>6, Zenon
    <3> HIDE DEF Earlier
    <3>8. first \in DOMAIN G /\ \A j \in DOMAIN G : Earlier(first, j)
      BY <3>7, Zenon
    <3> QED BY <1>1, <3>8, Zenon
  <2>2. Changes(g) = IF G[first].beat > 0
                     THEN given \cup {[beat |-> 0, numerator |-> G[first].numerator]}
                     ELSE given
    BY <1>9, Zenon DEF Changes
  <2> HIDE DEF first
  <2>3. G[first].beat \in Int /\ G[first].numerator \in Nat \ {0}
    BY <1>2, <2>1
  <2>4. CASE G[first].beat > 0
    <3> DEFINE z == [beat |-> 0, numerator |-> G[first].numerator]
    <3>1. \A s \in given : s.beat > 0
      <4> SUFFICES ASSUME NEW s \in given PROVE s.beat > 0
        OBVIOUS
      <4>1. PICK j \in 1..N : s.beat = G[j].beat
        BY <1>4
      <4>2. G[first].beat <= G[j].beat /\ G[j].beat \in Int
        BY <1>2, <2>1
      <4> QED BY <2>3, <2>4, <4>1, <4>2
    <3>2. Changes(g) = given \cup {z}
      BY <2>2, <2>4, Zenon
    <3>3. IsFiniteSet(Changes(g))
      BY <1>3, <3>2, FS_AddElement, Zenon
    <3>4. z.beat = 0 /\ z.numerator \in Nat \ {0}
      BY <2>3
    <3> HIDE DEF z, given
    <3>5. \A s \in Changes(g) : s.beat \in Int /\ s.numerator \in Nat \ {0}
      BY <1>5, <3>2, <3>4
    <3>6. \A r, s \in Changes(g) : r.beat = s.beat => r = s
      BY <1>6, <3>1, <3>2, <3>4
    <3>7. z \in Changes(g) /\ z.beat <= 0
      BY <3>2, <3>4
    <3> QED BY <3>3, <3>5, <3>6, <3>7, Zenon
  <2>5. CASE ~(G[first].beat > 0)
    <3>1. Changes(g) = given
      BY <2>2, <2>5, Zenon
    <3>2. \E s \in given : s.beat = G[first].beat
      BY <1>7, <2>1, Zenon
    <3> HIDE DEF given
    <3>3. \E s \in given : s.beat <= 0
      BY <2>3, <2>5, <3>2
    <3> QED BY <1>3, <1>5, <1>6, <3>1, <3>3, Zenon
  <2> QED BY <2>4, <2>5
<1> QED BY <1>8, <1>9

LEMMA BeatsFinite ==
  ASSUME NEW g, NEW D, Ready(g, D), NEW S \in SUBSET Changes(g)
  PROVE  IsFiniteSet({s.beat : s \in S}) /\ {s.beat : s \in S} \subseteq Int
<1> DEFINE f == [s \in S |-> s.beat]
<1>1. IsFiniteSet(S)
  BY ChangesAre, FS_Subset
<1>2. IsFiniteSet({f[s] : s \in S})
  <2>1. f = [s \in S |-> f[s]]
    BY Zenon
  <2> HIDE DEF f
  <2> QED BY <1>1, <2>1, ImageFinite
<1>3. {f[s] : s \in S} = {s.beat : s \in S}
  OBVIOUS
<1>4. \A s \in S : s.beat \in Int
  BY ChangesAre
<1> QED BY <1>2, <1>3, <1>4, Zenon

\* The bar of a beat is counted from the last change that is not later.
SegOf(g, b, s) == s \in Changes(g) /\ s.beat <= b /\ \A r \in Changes(g) : r.beat <= b => r.beat <= s.beat

LEMMA SegmentIs ==
  ASSUME NEW g, NEW D, Ready(g, D), NEW b \in Nat
  PROVE  \E s \in Changes(g) :
           /\ SegOf(g, b, s)
           /\ BarAt(g, b) =
                [bar |-> FirstBar(g, s) + (b - s.beat) \div s.numerator,
                 startBeat |-> s.beat + ((b - s.beat) \div s.numerator) * s.numerator,
                 numerator |-> s.numerator]
<1> DEFINE C == Changes(g)
           segments == {s \in C : s.beat <= b}
           seg == CHOOSE s \in segments : \A r \in segments : r.beat <= s.beat
<1>1. /\ \A s \in C : s.beat \in Int /\ s.numerator \in Nat \ {0}
      /\ \E s \in C : s.beat <= 0
  BY ChangesAre, Zenon
<1>2. segments # {}
  <2>1. PICK s \in C : s.beat <= 0 /\ s.beat \in Int
    BY <1>1, Zenon
  <2>2. s.beat <= b
    BY <2>1
  <2> QED BY <2>2
<1>3. \E s \in segments : \A r \in segments : r.beat <= s.beat
  <2> DEFINE B == {s.beat : s \in segments}
  <2>1. IsFiniteSet(B) /\ B \subseteq Int
    <3>1. segments \in SUBSET Changes(g)
      OBVIOUS
    <3> HIDE DEF segments
    <3> QED BY <3>1, BeatsFinite
  <2>2. B # {}
    BY <1>2
  <2>3. PICK m \in B : \A x \in B : x <= m
    <3> HIDE DEF B
    <3> QED BY <2>1, <2>2, FiniteGreatest, Zenon
  <2> QED BY <2>3
<1>4. seg \in segments /\ \A r \in segments : r.beat <= seg.beat
  <2> HIDE DEF segments
  <2> QED BY <1>3, Zenon
<1>5. seg \in C /\ seg.beat <= b /\ \A r \in C : r.beat <= b => r.beat <= seg.beat
  <2> HIDE DEF seg
  <2> QED BY <1>4
<1>6. ~(b < seg.beat)
  <2> HIDE DEF seg, C
  <2>1. seg.beat \in Int /\ seg.beat <= b
    BY <1>1, <1>5, Zenon
  <2> QED BY <2>1
<1>7. BarAt(g, b) =
                [bar |-> FirstBar(g, seg) + (b - seg.beat) \div seg.numerator,
                 startBeat |-> seg.beat + ((b - seg.beat) \div seg.numerator) * seg.numerator,
                 numerator |-> seg.numerator]
  BY <1>2, <1>6, Zenon DEF BarAt
<1> HIDE DEF seg, segments
<1> QED BY <1>5, <1>7, Zenon DEF SegOf

\* What a bar has, before the first change too.
LEMMA BarHas ==
  ASSUME NEW g, NEW D, Ready(g, D), NEW b \in Int
  PROVE  BarAt(g, b).startBeat \in Int /\ BarAt(g, b).numerator \in Nat \ {0}
<1> DEFINE C == Changes(g)
           segments == {s \in C : s.beat <= b}
           lowest == CHOOSE s \in C : \A r \in C : s.beat <= r.beat
           last == CHOOSE s \in segments : \A r \in segments : r.beat <= s.beat
           seg == IF segments = {} THEN lowest ELSE last
           k == IF b < seg.beat THEN 0 ELSE (b - seg.beat) \div seg.numerator
<1>1. /\ \A s \in C : s.beat \in Int /\ s.numerator \in Nat \ {0}
      /\ \E s \in C : s.beat <= 0
  BY ChangesAre, Zenon
<1>2. lowest \in C
  <2> DEFINE B == {s.beat : s \in C}
  <2>1. IsFiniteSet(B) /\ B \subseteq Int
    <3>1. C \in SUBSET Changes(g)
      OBVIOUS
    <3> HIDE DEF C
    <3> QED BY <3>1, BeatsFinite, Zenon
  <2>2. B # {}
    BY <1>1, Zenon
  <2>3. PICK m \in B : \A x \in B : m <= x
    <3> HIDE DEF B
    <3> QED BY <2>1, <2>2, FiniteLeast, Zenon
  <2>4. \E s \in C : \A r \in C : s.beat <= r.beat
    BY <2>3
  <2> HIDE DEF C
  <2> QED BY <2>4, Zenon
<1>3. segments # {} => last \in segments
  <2> SUFFICES ASSUME segments # {} PROVE last \in segments
    OBVIOUS
  <2> DEFINE B == {s.beat : s \in segments}
  <2>1. IsFiniteSet(B) /\ B \subseteq Int
    <3>1. segments \in SUBSET Changes(g)
      OBVIOUS
    <3> HIDE DEF segments
    <3> QED BY <3>1, BeatsFinite, Zenon
  <2>2. B # {}
    OBVIOUS
  <2>3. PICK m \in B : \A x \in B : x <= m
    <3> HIDE DEF B
    <3> QED BY <2>1, <2>2, FiniteGreatest, Zenon
  <2>4. \E s \in segments : \A r \in segments : r.beat <= s.beat
    BY <2>3
  <2> HIDE DEF segments
  <2> QED BY <2>4, Zenon
<1>4. seg \in C
  <2> HIDE DEF lowest, last, C
  <2> QED BY <1>2, <1>3
<1>5. seg.beat \in Int /\ seg.numerator \in Nat \ {0}
  <2> HIDE DEF seg, C
  <2> QED BY <1>1, <1>4
<1>6. BarAt(g, b) = [bar |-> FirstBar(g, seg) + k, startBeat |-> seg.beat + k * seg.numerator,
                     numerator |-> seg.numerator]
  BY Zenon DEF BarAt
<1> HIDE DEF seg
<1>7. k \in Int
  <2>1. b - seg.beat \in Int
    BY <1>5
  <2>2. (b - seg.beat) \div seg.numerator \in Int
    BY <1>5, <2>1, DivMod
  <2> QED BY <2>2
<1> HIDE DEF k
<1>8. seg.beat + k * seg.numerator \in Int
  BY <1>5, <1>7
<1> QED BY <1>5, <1>6, <1>8

LEMMA DivNat ==
  ASSUME NEW x \in Nat, NEW n \in Nat \ {0}
  PROVE  x \div n \in Nat
<1> DEFINE d == x \div n
<1>0. d \in Int /\ (x % n) \in Nat /\ (x % n) < n /\ x = n * d + (x % n)
  BY DivMod
<1>1. d \in Int /\ \E m \in Nat : m < n /\ x = n * d + m
  BY <1>0, Zenon
<1> HIDE DEF d
<1>2. ~(d <= -1)
  <2> SUFFICES ASSUME d <= -1 PROVE FALSE
    OBVIOUS
  <2>1. n * d <= -n
    BY <1>1, TimesGrows
  <2>2. n * d \in Int
    BY <1>1
  <2> QED BY <1>1, <2>1, <2>2
<1> QED BY <1>1, <1>2 DEF d

\* The change that follows one, if any.
LEMMA BarsOfIs ==
  ASSUME NEW g, NEW D, Ready(g, D), NEW s \in Changes(g)
  PROVE  \/ BarsOf(g, s) = 0 /\ \A q \in Changes(g) : ~(q.beat > s.beat)
         \/ \E r \in Changes(g) :
              /\ r.beat > s.beat /\ \A q \in Changes(g) : q.beat > s.beat => r.beat <= q.beat
              /\ BarsOf(g, s) = (r.beat - s.beat + s.numerator - 1) \div s.numerator
<1> DEFINE C == Changes(g)
           after == {r \in C : r.beat > s.beat}
           later == {r.beat : r \in after}
           next == CHOOSE b \in later : \A c \in later : b <= c
<1>1. CASE later = {}
  <2>1. BarsOf(g, s) = 0
    BY <1>1, Zenon DEF BarsOf
  <2>2. \A q \in C : ~(q.beat > s.beat)
    BY <1>1
  <2> QED BY <2>1, <2>2, Zenon
<1>2. CASE later # {}
  <2>1. IsFiniteSet(later) /\ later \subseteq Int
    <3>1. after \in SUBSET Changes(g)
      OBVIOUS
    <3> HIDE DEF after
    <3> QED BY <3>1, BeatsFinite
  <2>2. \E b \in later : \A c \in later : b <= c
    <3> HIDE DEF later
    <3> QED BY <1>2, <2>1, FiniteLeast, Zenon
  <2>3. next \in later /\ \A c \in later : next <= c
    <3> HIDE DEF later
    <3> QED BY <2>2, Zenon
  <2>4. BarsOf(g, s) = (next - s.beat + s.numerator - 1) \div s.numerator
    BY <1>2, Zenon DEF BarsOf
  <2> HIDE DEF next
  <2>5. PICK r \in after : next = r.beat
    BY <2>3
  <2>6. \A q \in C : q.beat > s.beat => r.beat <= q.beat
    BY <2>3, <2>5
  <2> QED BY <2>4, <2>5, <2>6
<1> QED BY <1>1, <1>2

LEMMA BarsOfNat ==
  ASSUME NEW g, NEW D, Ready(g, D), NEW s \in Changes(g)
  PROVE  BarsOf(g, s) \in Nat
<1>1. \A r \in Changes(g) : r.beat \in Int /\ r.numerator \in Nat \ {0}
  BY ChangesAre, Zenon
<1>2. CASE BarsOf(g, s) = 0
  BY <1>2
<1>3. CASE BarsOf(g, s) # 0
  <2>1. PICK r \in Changes(g) :
              /\ r.beat > s.beat
              /\ BarsOf(g, s) = (r.beat - s.beat + s.numerator - 1) \div s.numerator
    BY <1>3, BarsOfIs, Zenon
  <2>2. PICK x \in Nat : x = r.beat - s.beat + s.numerator - 1
    BY <1>1, <2>1
  <2>3. x \div s.numerator \in Nat
    BY <1>1, DivNat
  <2> QED BY <2>1, <2>2, <2>3, Zenon
<1> QED BY <1>2, <1>3

LEMMA BarsFinite ==
  ASSUME NEW g, NEW D, Ready(g, D), NEW s
  PROVE  IsFiniteSet(UNION {{p} \X (1..BarsOf(g, p)) : p \in {p \in Changes(g) : p.beat < s.beat}})
<1> DEFINE Before(q) == {p \in Changes(g) : p.beat < q.beat}
           Bars(q) == UNION {{p} \X (1..BarsOf(g, p)) : p \in Before(q)}
<1>1. IsFiniteSet(Changes(g))
  BY ChangesAre, Zenon
<1>8. IsFiniteSet(Bars(s))
  <2> DEFINE f == [p \in Before(s) |-> {p} \X (1..BarsOf(g, p))]
  <2>1. IsFiniteSet(Before(s))
    BY <1>1, FS_Subset
  <2>2. IsFiniteSet({f[p] : p \in Before(s)})
    <3>1. f = [p \in Before(s) |-> f[p]]
      BY Zenon
    <3> HIDE DEF f, Before
    <3> QED BY <2>1, <3>1, ImageFinite
  <2>3. \A T \in {f[p] : p \in Before(s)} : IsFiniteSet(T)
    <3> SUFFICES ASSUME NEW p \in Before(s) PROVE IsFiniteSet(f[p])
      OBVIOUS
    <3>1. f[p] = {p} \X (1..BarsOf(g, p))
      BY Zenon
    <3>2. PICK n \in Nat : n = BarsOf(g, p)
      BY BarsOfNat
    <3>3. IsFiniteSet({p} \X (1..n))
      <4>1. IsFiniteSet(1..n)
        BY FS_Interval
      <4>2. IsFiniteSet({p})
        BY FS_Singleton, Zenon
      <4> QED BY <4>1, <4>2, FS_Product, Zenon
    <3> HIDE DEF f
    <3> QED BY <3>1, <3>2, <3>3
  <2>4. IsFiniteSet(UNION {f[p] : p \in Before(s)})
    <3> HIDE DEF f, Before
    <3> QED BY <2>2, <2>3, FS_UNION
  <2>5. {f[p] : p \in Before(s)} = {{p} \X (1..BarsOf(g, p)) : p \in Before(s)}
    <3> HIDE DEF Before
    <3> QED OBVIOUS
  <2> QED BY <2>4, <2>5, Zenon
<1> QED BY <1>8

LEMMA FirstBarWhole ==
  ASSUME NEW g, NEW D, Ready(g, D), NEW s
  PROVE  FirstBar(g, s) \in Int
<1> DEFINE Bars == UNION {{p} \X (1..BarsOf(g, p)) : p \in {p \in Changes(g) : p.beat < s.beat}}
<1>1. IsFiniteSet(Bars)
  BY BarsFinite, Zenon
<1>2. FirstBar(g, s) = 1 + Cardinality(Bars)
  BY Zenon DEF FirstBar
<1> HIDE DEF Bars
<1>3. Cardinality(Bars) \in Nat
  BY <1>1, FS_CardinalityType
<1> QED BY <1>2, <1>3

LEMMA FirstBarNext ==
  ASSUME NEW g, NEW D, Ready(g, D), NEW b \in Int, NEW s, SegOf(g, b, s),
         NEW r \in Changes(g), r.beat = b + 1
  PROVE  FirstBar(g, r) = FirstBar(g, s) + BarsOf(g, s) /\ FirstBar(g, s) \in Int
<1> DEFINE C == Changes(g)
           Before(q) == {p \in C : p.beat < q.beat}
           Bars(q) == UNION {{p} \X (1..BarsOf(g, p)) : p \in Before(q)}
           Own == {s} \X (1..BarsOf(g, s))
<1>1. /\ IsFiniteSet(C) /\ \A q \in C : q.beat \in Int
      /\ \A p, q \in C : p.beat = q.beat => p = q
  BY ChangesAre, Zenon
<1>2. s \in C /\ s.beat <= b /\ \A q \in C : q.beat <= b => q.beat <= s.beat
  BY DEF SegOf
<1>3. s.beat \in Int /\ r.beat \in Int
  BY <1>1, <1>2
<1>4. Before(r) = Before(s) \cup {s}
  <2>1. ASSUME NEW q \in C PROVE q.beat < r.beat <=> (q.beat < s.beat \/ q = s)
    <3>1. q.beat \in Int
      BY <1>1
    <3>2. q.beat < r.beat <=> q.beat <= b
      BY <3>1
    <3>3. q.beat <= b => q.beat < s.beat \/ q.beat = s.beat
      BY <1>2, <1>3, <3>1
    <3>4. q.beat = s.beat => q = s
      BY <1>1, <1>2, Zenon
    <3>5. q.beat < s.beat => q.beat <= b
      BY <1>2, <1>3, <3>1
    <3> QED BY <1>2, <3>2, <3>3, <3>4, <3>5
  <2> QED BY <1>2, <2>1
<1>5. Bars(r) = Bars(s) \cup Own
  <2> SUFFICES ASSUME NEW x PROVE x \in Bars(r) <=> x \in Bars(s) \/ x \in Own
    BY Zenon
  <2> DEFINE In(p) == x \in {p} \X (1..BarsOf(g, p))
  <2>1. x \in Bars(r) <=> \E p \in Before(r) : In(p)
    BY Zenon
  <2>2. x \in Bars(s) <=> \E p \in Before(s) : In(p)
    BY Zenon
  <2>3. x \in Own <=> In(s)
    BY Zenon
  <2> HIDE DEF In, Before, Bars, Own
  <2> QED BY <1>4, <2>1, <2>2, <2>3
<1>6. Bars(s) \cap Own = {}
  <2> SUFFICES ASSUME NEW x \in Bars(s), x \in Own PROVE FALSE
    OBVIOUS
  <2>1. PICK p \in Before(s) : x \in {p} \X (1..BarsOf(g, p))
    OBVIOUS
  <2>2. x[1] = p /\ x[1] = s
    BY <2>1
  <2>3. s.beat < s.beat
    BY <2>1, <2>2
  <2> QED BY <1>3, <2>3
<1>7. IsFiniteSet(Own) /\ Cardinality(Own) = BarsOf(g, s)
  <2>1. PICK n \in Nat : n = BarsOf(g, s)
    BY <1>2, BarsOfNat
  <2>2. IsFiniteSet(1..n) /\ Cardinality(1..n) = n
    BY <2>1, FS_Interval
  <2>3. IsFiniteSet({s}) /\ Cardinality({s}) = 1
    BY FS_Singleton, Zenon
  <2>4. IsFiniteSet({s} \X (1..n)) /\ Cardinality({s} \X (1..n)) = Cardinality({s}) * Cardinality(1..n)
    BY <2>2, <2>3, FS_Product, Zenon
  <2>5. Cardinality({s} \X (1..n)) = n
    BY <2>2, <2>3, <2>4
  <2> QED BY <2>1, <2>4, <2>5
<1>8. IsFiniteSet(Bars(s))
  BY BarsFinite, Zenon
<1>9. FirstBar(g, s) = 1 + Cardinality(Bars(s)) /\ FirstBar(g, r) = 1 + Cardinality(Bars(r))
  BY Zenon DEF FirstBar
<1> HIDE DEF Bars, Own
<1>10. Cardinality(Bars(s)) \in Nat
  BY <1>8, FS_CardinalityType
<1>11. Cardinality(Bars(s) \cup Own) = Cardinality(Bars(s)) + Cardinality(Own) - Cardinality(Bars(s) \cap Own)
  BY <1>7, <1>8, FS_Union
<1>12. Cardinality(Bars(s) \cap Own) = 0
  BY <1>6, FS_EmptySet
<1>13. BarsOf(g, s) \in Nat
  BY <1>2, BarsOfNat
<1> QED BY <1>5, <1>7, <1>9, <1>10, <1>11, <1>12, <1>13

LEMMA BarsAreNext ==
  ASSUME NEW g, NEW D, Ready(g, D), NEW b \in Nat
  PROVE  /\ BarAt(g, b).startBeat <= b
         /\ \/ BarAt(g, b + 1) = BarAt(g, b)
            \/ BarAt(g, b + 1).startBeat = b + 1 /\ BarAt(g, b + 1).bar = BarAt(g, b).bar + 1
<1>1. /\ \A q \in Changes(g) : q.beat \in Int /\ q.numerator \in Nat \ {0}
      /\ \A p, q \in Changes(g) : p.beat = q.beat => p = q
  BY ChangesAre, Zenon
<1>2. PICK s \in Changes(g) :
           /\ SegOf(g, b, s)
           /\ BarAt(g, b) =
                [bar |-> FirstBar(g, s) + (b - s.beat) \div s.numerator,
                 startBeat |-> s.beat + ((b - s.beat) \div s.numerator) * s.numerator,
                 numerator |-> s.numerator]
  BY SegmentIs, Zenon
<1>a. PICK b1 \in Nat : b1 = b + 1
  OBVIOUS
<1>b. PICK r \in Changes(g) :
           /\ SegOf(g, b1, r)
           /\ BarAt(g, b1) =
                [bar |-> FirstBar(g, r) + (b1 - r.beat) \div r.numerator,
                 startBeat |-> r.beat + ((b1 - r.beat) \div r.numerator) * r.numerator,
                 numerator |-> r.numerator]
  BY SegmentIs, Zenon
<1>3. /\ SegOf(g, b + 1, r)
      /\ BarAt(g, b + 1) =
                [bar |-> FirstBar(g, r) + (b + 1 - r.beat) \div r.numerator,
                 startBeat |-> r.beat + ((b + 1 - r.beat) \div r.numerator) * r.numerator,
                 numerator |-> r.numerator]
  <2>1. SegOf(g, b + 1, r)
    BY <1>a, <1>b, Zenon
  <2>2. BarAt(g, b + 1) = BarAt(g, b1)
    BY <1>a, Zenon
  <2>3. b + 1 - r.beat = b1 - r.beat
    BY <1>a, <1>1
  <2> QED BY <1>b, <2>1, <2>2, <2>3, Zenon
<1>4. PICK sb \in Int, n \in Nat \ {0} : sb = s.beat /\ n = s.numerator
  BY <1>1, Zenon
<1>5. PICK rb \in Int : rb = r.beat
  BY <1>1, Zenon
<1>6. sb <= b /\ (\A q \in Changes(g) : q.beat <= b => q.beat <= sb)
  BY <1>2, <1>4, Zenon DEF SegOf
<1>7. rb <= b + 1 /\ (\A q \in Changes(g) : q.beat <= b + 1 => q.beat <= rb)
  BY <1>3, <1>5, Zenon DEF SegOf
<1>8. PICK k \in Int, m \in Nat : k = (b - sb) \div n /\ m < n /\ b - sb = n * k + m
  <2>1. b - sb \in Int
    OBVIOUS
  <2>2. (b - sb) \div n \in Int /\ ((b - sb) % n) \in Nat /\ ((b - sb) % n) < n
         /\ b - sb = n * ((b - sb) \div n) + ((b - sb) % n)
    BY <2>1, DivMod
  <2> QED BY <2>2, Zenon
<1>9. n * k = k * n /\ k * n \in Int
  BY Ring
<1>10. BarAt(g, b) = [bar |-> FirstBar(g, s) + k, startBeat |-> sb + k * n, numerator |-> n]
  BY <1>2, <1>4, <1>8, Zenon
<1>11. BarAt(g, b).startBeat <= b
  BY <1>8, <1>9, <1>10
<1>12. CASE rb = b + 1
  <2>1. FirstBar(g, r) = FirstBar(g, s) + BarsOf(g, s) /\ FirstBar(g, s) \in Int
    <3>1. r.beat = b + 1 /\ b \in Int
      BY <1>5, <1>12
    <3> QED BY <1>2, <3>1, FirstBarNext, Zenon
  <2>2. BarsOf(g, s) = k + 1
    <3> DEFINE c == (rb - sb + n - 1) \div n
    <3>1. rb - sb + n - 1 = n * (k + 1) + m
      BY <1>8, <1>12
    <3>2. c = k + 1
      <4>1. PICK x \in Int : x = rb - sb + n - 1
        OBVIOUS
      <4>2. n * (k + 1) <= x /\ x < n * (k + 1) + n /\ k + 1 \in Int
        <5>1. n * (k + 1) \in Int
          OBVIOUS
        <5> QED BY <1>8, <3>1, <4>1, <5>1
      <4>3. x \div n = k + 1
        BY <4>2, DivIs
      <4> QED BY <4>1, <4>3, Zenon
    <3> HIDE DEF c
    <3>4. r.beat > s.beat /\ \A q \in Changes(g) : q.beat > s.beat => r.beat <= q.beat
      <4>1. rb > sb
        BY <1>6, <1>12
      <4>2. ASSUME NEW q \in Changes(g), q.beat > sb PROVE rb <= q.beat
        <5>1. q.beat \in Int
          BY <1>1
        <5>2. ~(q.beat <= b)
          BY <1>6, <4>2, <5>1
        <5> QED BY <1>12, <5>1, <5>2
      <4> QED BY <1>4, <1>5, <4>1, <4>2, Zenon
    <3>6. PICK q \in Changes(g) :
              /\ q.beat > s.beat /\ \A p \in Changes(g) : p.beat > s.beat => q.beat <= p.beat
              /\ BarsOf(g, s) = (q.beat - s.beat + s.numerator - 1) \div s.numerator
      BY <3>4, BarsOfIs, Zenon
    <3>7. q.beat = rb
      <4>1. q.beat <= rb /\ rb <= q.beat
        BY <1>5, <3>4, <3>6, Zenon
      <4>2. q.beat \in Int
        BY <1>1
      <4> QED BY <4>1, <4>2
    <3> QED BY <1>4, <3>2, <3>6, <3>7, Zenon DEF c
  <2>3. (b + 1 - r.beat) \div r.numerator = 0
    <3>1. PICK z \in Nat \ {0} : z = r.numerator
      BY <1>1, Zenon
    <3>2. 0 \div z = 0
      <4>1. z * 0 <= 0 /\ 0 < z * 0 + z /\ 0 \in Int
        OBVIOUS
      <4> QED BY <4>1, DivIs
    <3>3. b + 1 - r.beat = 0
      BY <1>5, <1>12
    <3> QED BY <3>1, <3>2, <3>3, Zenon
  <2>4. BarAt(g, b + 1) = [bar |-> FirstBar(g, r) + 0, startBeat |-> rb + 0 * r.numerator, numerator |-> r.numerator]
    BY <1>3, <1>5, <2>3, Zenon
  <2>5. r.numerator \in Nat
    BY <1>1
  <2>6. BarAt(g, b + 1).startBeat = b + 1
    BY <1>12, <2>4, <2>5
  <2>7. BarAt(g, b + 1).bar = FirstBar(g, s) + k + 1
    BY <2>1, <2>2, <2>4
  <2> QED BY <1>10, <1>11, <2>1, <2>6, <2>7
<1>13. CASE rb # b + 1
  <2>1. r = s
    <3>1. rb <= b
      BY <1>7, <1>13
    <3>2. rb <= sb
      BY <1>5, <1>6, <3>1, Zenon
    <3>3. sb <= b + 1
      BY <1>6
    <3>4. sb <= rb
      BY <1>4, <1>7, <3>3, Zenon
    <3>5. rb = sb
      BY <3>2, <3>4
    <3> QED BY <1>1, <1>4, <1>5, <3>5, Zenon
  <2>2. PICK j \in Int, i \in Nat : j = (b + 1 - sb) \div n /\ i < n /\ b + 1 - sb = n * j + i
    <3>1. b + 1 - sb \in Int
      OBVIOUS
    <3>2. (b + 1 - sb) \div n \in Int /\ ((b + 1 - sb) % n) \in Nat /\ ((b + 1 - sb) % n) < n
           /\ b + 1 - sb = n * ((b + 1 - sb) \div n) + ((b + 1 - sb) % n)
      BY <3>1, DivMod
    <3> QED BY <3>2, Zenon
  <2>3. BarAt(g, b + 1) = [bar |-> FirstBar(g, s) + j, startBeat |-> sb + j * n, numerator |-> n]
    BY <1>3, <1>4, <2>1, <2>2, Zenon
  <2>4. CASE m + 1 < n
    <3>1. n * k <= b + 1 - sb /\ b + 1 - sb < n * k + n
      BY <1>8, <1>9, <2>4
    <3>2. j = k
      <4>1. PICK x \in Int : x = b + 1 - sb
        OBVIOUS
      <4>2. x \div n = k
        BY <3>1, <4>1, DivIs
      <4> QED BY <2>2, <4>1, <4>2, Zenon
    <3> QED BY <1>10, <1>11, <2>3, <3>2, Zenon
  <2>5. CASE ~(m + 1 < n)
    <3>0. m + 1 = n
      BY <1>8, <2>5
    <3>1. b + 1 - sb = n * (k + 1)
      BY <1>8, <3>0
    <3>2. j = k + 1
      <4>1. PICK x \in Int : x = k + 1
        OBVIOUS
      <4>2. (n * x) \div n = x
        BY DivOf
      <4> QED BY <2>2, <3>1, <4>1, <4>2, Zenon
    <3>3. n * (k + 1) = (k + 1) * n /\ (k + 1) * n \in Int
      BY Ring
    <3>4. sb + j * n = b + 1
      BY <3>1, <3>2, <3>3
    <3>5. BarAt(g, b + 1).startBeat = b + 1
      BY <2>3, <3>4
    <3>6. FirstBar(g, s) \in Int
      <4>1. FirstBar(g, s) \in Int
        BY <1>2, FirstBarWhole
      <4> QED BY <4>1
    <3>7. BarAt(g, b + 1).bar = FirstBar(g, s) + j /\ BarAt(g, b).bar = FirstBar(g, s) + k
      BY <1>10, <2>3
    <3> QED BY <1>11, <3>2, <3>5, <3>6, <3>7
  <2> QED BY <2>4, <2>5
<1> QED BY <1>12, <1>13

-----------------------------------------------------------------------------

(* The interval in view *)

ViewKnown(v) == v.t0 \in Int /\ v.span \in Int
SpanKnown == ViewKnown(view) /\ ViewInSong

LEMMA ViewSizes ==
  /\ MinSpan \in Nat \ {0} /\ DefaultSpan \in Nat \ {0} /\ Wide \in Nat \ {0} /\ Duration \in Nat
  /\ MinSpan <= DefaultSpan
BY DrumViewAssumption

LEMMA WholeIs ==
  Whole \in Nat /\ MinSpan <= Whole
BY ViewSizes DEF Whole, Larger

LEMMA ViewOfIn ==
  ASSUME NEW t \in Int, NEW span \in Int
  PROVE  /\ ViewKnown(ViewOf(t, span)) /\ ViewOf(t, span).t0 >= 0 /\ ViewOf(t, span).span >= MinSpan
         /\ ViewOf(t, span).t0 + ViewOf(t, span).span <= Whole
<1>1. PICK s \in Int : s = BoundedSpan(span)
  BY ViewSizes, WholeIs DEF BoundedSpan, Larger, Smaller
<1>2. MinSpan <= s /\ s <= Whole
  BY <1>1, ViewSizes, WholeIs DEF BoundedSpan, Larger, Smaller
<1>3. ViewOf(t, span) = [t0 |-> Larger(0, Smaller(t, Whole - s)), span |-> s]
  BY <1>1, Zenon DEF ViewOf
<1>4. PICK u \in Int : u = Larger(0, Smaller(t, Whole - s))
  <2>1. Larger(0, Smaller(t, Whole - s)) \in Int
    BY WholeIs DEF Larger, Smaller
  <2> QED BY <2>1, Zenon
<1>5. 0 <= u /\ u + s <= Whole
  BY <1>2, <1>4, WholeIs DEF Larger, Smaller
<1>6. ViewOf(t, span).t0 = u /\ ViewOf(t, span).span = s
  BY <1>3, <1>4
<1> QED BY <1>2, <1>5, <1>6, ViewSizes DEF ViewKnown

LEMMA LookIn ==
  ASSUME NEW t \in Int, NEW span \in Int, Look(ViewOf(t, span))
  PROVE  SpanKnown'
<1>1. view' = ViewOf(t, span)
  BY Zenon DEF Look
<1>2. /\ ViewKnown(ViewOf(t, span)) /\ ViewOf(t, span).t0 >= 0 /\ ViewOf(t, span).span >= MinSpan
      /\ ViewOf(t, span).t0 + ViewOf(t, span).span <= Whole
  BY ViewOfIn, Zenon
<1> QED BY <1>1, <1>2, Zenon DEF SpanKnown, ViewKnown, ViewInSong

LEMMA ZoomedIs ==
  ASSUME SpanKnown, NEW x \in Int, NEW of \in Nat \ {0}, NEW to \in Int, NEW by \in Nat \ {0}
  PROVE  \E t \in Int, span \in Int : Zoomed(view, x, of, to, by) = ViewOf(t, span)
<1>1. PICK t0 \in Int, span \in Int : t0 = view.t0 /\ span = view.span
  BY DEF SpanKnown, ViewKnown
<1>2. PICK p \in Int : p = (span * to) \div by
  <2>1. span * to \in Int
    OBVIOUS
  <2> QED BY <2>1, DivMod
<1>3. PICK b \in Int : b = Larger(MinSpan, Smaller(IF Duration = 0 THEN DefaultSpan ELSE Duration, p))
  BY ViewSizes DEF Larger, Smaller
<1>4. PICK q \in Int : q = (x * span) \div of
  <2>1. x * span \in Int
    OBVIOUS
  <2> QED BY <2>1, DivMod
<1>5. PICK r \in Int : r = (x * b) \div of
  <2>1. x * b \in Int
    OBVIOUS
  <2> QED BY <2>1, DivMod
<1>6. Zoomed(view, x, of, to, by) = ViewOf(t0 + q - r, p)
  BY <1>1, <1>2, <1>3, <1>4, <1>5, Zenon DEF Zoomed
<1>7. t0 + q - r \in Int
  OBVIOUS
<1> QED BY <1>6, <1>7, Zenon

LEMMA ZoomKeeps ==
  ASSUME SpanKnown, NEW x \in Int, NEW of \in Nat \ {0}, NEW to \in Int, NEW by \in Nat \ {0},
         Look(Zoomed(view, x, of, to, by))
  PROVE  SpanKnown'
<1>1. PICK t \in Int, span \in Int : Zoomed(view, x, of, to, by) = ViewOf(t, span)
  BY ZoomedIs
<1>2. Look(ViewOf(t, span))
  BY <1>1, Zenon
<1> QED BY <1>2, LookIn

LEMMA ViewStep ==
  ASSUME SpanKnown, NEW loop, loop.start \in Int, loop.end \in Int, ViewNext(loop)
  PROVE  SpanKnown'
<1>0. PICK t0 \in Int, span \in Int : t0 = view.t0 /\ span = view.span
  BY DEF SpanKnown, ViewKnown
<1>1. CASE ZoomIn
  <2>1. Look(Zoomed(view, 1, 2, 3, 5))
    BY <1>1, Zenon DEF ZoomIn
  <2>2. 1 \in Int /\ 2 \in Nat \ {0} /\ 3 \in Int /\ 8 \in Int /\ 5 \in Nat \ {0}
    OBVIOUS
  <2> QED BY <2>1, <2>2, ZoomKeeps, Zenon
<1>2. CASE ZoomOut
  <2>1. Look(Zoomed(view, 1, 2, 8, 5))
    BY <1>2, Zenon DEF ZoomOut
  <2>2. 1 \in Int /\ 2 \in Nat \ {0} /\ 3 \in Int /\ 8 \in Int /\ 5 \in Nat \ {0}
    OBVIOUS
  <2> QED BY <2>1, <2>2, ZoomKeeps, Zenon
<1>3. ASSUME NEW x \in 0..2, WheelZoom(x) PROVE SpanKnown'
  <2>1. PICK to \in {1, 4} : Look(Zoomed(view, x, 2, to, 2))
    BY <1>3, Zenon DEF WheelZoom
  <2>2. to \in Int /\ x \in Int
    OBVIOUS
  <2>3. 2 \in Nat \ {0}
    OBVIOUS
  <2> QED BY <2>1, <2>2, <2>3, ZoomKeeps, Zenon
<1>4. ASSUME NEW d \in {-2, 2}, WheelPan(d) PROVE SpanKnown'
  <2>1. Look(ViewOf(t0 + d, span))
    BY <1>0, <1>4, Zenon DEF WheelPan
  <2>2. t0 + d \in Int
    OBVIOUS
  <2> QED BY <2>1, <2>2, LookIn, Zenon
<1>5. ASSUME NEW t \in 0..Duration, OverviewGo(t) PROVE SpanKnown'
  <2>1. Look(ViewOf(t - span \div 2, span))
    BY <1>0, <1>5, Zenon DEF OverviewGo
  <2>2. t - span \div 2 \in Int
    BY ViewSizes, DivMod
  <2> QED BY <2>1, <2>2, LookIn, Zenon
<1>6. CASE FitLoop(loop)
  <2>1. Look(ViewOf(loop.start - 1, loop.end - loop.start + 2))
    BY <1>6, Zenon DEF FitLoop
  <2>2. loop.start - 1 \in Int /\ loop.end - loop.start + 2 \in Int
    OBVIOUS
  <2> QED BY <2>1, <2>2, LookIn, Zenon
<1>7. ASSUME NEW t \in 0..Duration, Follow(t) PROVE SpanKnown'
  <2>1. CASE InView(view, t)
    <3>1. Look(view)
      BY <1>7, <2>1, Zenon DEF Follow, Following
    <3> QED BY <3>1, Zenon DEF Look
  <2>2. CASE ~InView(view, t)
    <3>1. Look(ViewOf(t - span \div Wide, span))
      BY <1>0, <1>7, <2>2, Zenon DEF Follow, Following
    <3>2. t - span \div Wide \in Int
      <4>1. span \div Wide \in Int
        BY ViewSizes, DivMod
      <4> QED BY <4>1, ViewSizes
    <3> QED BY <3>1, <3>2, LookIn, Zenon
  <2> QED BY <2>1, <2>2, Zenon
<1>8. ASSUME NEW i \in DOMAIN Groups, ToggleOpen(i) PROVE SpanKnown'
  BY <1>8, Zenon DEF ToggleOpen, SpanKnown, ViewKnown, ViewInSong
<1> QED BY <1>1, <1>2, <1>3, <1>4, <1>5, <1>6, <1>7, <1>8, Zenon DEF ViewNext

LEMMA ViewBegins ==
  ASSUME NEW n, ViewInit(n)
  PROVE  SpanKnown
<1>1. view = [t0 |-> 0, span |-> Smaller(DefaultSpan, Whole)]
  BY Zenon DEF ViewInit
<1>2. Smaller(DefaultSpan, Whole) \in Int /\ MinSpan <= Smaller(DefaultSpan, Whole) /\ Smaller(DefaultSpan, Whole) <= Whole
  BY ViewSizes, WholeIs DEF Smaller
<1>3. view.t0 = 0 /\ view.span = Smaller(DefaultSpan, Whole)
  BY <1>1
<1> QED BY <1>2, <1>3, ViewSizes, WholeIs DEF SpanKnown, ViewKnown, ViewInSong

-----------------------------------------------------------------------------
(* Rows *)

LEMMA HeightsAre ==
  /\ AudioLane \in Nat \ {0} /\ GroupRow \in Nat \ {0} /\ MidiRow \in Nat \ {0}
  /\ MidiRow % 2 = 0
BY DrumViewAssumption, Zenon

LEMMA GroupsAre ==
  /\ Len(Groups) \in Nat /\ DOMAIN Groups = 1..Len(Groups)
  /\ \A i \in DOMAIN Groups :
       /\ Len(Groups[i]) \in Nat \ {0} /\ DOMAIN Groups[i] = 1..Len(Groups[i])
       /\ GroupRow % (2 * Len(Groups[i])) = 0
<1>1. Groups \in Seq(ToSet(Groups))
  BY DrumViewAssumption
<1>2. Len(Groups) \in Nat /\ DOMAIN Groups = 1..Len(Groups)
  BY <1>1
<1>3. ASSUME NEW i \in DOMAIN Groups
      PROVE  /\ Len(Groups[i]) \in Nat \ {0} /\ DOMAIN Groups[i] = 1..Len(Groups[i])
             /\ GroupRow % (2 * Len(Groups[i])) = 0
  <2>1. /\ Groups[i] \in Seq(ToSet(Groups[i])) /\ Len(Groups[i]) > 0
        /\ GroupRow % (2 * Len(Groups[i])) = 0
    BY Zenon, DrumViewAssumption
  <2>2. Len(Groups[i]) \in Nat /\ DOMAIN Groups[i] = 1..Len(Groups[i])
    BY <2>1
  <2> QED BY <2>1, <2>2
<1> QED BY <1>2, <1>3, Zenon

AudioRow == [type |-> "audio", group |-> 0, index |-> 0, h |-> AudioLane]
GroupRowOf(i) == [type |-> "group", group |-> i, index |-> 0, h |-> GroupRow]
MidiRowOf(i, k) == [type |-> "midi", group |-> i, index |-> k, h |-> MidiRow]

\* The rows that are shown are the audio lane, a row of a group or of one of its
\* articulations.
LEMMA RowIsOne ==
  ASSUME NEW exp, NEW r \in RowsShown(exp)
  PROVE  \/ r.group = 0 /\ r = AudioRow
         \/ /\ r.group # 0 /\ r.group \in DOMAIN Groups
            /\ \/ ~Expanded(r.group, exp) /\ r = GroupRowOf(r.group)
               \/ /\ Expanded(r.group, exp) /\ r.index \in DOMAIN Groups[r.group]
                  /\ r = MidiRowOf(r.group, r.index)
<1>1. CASE r = AudioRow
  <2>1. AudioRow.group = 0
    BY DEF AudioRow
  <2> QED BY <1>1, <2>1
<1>2. ASSUME NEW i \in DOMAIN Groups, r \in RowsOf(i, exp)
      PROVE  \/ ~Expanded(i, exp) /\ r = GroupRowOf(i)
             \/ \E k \in DOMAIN Groups[i] : Expanded(i, exp) /\ r = MidiRowOf(i, k)
  BY <1>2, Zenon DEF RowsOf, GroupRowOf, MidiRowOf
<1>3. \A i \in DOMAIN Groups : i # 0
  BY GroupsAre
<1>4. ASSUME NEW i \in DOMAIN Groups, ~Expanded(i, exp), r = GroupRowOf(i)
      PROVE  r.group # 0 /\ r.group \in DOMAIN Groups /\ ~Expanded(r.group, exp) /\ r = GroupRowOf(r.group)
  <2>1. GroupRowOf(i).group = i
    BY DEF GroupRowOf
  <2>2. r.group = i
    BY <1>4, <2>1, Zenon
  <2> QED BY <1>3, <1>4, <2>2, Zenon
<1>5. ASSUME NEW i \in DOMAIN Groups, NEW k \in DOMAIN Groups[i], Expanded(i, exp), r = MidiRowOf(i, k)
      PROVE  /\ r.group # 0 /\ r.group \in DOMAIN Groups /\ Expanded(r.group, exp)
             /\ r.index \in DOMAIN Groups[r.group] /\ r = MidiRowOf(r.group, r.index)
  <2>1. MidiRowOf(i, k).group = i /\ MidiRowOf(i, k).index = k
    BY DEF MidiRowOf
  <2>2. r.group = i /\ r.index = k
    BY <1>5, <2>1, Zenon
  <2> QED BY <1>3, <1>5, <2>2, Zenon
<1>6. r = AudioRow \/ \E i \in DOMAIN Groups : r \in RowsOf(i, exp)
  BY Zenon DEF RowsShown, AudioRow
<1> QED BY <1>1, <1>2, <1>4, <1>5, <1>6, Zenon

LEMMA RowFields ==
  ASSUME NEW exp, NEW r \in RowsShown(exp)
  PROVE  /\ r.group \in Nat /\ r.index \in Nat /\ r.h \in Nat \ {0}
         /\ \/ r.type = "audio" /\ r.h = AudioLane
            \/ r.type = "group" /\ r.h = GroupRow
            \/ r.type = "midi" /\ r.h = MidiRow
<1>1. CASE r = AudioRow
  BY <1>1, HeightsAre DEF AudioRow
<1>2. CASE r.group \in DOMAIN Groups /\ r = GroupRowOf(r.group)
  <2>1. r.group \in Nat
    BY <1>2, GroupsAre
  <2>2. \A i : GroupRowOf(i).index = 0 /\ GroupRowOf(i).h = GroupRow /\ GroupRowOf(i).type = "group"
    BY DEF GroupRowOf
  <2>3. r.index = 0 /\ r.h = GroupRow /\ r.type = "group"
    BY <1>2, <2>2, Zenon
  <2> QED BY <2>1, <2>3, HeightsAre
<1>3. CASE r.group \in DOMAIN Groups /\ r.index \in DOMAIN Groups[r.group] /\ r = MidiRowOf(r.group, r.index)
  <2>1. r.group \in Nat /\ r.index \in Nat
    <3>1. DOMAIN Groups[r.group] = 1..Len(Groups[r.group])
      BY <1>3, GroupsAre, Zenon
    <3> QED BY <1>3, <3>1, GroupsAre
  <2>2. \A i, k : MidiRowOf(i, k).h = MidiRow /\ MidiRowOf(i, k).type = "midi"
    BY DEF MidiRowOf
  <2>3. r.h = MidiRow /\ r.type = "midi"
    BY <1>3, <2>2, Zenon
  <2> QED BY <2>1, <2>3, HeightsAre
<1> QED BY <1>1, <1>2, <1>3, RowIsOne, Zenon

\* No two rows are at one place.
LEMMA RowsDiffer ==
  ASSUME NEW exp, NEW r \in RowsShown(exp), NEW s \in RowsShown(exp),
         r.group = s.group, r.index = s.index
  PROVE  r = s
<1> DEFINE R(x) == \/ x.group = 0 /\ x = AudioRow
                  \/ /\ x.group # 0 /\ x.group \in DOMAIN Groups
                     /\ \/ ~Expanded(x.group, exp) /\ x = GroupRowOf(x.group)
                        \/ /\ Expanded(x.group, exp) /\ x.index \in DOMAIN Groups[x.group]
                           /\ x = MidiRowOf(x.group, x.index)
<1>1. R(r) /\ R(s)
  BY RowIsOne, Zenon
<1>2. GroupRowOf(r.group) = GroupRowOf(s.group) /\ MidiRowOf(r.group, r.index) = MidiRowOf(s.group, s.index)
  BY Zenon
<1>3. Expanded(r.group, exp) <=> Expanded(s.group, exp)
  BY Zenon
<1>4. CASE r.group = 0
  <2>1. r = AudioRow /\ s = AudioRow
    BY <1>1, <1>4, Zenon
  <2> QED BY <2>1, Zenon
<1>5. CASE r.group # 0 /\ Expanded(r.group, exp)
  <2>1. r = MidiRowOf(r.group, r.index)
    BY <1>1, <1>5, Zenon
  <2>2. s = MidiRowOf(s.group, s.index)
    BY <1>1, <1>3, <1>5, Zenon
  <2> QED BY <1>2, <2>1, <2>2, Zenon
<1>6. CASE r.group # 0 /\ ~Expanded(r.group, exp)
  <2>1. r = GroupRowOf(r.group)
    BY <1>1, <1>6, Zenon
  <2>2. s = GroupRowOf(s.group)
    BY <1>1, <1>3, <1>6, Zenon
  <2> QED BY <1>2, <2>1, <2>2, Zenon
<1> QED BY <1>4, <1>5, <1>6, Zenon

LEMMA RowsFinite ==
  ASSUME NEW exp
  PROVE  IsFiniteSet(RowsShown(exp))
<1>1. ASSUME NEW i \in DOMAIN Groups PROVE IsFiniteSet(RowsOf(i, exp))
  <2>1. CASE Expanded(i, exp)
    <3> DEFINE f == [k \in DOMAIN Groups[i] |-> MidiRowOf(i, k)]
    <3>1. IsFiniteSet(DOMAIN Groups[i])
      <4>1. PICK n \in Nat : DOMAIN Groups[i] = 1..n
        BY GroupsAre, Zenon
      <4>2. IsFiniteSet(1..n)
        BY FS_Interval
      <4> QED BY <4>1, <4>2, Zenon
    <3>2. IsFiniteSet({f[k] : k \in DOMAIN Groups[i]})
      <4>1. f = [k \in DOMAIN Groups[i] |-> f[k]]
        BY Zenon
      <4> HIDE DEF f
      <4> QED BY <3>1, <4>1, ImageFinite
    <3>3. {f[k] : k \in DOMAIN Groups[i]} = RowsOf(i, exp)
      <4>1. \A k \in DOMAIN Groups[i] : f[k] = MidiRowOf(i, k)
        BY Zenon
      <4>2. RowsOf(i, exp) = {MidiRowOf(i, k) : k \in DOMAIN Groups[i]}
        BY <2>1, Zenon DEF RowsOf, MidiRowOf
      <4>3. {f[k] : k \in DOMAIN Groups[i]} = {MidiRowOf(i, k) : k \in DOMAIN Groups[i]}
        <5> HIDE DEF f, MidiRowOf
        <5> QED BY <4>1
      <4> QED BY <4>2, <4>3, Zenon
    <3> QED BY <3>2, <3>3, Zenon
  <2>2. CASE ~Expanded(i, exp)
    <3>1. RowsOf(i, exp) = {GroupRowOf(i)}
      BY <2>2, Zenon DEF RowsOf, GroupRowOf
    <3> QED BY <3>1, FS_Singleton, Zenon
  <2> QED BY <2>1, <2>2, Zenon
<1> DEFINE f == [i \in DOMAIN Groups |-> RowsOf(i, exp)]
<1>2. IsFiniteSet({f[i] : i \in DOMAIN Groups})
  <2>1. PICK n \in Nat : DOMAIN Groups = 1..n
    BY GroupsAre, Zenon
  <2>2. IsFiniteSet(1..n)
    BY FS_Interval
  <2>3. f = [i \in DOMAIN Groups |-> f[i]]
    BY Zenon
  <2>4. IsFiniteSet(DOMAIN Groups)
    BY <2>1, <2>2, Zenon
  <2> HIDE DEF f
  <2> QED BY <2>3, <2>4, ImageFinite
<1>4. {f[i] : i \in DOMAIN Groups} = {RowsOf(i, exp) : i \in DOMAIN Groups}
  <2>1. \A i \in DOMAIN Groups : f[i] = RowsOf(i, exp)
    BY Zenon
  <2> HIDE DEF f
  <2> QED BY <2>1
<1>3. \A T \in {f[i] : i \in DOMAIN Groups} : IsFiniteSet(T)
  <2>1. \A T \in {RowsOf(i, exp) : i \in DOMAIN Groups} : IsFiniteSet(T)
    BY <1>1
  <2> QED BY <1>4, <2>1, Zenon
<1>5. IsFiniteSet(UNION {RowsOf(i, exp) : i \in DOMAIN Groups})
  <2> HIDE DEF f
  <2> QED BY <1>2, <1>3, <1>4, FS_UNION, Zenon
<1>6. IsFiniteSet({AudioRow} \cup UNION {RowsOf(i, exp) : i \in DOMAIN Groups})
  BY <1>5, FS_Singleton, FS_Union, Zenon
<1> QED BY <1>6, Zenon DEF RowsShown, AudioRow

LEMMA ProductGrows ==
  ASSUME NEW h \in Nat, NEW a \in Nat, NEW b \in Nat
  PROVE  /\ h * a \in Nat
         /\ a <= b => h * a <= h * b
         /\ a + 1 <= b => h * a + h <= h * b
<1>1. h * a \in Nat
  BY NatProduct
<1>2. ASSUME a <= b PROVE h * a <= h * b
  <2>1. PICK d \in Nat : b = a + d
    BY <1>2
  <2>2. h * (a + d) = h * a + h * d
    BY Ring
  <2>3. h * d \in Nat /\ h * a \in Nat
    BY NatProduct
  <2>4. h * a <= h * a + h * d
    BY <2>3
  <2> QED BY <2>1, <2>2, <2>4, Zenon
<1>3. ASSUME a + 1 <= b PROVE h * a + h <= h * b
  <2>1. PICK d \in Nat : b = (a + d) + 1
    BY <1>3
  <2>2. h * ((a + d) + 1) = h * a + h * d + h
    BY Ring
  <2>3. h * d \in Nat /\ h * a \in Nat
    BY NatProduct
  <2>4. h * a + h <= h * a + h * d + h
    BY <2>3
  <2> QED BY <2>1, <2>2, <2>4, Zenon
<1> QED BY <1>1, <1>2, <1>3

\* How many rows of a type are above a row.
Count(r, exp, type) == Cardinality({s \in Above(r, exp) : s.type = type})

LEMMA TopIs ==
  ASSUME NEW exp, NEW r
  PROVE  /\ \A type : Count(r, exp, type) \in Nat
         /\ TopOf(r, exp) = AudioLane * Count(r, exp, "audio") + GroupRow * Count(r, exp, "group")
                             + MidiRow * Count(r, exp, "midi")
         /\ TopOf(r, exp) \in Nat
<1>1. ASSUME NEW type PROVE Count(r, exp, type) \in Nat
  <2> DEFINE S == {s \in Above(r, exp) : s.type = type}
  <2>1. IsFiniteSet(S)
    <3>1. S \in SUBSET RowsShown(exp)
      BY DEF Above
    <3> HIDE DEF S
    <3> QED BY <3>1, RowsFinite, FS_Subset
  <2> HIDE DEF S
  <2>2. Cardinality(S) \in Nat
    BY <2>1, FS_CardinalityType
  <2> QED BY <2>2 DEF Count, S
<1>2. TopOf(r, exp) = AudioLane * Count(r, exp, "audio") + GroupRow * Count(r, exp, "group")
                             + MidiRow * Count(r, exp, "midi")
  BY Zenon DEF TopOf, Count
<1>3. TopOf(r, exp) \in Nat
  <2>1. PICK a \in Nat, b \in Nat, c \in Nat :
          a = Count(r, exp, "audio") /\ b = Count(r, exp, "group") /\ c = Count(r, exp, "midi")
    BY <1>1, Zenon
  <2>2. AudioLane * a \in Nat /\ GroupRow * b \in Nat /\ MidiRow * c \in Nat
    BY HeightsAre, NatProduct
  <2>3. AudioLane * a + GroupRow * b + MidiRow * c \in Nat
    BY <2>2
  <2> QED BY <1>2, <2>1, <2>3, Zenon
<1> QED BY <1>1, <1>2, <1>3, Zenon

LEMMA CountGrows ==
  ASSUME NEW exp, NEW r \in RowsShown(exp), NEW s \in RowsShown(exp), r \in Above(s, exp), NEW type
  PROVE  /\ Count(r, exp, type) <= Count(s, exp, type)
         /\ type = r.type => Count(r, exp, type) + 1 <= Count(s, exp, type)
<1> DEFINE S == {q \in Above(r, exp) : q.type = type}
           T == {q \in Above(s, exp) : q.type = type}
<1>0. \A q \in RowsShown(exp) : q.group \in Nat /\ q.index \in Nat
  BY RowFields, Zenon
<1>1. r.group < s.group \/ (r.group = s.group /\ r.index < s.index)
  BY DEF Above
<1>2. \A q \in Above(r, exp) : q \in Above(s, exp)
  <2> SUFFICES ASSUME NEW q \in Above(r, exp) PROVE q \in Above(s, exp)
    OBVIOUS
  <2>1. q \in RowsShown(exp) /\ (q.group < r.group \/ (q.group = r.group /\ q.index < r.index))
    BY DEF Above
  <2>2. q.group < s.group \/ (q.group = s.group /\ q.index < s.index)
    BY <1>0, <1>1, <2>1
  <2> QED BY <2>1, <2>2 DEF Above
<1>3. r \notin Above(r, exp)
  BY <1>0 DEF Above
<1>4. IsFiniteSet(T)
  <2>1. T \in SUBSET RowsShown(exp)
    BY DEF Above
  <2> HIDE DEF T
  <2> QED BY <2>1, RowsFinite, FS_Subset
<1>5. S \in SUBSET T
  BY <1>2
<1>6. r.type = type => r \in T /\ r \notin S
  BY <1>3
<1> HIDE DEF S, T
<1>7. IsFiniteSet(S) /\ Cardinality(S) <= Cardinality(T)
  BY <1>4, <1>5, FS_Subset
<1>8. Cardinality(S) \in Nat /\ Cardinality(T) \in Nat
  BY <1>4, <1>7, FS_CardinalityType
<1>9. ASSUME r.type = type PROVE Cardinality(S) + 1 <= Cardinality(T)
  <2>1. Cardinality(S \cup {r}) = Cardinality(S) + 1
    BY <1>6, <1>7, <1>9, FS_AddElement, Zenon
  <2>2. S \cup {r} \in SUBSET T
    BY <1>5, <1>6, <1>9
  <2>3. Cardinality(S \cup {r}) <= Cardinality(T)
    BY <1>4, <2>2, FS_Subset
  <2> QED BY <2>1, <2>3
<1> QED BY <1>7, <1>9, Zenon DEF Count, S, T

\* A row begins where the one above it ends, or below.
LEMMA TopBelow ==
  ASSUME NEW exp, NEW r \in RowsShown(exp), NEW s \in RowsShown(exp), r \in Above(s, exp)
  PROVE  TopOf(r, exp) + r.h <= TopOf(s, exp)
<1>1. PICK a1 \in Nat, b1 \in Nat, c1 \in Nat :
        a1 = Count(r, exp, "audio") /\ b1 = Count(r, exp, "group") /\ c1 = Count(r, exp, "midi")
  BY TopIs, Zenon
<1>2. PICK a2 \in Nat, b2 \in Nat, c2 \in Nat :
        a2 = Count(s, exp, "audio") /\ b2 = Count(s, exp, "group") /\ c2 = Count(s, exp, "midi")
  BY TopIs, Zenon
<1>3. /\ a1 <= a2 /\ b1 <= b2 /\ c1 <= c2
      /\ "audio" = r.type => a1 + 1 <= a2
      /\ "group" = r.type => b1 + 1 <= b2
      /\ "midi" = r.type => c1 + 1 <= c2
  BY <1>1, <1>2, CountGrows, Zenon
<1>4. PICK A \in Nat, G \in Nat, M \in Nat : A = AudioLane /\ G = GroupRow /\ M = MidiRow
  BY HeightsAre
<1>5. TopOf(r, exp) = A * a1 + G * b1 + M * c1 /\ TopOf(s, exp) = A * a2 + G * b2 + M * c2
  BY <1>1, <1>2, <1>4, TopIs, Zenon
<1>6. /\ A * a1 \in Nat /\ A * a2 \in Nat /\ G * b1 \in Nat /\ G * b2 \in Nat /\ M * c1 \in Nat /\ M * c2 \in Nat
      /\ A * a1 <= A * a2 /\ G * b1 <= G * b2 /\ M * c1 <= M * c2
      /\ a1 + 1 <= a2 => A * a1 + A <= A * a2
      /\ b1 + 1 <= b2 => G * b1 + G <= G * b2
      /\ c1 + 1 <= c2 => M * c1 + M <= M * c2
  BY <1>3, ProductGrows, Zenon
<1>7. CASE r.type = "audio" /\ r.h = AudioLane
  <2>1. a1 + 1 <= a2 /\ r.h = A
    BY <1>3, <1>4, <1>7, Zenon
  <2> QED BY <1>4, <1>5, <1>6, <2>1
<1>8. CASE r.type = "group" /\ r.h = GroupRow
  <2>1. b1 + 1 <= b2 /\ r.h = G
    BY <1>3, <1>4, <1>8, Zenon
  <2> QED BY <1>4, <1>5, <1>6, <2>1
<1>9. CASE r.type = "midi" /\ r.h = MidiRow
  <2>1. c1 + 1 <= c2 /\ r.h = M
    BY <1>3, <1>4, <1>9, Zenon
  <2> QED BY <1>4, <1>5, <1>6, <2>1
<1> QED BY <1>7, <1>8, <1>9, RowFields, Zenon

\* A point in a row is in no other.
LEMMA OneRowAt ==
  ASSUME NEW exp, NEW r \in RowsShown(exp), NEW y \in Int, TopOf(r, exp) <= y, y < TopOf(r, exp) + r.h
  PROVE  RowAt(y, LayoutRows(exp)) = {[row |-> r, y |-> TopOf(r, exp)]}
<1> DEFINE at(q) == [row |-> q, y |-> TopOf(q, exp)]
<1>0. \A q \in RowsShown(exp) : at(q).row = q /\ at(q).y = TopOf(q, exp) /\ TopOf(q, exp) \in Nat /\ q.h \in Nat
  <2>1. \A q : at(q).row = q /\ at(q).y = TopOf(q, exp)
    OBVIOUS
  <2>2. \A q \in RowsShown(exp) : q.h \in Nat
    BY RowFields
  <2> QED BY <2>1, <2>2, TopIs, Zenon
<1>1. ASSUME NEW q \in RowsShown(exp), TopOf(q, exp) <= y, y < TopOf(q, exp) + q.h PROVE q = r
  <2>1. ~(r \in Above(q, exp))
    <3>1. TopOf(r, exp) + r.h <= TopOf(q, exp) => FALSE
      BY <1>0, <1>1
    <3> QED BY <3>1, TopBelow, Zenon
  <2>2. ~(q \in Above(r, exp))
    <3>1. TopOf(q, exp) + q.h <= TopOf(r, exp) => FALSE
      BY <1>0, <1>1
    <3> QED BY <3>1, TopBelow, Zenon
  <2>3. r.group \in Nat /\ q.group \in Nat /\ r.index \in Nat /\ q.index \in Nat
    BY RowFields, Zenon
  <2>4. q.group = r.group /\ q.index = r.index
    BY <2>1, <2>2, <2>3 DEF Above
  <2> QED BY <2>4, RowsDiffer, Zenon
<1>2. LayoutRows(exp) = {at(q) : q \in RowsShown(exp)}
  BY Zenon DEF LayoutRows
<1>3. ASSUME NEW x PROVE x \in RowAt(y, LayoutRows(exp)) <=> x = at(r)
  <2>1. ASSUME x \in RowAt(y, LayoutRows(exp)) PROVE x = at(r)
    <3>1. x \in LayoutRows(exp) /\ x.y <= y /\ y < x.y + x.row.h
      BY <2>1, Zenon DEF RowAt
    <3>2. PICK q \in RowsShown(exp) : x = at(q)
      BY <1>2, <3>1, Zenon
    <3>3. TopOf(q, exp) <= y /\ y < TopOf(q, exp) + q.h
      BY <1>0, <3>1, <3>2, Zenon
    <3>4. q = r
      BY <1>1, <3>3, Zenon
    <3> QED BY <3>2, <3>4, Zenon
  <2>2. at(r) \in RowAt(y, LayoutRows(exp))
    <3>1. at(r) \in LayoutRows(exp)
      BY <1>2, Zenon
    <3>2. at(r).y <= y /\ y < at(r).y + at(r).row.h
      BY <1>0, Zenon
    <3> HIDE DEF at
    <3> QED BY <3>1, <3>2, Zenon DEF RowAt
  <2> QED BY <2>1, <2>2, Zenon
<1> HIDE DEF at
<1>4. RowAt(y, LayoutRows(exp)) = {at(r)}
  BY <1>3
<1> QED BY <1>4, Zenon DEF at

LEMMA ArtPlace ==
  ASSUME NEW art \in Arts
  PROVE  /\ GroupOf(art) \in DOMAIN Groups
         /\ IndexIn(art) \in 0..Len(Groups[GroupOf(art)]) - 1
         /\ Groups[GroupOf(art)][IndexIn(art) + 1] = art
<1>1. PICK i \in DOMAIN Groups : art \in ToSet(Groups[i])
  BY DEF Arts
<1>2. GroupOf(art) \in DOMAIN Groups /\ art \in ToSet(Groups[GroupOf(art)])
  BY <1>1, Zenon DEF GroupOf
<1>3. PICK G : G = Groups[GroupOf(art)]
  OBVIOUS
<1>4. Len(G) \in Nat \ {0} /\ DOMAIN G = 1..Len(G)
  BY <1>2, <1>3, GroupsAre, Zenon
<1>5. \E k \in DOMAIN G : G[k] = art
  BY <1>2, <1>3, Zenon DEF ToSet
<1> DEFINE k == CHOOSE k \in DOMAIN G : G[k] = art
<1>6. k \in DOMAIN G /\ G[k] = art
  BY <1>5, Zenon
<1>7. IndexIn(art) = k - 1
  BY <1>3, Zenon DEF IndexIn
<1> HIDE DEF k
<1>8. k \in 1..Len(G)
  BY <1>4, <1>6
<1>9. IndexIn(art) \in 0..Len(G) - 1 /\ IndexIn(art) + 1 = k
  BY <1>4, <1>7, <1>8
<1> QED BY <1>2, <1>3, <1>6, <1>9, Zenon

\* The middle of a lane of a collapsed group, and the lane of that middle.
LEMMA LaneMiddle ==
  ASSUME NEW n \in Nat \ {0}, NEW x \in 0..n - 1, NEW h \in Nat \ {0}, h % (2 * n) = 0, NEW top \in Int
  PROVE  /\ (h * (2 * x + 1)) \div (2 * n) \in Nat /\ (h * (2 * x + 1)) \div (2 * n) < h
         /\ ((top + (h * (2 * x + 1)) \div (2 * n) - top) * n) \div h = x
<1>1. PICK N \in Nat \ {0} : N = 2 * n
  OBVIOUS
<1>2. PICK v \in Nat \ {0} : h = N * v
  <2>1. h % N = 0
    BY <1>1
  <2>2. h \div N \in Nat \ {0} /\ h = N * (h \div N)
    BY <2>1, DividesPos
  <2> QED BY <2>2, Zenon
<1>3. PICK z \in Nat : z = 2 * x + 1
  OBVIOUS
<1>4. h * z = N * (v * z)
  BY <1>2, <1>3
<1>5. (h * (2 * x + 1)) \div (2 * n) = v * z
  <2>1. v * z \in Int
    OBVIOUS
  <2>2. (N * (v * z)) \div N = v * z
    BY <2>1, DivOf
  <2> QED BY <1>1, <1>3, <1>4, <2>2, Zenon
<1>6. PICK m \in Nat : m = v * z
  BY NatProduct
<1>7. m < h
  <2>1. z + 1 <= N
    BY <1>1, <1>3
  <2>2. v * z + v <= v * N
    BY <2>1, ProductGrows
  <2>3. v * N = N * v
    BY Ring
  <2>4. m + v <= h
    BY <1>2, <1>6, <2>2, <2>3, Zenon
  <2> QED BY <1>6, <2>4
<1>8. (m * n) \div h = x
  <2>1. m * n = (v * n) * z
    <3>1. (v * z) * n = (v * n) * z
      BY Ring
    <3> QED BY <1>6, <3>1, Zenon
  <2>2. PICK w \in Nat \ {0} : w = v * n
    <3>1. v * n \in Nat \ {0}
      OBVIOUS
    <3> QED BY <3>1, Zenon
  <2>3. h = 2 * w
    BY <1>1, <1>2, <2>2
  <2>4. w * z = (2 * w) * x + w
    BY <1>3
  <2>5. h * x <= m * n /\ m * n < h * x + h
    <3>1. h * x \in Int /\ m * n \in Int
      OBVIOUS
    <3>2. m * n = h * x + w
      BY <2>1, <2>2, <2>3, <2>4, Zenon
    <3> QED BY <2>2, <2>3, <3>1, <3>2
  <2>6. PICK p \in Int : p = m * n
    OBVIOUS
  <2>7. p \div h = x
    BY <2>5, <2>6, DivIs
  <2> QED BY <2>6, <2>7, Zenon
<1>9. top + m - top = m
  OBVIOUS
<1> QED BY <1>5, <1>6, <1>7, <1>8, <1>9, Zenon

LEMMA PickedRow ==
  ASSUME NEW exp, NEW art \in Arts
  PROVE  ArticulationAt(LaneY(art, LayoutRows(exp)), LayoutRows(exp)) = {art}
<1> DEFINE rows == LayoutRows(exp)
           at(q) == [row |-> q, y |-> TopOf(q, exp)]
           P(r) == \/ r.row.type = "midi" /\ ArtOf(r.row) = art
                   \/ r.row.type = "group" /\ r.row.group = GroupOf(art)
           r == CHOOSE r \in rows : P(r)
<1>1. rows = {at(q) : q \in RowsShown(exp)} /\ \A q : at(q).row = q /\ at(q).y = TopOf(q, exp)
  <2>1. rows = {at(q) : q \in RowsShown(exp)}
    BY Zenon DEF LayoutRows
  <2>2. \A q : at(q).row = q /\ at(q).y = TopOf(q, exp)
    OBVIOUS
  <2> QED BY <2>1, <2>2, Zenon
<1>2. PICK i \in DOMAIN Groups, x \in Nat : /\ i = GroupOf(art) /\ x = IndexIn(art)
                                          /\ x + 1 \in DOMAIN Groups[i] /\ Groups[i][x + 1] = art
                                          /\ x \in 0..Len(Groups[i]) - 1
  <2>1. PICK i \in DOMAIN Groups : i = GroupOf(art)
    BY ArtPlace, Zenon
  <2>2. PICK n \in Nat \ {0} : n = Len(Groups[i]) /\ DOMAIN Groups[i] = 1..n
    BY GroupsAre, Zenon
  <2>3. PICK x \in 0..n - 1 : x = IndexIn(art)
    BY <2>1, <2>2, ArtPlace, Zenon
  <2>4. x \in Nat /\ x + 1 \in 1..n
    BY <2>3
  <2>5. Groups[i][x + 1] = art
    BY <2>1, <2>3, ArtPlace, Zenon
  <2> QED BY <2>1, <2>2, <2>3, <2>4, <2>5, Zenon
<1>3. \E q \in RowsShown(exp) : P(at(q))
  <2>1. CASE Expanded(i, exp)
    <3> DEFINE q == MidiRowOf(i, x + 1)
    <3>1. q.type = "midi" /\ q.group = i /\ q.index = x + 1
      BY DEF MidiRowOf
    <3>2. q \in RowsOf(i, exp)
      BY <1>2, <2>1, Zenon DEF RowsOf, MidiRowOf
    <3> HIDE DEF q
    <3>3. q \in RowsShown(exp)
      BY <3>2, Zenon DEF RowsShown
    <3>4. ArtOf(q) = art
      BY <1>2, <3>1, Zenon DEF ArtOf
    <3> QED BY <1>1, <3>1, <3>3, <3>4, Zenon
  <2>2. CASE ~Expanded(i, exp)
    <3> DEFINE q == GroupRowOf(i)
    <3>1. q.type = "group" /\ q.group = i
      BY DEF GroupRowOf
    <3>2. q \in RowsOf(i, exp)
      BY <2>2, Zenon DEF RowsOf, GroupRowOf
    <3> HIDE DEF q
    <3>3. q \in RowsShown(exp)
      BY <3>2, Zenon DEF RowsShown
    <3> QED BY <1>1, <1>2, <3>1, <3>3, Zenon
  <2> QED BY <2>1, <2>2, Zenon
<1>4. r \in rows /\ P(r)
  <2>1. \E z \in rows : P(z)
    BY <1>1, <1>3, Zenon
  <2> HIDE DEF P, rows
  <2> QED BY <2>1, Zenon
<1>5. LaneY(art, rows) = IF r.row.type = "midi" THEN r.y + r.row.h \div 2
                         ELSE r.y + (r.row.h * (2 * IndexIn(art) + 1)) \div (2 * Len(Groups[r.row.group]))
  BY Zenon DEF LaneY
<1> HIDE DEF r
<1>6. PICK q \in RowsShown(exp) : r = at(q) /\ r.row = q /\ r.y = TopOf(q, exp)
  BY <1>1, <1>4, Zenon
<1>7. PICK top \in Nat : top = TopOf(q, exp)
  BY TopIs, Zenon
<1> HIDE DEF rows, at
<1>8. ASSUME NEW y \in Int, top <= y, y < top + q.h, q.type # "audio"
      PROVE  LET n == Len(Groups[q.group])
                 lane == Smaller(n - 1, Larger(0, ((y - top) * n) \div q.h)) IN
             ArticulationAt(y, rows) = {IF q.type = "midi" THEN ArtOf(q) ELSE Groups[q.group][lane + 1]}
  <2>1. RowAt(y, rows) = {r}
    <3>1. RowAt(y, rows) = {at(q)}
      BY <1>7, <1>8, OneRowAt, Zenon DEF rows, at
    <3> QED BY <1>6, <3>1, Zenon
  <2> DEFINE lane(z) == LET n == Len(Groups[z.row.group]) IN
                        Smaller(n - 1, Larger(0, ((y - z.y) * n) \div z.row.h))
             Means(z) == IF z.row.type = "midi" THEN ArtOf(z.row) ELSE Groups[z.row.group][lane(z) + 1]
  <2>2. ArticulationAt(y, rows) = {Means(z) : z \in {z \in RowAt(y, rows) : z.row.type # "audio"}}
    BY Zenon DEF ArticulationAt
  <2>3. Means(r) = IF q.type = "midi" THEN ArtOf(q)
                   ELSE Groups[q.group][Smaller(Len(Groups[q.group]) - 1,
                                          Larger(0, ((y - top) * Len(Groups[q.group])) \div q.h)) + 1]
    BY <1>6, <1>7, Zenon
  <2> HIDE DEF Means
  <2>4. {z \in RowAt(y, rows) : z.row.type # "audio"} = {r}
    BY <1>6, <1>8, <2>1, Zenon
  <2>5. ArticulationAt(y, rows) = {Means(r)}
    BY <2>2, <2>4
  <2> QED BY <2>3, <2>5, Zenon
<1>9. CASE q.type = "midi"
  <2>1. ArtOf(q) = art
    <3>1. q.type # "group"
      BY <1>9
    <3> QED BY <1>4, <1>6, <1>9, <3>1, Zenon
  <2>2. q.h = MidiRow
    <3>1. q.type # "audio" /\ q.type # "group"
      BY <1>9
    <3> QED BY <3>1, RowFields, Zenon
  <2>3. PICK y \in Int : y = top + MidiRow \div 2 /\ top <= y /\ y < top + MidiRow
    <3>1. PICK d \in Nat \ {0} : d = MidiRow \div 2 /\ MidiRow = 2 * d
      <4>1. MidiRow \div 2 \in Nat \ {0} /\ MidiRow = 2 * (MidiRow \div 2)
        BY HeightsAre, DividesPos
      <4> QED BY <4>1, Zenon
    <3>2. top + d \in Int /\ top <= top + d /\ top + d < top + MidiRow
      BY <3>1
    <3> QED BY <3>1, <3>2, Zenon
  <2>4. LaneY(art, rows) = y
    BY <1>5, <1>6, <1>7, <1>9, <2>2, <2>3, Zenon
  <2>5. q.type # "audio"
    BY <1>9
  <2>6. ArticulationAt(y, rows) = {ArtOf(q)}
    BY <1>8, <1>9, <2>2, <2>3, <2>5, Zenon
  <2> QED BY <2>1, <2>4, <2>6, Zenon DEF rows
<1>10. CASE q.type # "midi"
  <2>1. q.type = "group" /\ q.group = i
    BY <1>2, <1>4, <1>6, <1>10, Zenon
  <2>2. q.h = GroupRow /\ q.type # "audio"
    <3>1. q.type # "audio" /\ q.type # "midi"
      BY <2>1
    <3> QED BY <3>1, RowFields, Zenon
  <2>3. PICK n \in Nat \ {0} : n = Len(Groups[i]) /\ GroupRow % (2 * n) = 0
    BY GroupsAre, Zenon
  <2>4. PICK d \in Nat : /\ d = (GroupRow * (2 * x + 1)) \div (2 * n) /\ d < GroupRow
                        /\ ((top + d - top) * n) \div GroupRow = x
    <3>1. x \in 0..n - 1 /\ top \in Int
      BY <1>2, <2>3
    <3>2. /\ (GroupRow * (2 * x + 1)) \div (2 * n) \in Nat /\ (GroupRow * (2 * x + 1)) \div (2 * n) < GroupRow
          /\ ((top + (GroupRow * (2 * x + 1)) \div (2 * n) - top) * n) \div GroupRow = x
      BY <2>3, <3>1, HeightsAre, LaneMiddle, ZenonT(60)
    <3> QED BY <3>2, Zenon
  <2>5. PICK y \in Int : y = top + d /\ top <= y /\ y < top + GroupRow
    <3>1. d < GroupRow /\ GroupRow \in Nat
      BY <2>4, HeightsAre
    <3>2. top + d \in Int /\ top <= top + d /\ top + d < top + GroupRow
      BY <3>1
    <3> QED BY <3>2, Zenon
  <2>6. LaneY(art, rows) = y
    <3>1. q.type # "midi"
      BY <2>1
    <3>2. LaneY(art, rows) = r.y + (r.row.h * (2 * IndexIn(art) + 1)) \div (2 * Len(Groups[r.row.group]))
      BY <1>5, <1>6, <3>1, Zenon
    <3>3. r.y = top /\ r.row.h = GroupRow /\ IndexIn(art) = x /\ Len(Groups[r.row.group]) = n
      BY <1>2, <1>6, <1>7, <2>1, <2>2, <2>3, Zenon
    <3> QED BY <2>4, <2>5, <3>2, <3>3, Zenon
  <2>7. ((y - top) * n) \div GroupRow = x
    <3>1. y - top = top + d - top
      BY <2>5
    <3> QED BY <2>4, <3>1, Zenon
  <2>8. Smaller(n - 1, Larger(0, x)) = x
    <3>1. n - 1 \in Int /\ x <= n - 1 /\ x >= 0
      BY <1>2, <2>3
    <3> QED BY <3>1 DEF Smaller, Larger
  <2>9. ArticulationAt(y, rows) = {Groups[i][x + 1]}
    BY <1>8, <1>10, <2>1, <2>2, <2>3, <2>5, <2>7, <2>8, Zenon
  <2> QED BY <1>2, <2>6, <2>9, Zenon DEF rows
<1> QED BY <1>9, <1>10, Zenon DEF rows

-----------------------------------------------------------------------------
(* Hits, selection and clipboard have their types *)

OneEach(H) == \A g, h \in H : g.id = h.id => g = h
Sane(H) == OneEach(H) /\ \A h \in H : h.art \in Arts /\ h.t \in InSong /\ h.vel \in 1..MaxVel
SaneAll(s) == \A H \in ToSet(s) : Sane(H)

\* Ids of H, each once.
Once(s, S) == s \in Seq(S) /\ \A i, j \in DOMAIN s : s[i] = s[j] => i = j
Items(c) == \A i \in DOMAIN c : c[i].art \in Arts /\ c[i].vel \in 1..MaxVel /\ c[i].dt \in Int

EdSane(e) ==
  /\ Sane(e.hits) /\ SaneAll(e.past) /\ SaneAll(e.future)
  /\ e.gesture.on => Sane(e.gesture.hits) /\ SaneAll(e.gesture.past) /\ SaneAll(e.gesture.future)
  /\ Once(e.selection, Ids(e.hits)) /\ Items(e.clip) /\ e.lastVel \in 1..MaxVel

Gestures == {"move", "erase", "velocity", "slider"}
Dragged(e, d) ==
  /\ DOMAIN d = {"kind", "base"}
  /\ e.gesture.on <=> d.kind \in Gestures
  /\ \A h \in d.base : h.t \in Int /\ h.art \in Arts

-----------------------------------------------------------------------------
(* Elements in an order *)

\* The places of the elements of a finite set in an order: each has one.
LEMMA RanksAre ==
  ASSUME NEW S, IsFiniteSet(S), NEW B,
         \A x \in S : <<x, x>> \notin B,
         \A x, y \in S : x = y \/ <<x, y>> \in B \/ <<y, x>> \in B,
         \A x, y, z \in S : <<x, y>> \in B /\ <<y, z>> \in B => <<x, z>> \in B
  PROVE  /\ Cardinality(S) \in Nat
         /\ \A i \in 1..Cardinality(S) : \E x \in S : Cardinality({y \in S : <<y, x>> \in B}) = i - 1
<1> DEFINE Below(x) == {y \in S : <<y, x>> \in B}
           r == [x \in S |-> Cardinality(Below(x))]
<1>1. PICK n \in Nat : n = Cardinality(S)
  BY FS_CardinalityType, Zenon
<1>2. ASSUME NEW x \in S, NEW T, T \in SUBSET S, Below(x) \in SUBSET T, x \in T
      PROVE  Cardinality(Below(x)) \in Nat /\ Cardinality(T) \in Nat /\ Cardinality(Below(x)) < Cardinality(T)
  <2>1. IsFiniteSet(T) /\ IsFiniteSet(Below(x))
    <3>1. Below(x) \in SUBSET S
      OBVIOUS
    <3> HIDE DEF Below
    <3> QED BY <1>2, <3>1, FS_Subset, Zenon
  <2>2. x \notin Below(x)
    OBVIOUS
  <2> HIDE DEF Below
  <2>3. /\ Cardinality(Below(x)) <= Cardinality(T)
        /\ Cardinality(T) = Cardinality(Below(x)) => T = Below(x)
    BY <1>2, <2>1, FS_Subset, Zenon
  <2>4. Cardinality(T) # Cardinality(Below(x))
    BY <1>2, <2>2, <2>3, Zenon
  <2>5. Cardinality(Below(x)) \in Nat /\ Cardinality(T) \in Nat
    BY <2>1, FS_CardinalityType, Zenon
  <2> QED BY <2>3, <2>4, <2>5
<1>3. ASSUME NEW x \in S  PROVE r[x] \in 0..n - 1
  <2>1. S \in SUBSET S /\ Below(x) \in SUBSET S
    OBVIOUS
  <2>2. Cardinality(Below(x)) \in Nat /\ Cardinality(Below(x)) < Cardinality(S)
    <3> HIDE DEF Below
    <3> QED BY <1>2, <2>1, Zenon
  <2>3. r[x] = Cardinality(Below(x))
    OBVIOUS
  <2> HIDE DEF r, Below
  <2> QED BY <1>1, <2>2, <2>3
<1>4. ASSUME NEW x \in S, NEW y \in S, <<x, y>> \in B  PROVE r[x] # r[y]
  <2>1. Below(y) \in SUBSET S /\ Below(x) \in SUBSET Below(y) /\ x \in Below(y)
    BY <1>4
  <2>2. r[x] = Cardinality(Below(x)) /\ r[y] = Cardinality(Below(y))
    OBVIOUS
  <2> HIDE DEF r, Below
  <2>3. /\ Cardinality(Below(x)) \in Nat /\ Cardinality(Below(y)) \in Nat
        /\ Cardinality(Below(x)) < Cardinality(Below(y))
    BY <1>2, <2>1, Zenon
  <2> QED BY <2>2, <2>3
<1>5. r \in Injection(S, 0..n - 1)
  <2>1. r \in [S -> 0..n - 1]
    <3>1. r = [x \in S |-> r[x]]
      OBVIOUS
    <3> HIDE DEF r
    <3> QED BY <1>3, <3>1
  <2>2. \A x, y \in S : r[x] = r[y] => x = y
    <3> HIDE DEF r
    <3> QED BY <1>4, Zenon
  <2> HIDE DEF r
  <2> QED BY <2>1, <2>2, Zenon DEF Injection, IsInjective
<1>6. IsFiniteSet(0..n - 1) /\ Cardinality(0..n - 1) = n
  <2>1. /\ IsFiniteSet(0..n - 1)
        /\ Cardinality(0..n - 1) = IF 0 > n - 1 THEN 0 ELSE n - 1 - 0 + 1
    <3>1. 0 \in Int /\ n - 1 \in Int
      OBVIOUS
    <3> QED BY <3>1, FS_Interval
  <2> QED BY <2>1
<1>7. r \in Surjection(S, 0..n - 1)
  <2> HIDE DEF r
  <2> QED BY <1>1, <1>5, <1>6, FS_Injection, Zenon
<1>8. ASSUME NEW i \in 1..n  PROVE \E x \in S : Cardinality(Below(x)) = i - 1
  <2>1. i - 1 \in 0..n - 1
    OBVIOUS
  <2>2. PICK x \in S : r[x] = i - 1
    <3> HIDE DEF r
    <3> QED BY <1>7, <2>1, Zenon DEF Surjection
  <2>3. r[x] = Cardinality(Below(x))
    OBVIOUS
  <2> QED BY <2>2, <2>3, Zenon
<1> QED BY <1>1, <1>8, Zenon

\* Elements of a sequence in S, in its order.
LEMMA KeptIs ==
  ASSUME NEW T, NEW s \in Seq(T), NEW S
  PROVE  /\ Kept(s, S) \in Seq(S \cap ToSet(s))
         /\ Once(s, T) => Once(Kept(s, S), S \cap ToSet(s))
<1> DEFINE at == {i \in DOMAIN s : s[i] \in S}
           B == {p \in Int \X Int : p[1] < p[2]}
           r(i) == Cardinality({j \in at : j < i})
           m == [k \in 1..Cardinality(at) |-> CHOOSE i \in at : r(i) = k - 1]
<1>1. Len(s) \in Nat /\ DOMAIN s = 1..Len(s)
  BY LenProperties, Zenon
<1>2. IsFiniteSet(at) /\ at \subseteq Int
  <2>1. IsFiniteSet(1..Len(s))
    BY <1>1, FS_Interval
  <2>2. at \in SUBSET (1..Len(s))
    BY <1>1
  <2> HIDE DEF at
  <2>3. IsFiniteSet(at)
    BY <2>1, <2>2, FS_Subset, Zenon
  <2>4. at \subseteq Int
    BY <1>1, <2>2
  <2> QED BY <2>3, <2>4
<1>3. /\ \A x \in at : <<x, x>> \notin B
      /\ \A x, y \in at : x = y \/ <<x, y>> \in B \/ <<y, x>> \in B
      /\ \A x, y, z \in at : <<x, y>> \in B /\ <<y, z>> \in B => <<x, z>> \in B
      /\ \A x \in at : {y \in at : <<y, x>> \in B} = {j \in at : j < x}
  <2>1. \A x, y \in Int : <<x, y>> \in B <=> x < y
    OBVIOUS
  <2> HIDE DEF B
  <2> DEFINE D == at
  <2>2. D \subseteq Int /\ at = D
    BY <1>2
  <2> HIDE DEF at, D
  <2>3. /\ \A x \in D : <<x, x>> \notin B
        /\ \A x, y \in D : x = y \/ <<x, y>> \in B \/ <<y, x>> \in B
        /\ \A x, y, z \in D : <<x, y>> \in B /\ <<y, z>> \in B => <<x, z>> \in B
    BY <2>1, <2>2
  <2>4. \A x \in D : {y \in D : <<y, x>> \in B} = {j \in D : j < x}
    BY <2>1, <2>2, Zenon
  <2> QED BY <2>2, <2>3, <2>4, Zenon
<1>4. Cardinality(at) \in Nat /\ \A i \in 1..Cardinality(at) : \E x \in at : Cardinality({y \in at : <<y, x>> \in B}) = i - 1
  <2> HIDE DEF at, B
  <2> QED BY <1>2, <1>3, RanksAre, Zenon
<1>5. ASSUME NEW k \in 1..Cardinality(at)  PROVE m[k] \in at /\ r(m[k]) = k - 1
  <2>1. \E x \in at : r(x) = k - 1
    <3> HIDE DEF at, B
    <3> QED BY <1>3, <1>4, Zenon
  <2>2. m[k] = CHOOSE i \in at : r(i) = k - 1
    BY Zenon
  <2> HIDE DEF m, at, r
  <2> QED BY <2>1, <2>2, Zenon
<1>6. Kept(s, S) = [k \in 1..Cardinality(at) |-> s[m[k]]]
  BY DEF Kept
<1> HIDE DEF r, m
<1>7. \A i \in at : s[i] \in S \cap ToSet(s)
  BY DEF ToSet
<1>8. PICK n \in Nat : n = Cardinality(at)
  BY <1>4, Zenon
<1>9. Kept(s, S) \in [1..n -> S \cap ToSet(s)]
  <2> HIDE DEF at
  <2> QED BY <1>5, <1>6, <1>7, <1>8
<1>10. Kept(s, S) \in Seq(S \cap ToSet(s)) /\ DOMAIN Kept(s, S) = 1..n
  BY <1>9
<1>11. ASSUME Once(s, T), NEW i \in 1..n, NEW j \in 1..n, Kept(s, S)[i] = Kept(s, S)[j]
       PROVE  i = j
  <2>1. Kept(s, S)[i] = s[m[i]] /\ Kept(s, S)[j] = s[m[j]]
    <3> HIDE DEF at
    <3> QED BY <1>6, <1>8
  <2>2. m[i] \in at /\ m[j] \in at /\ r(m[i]) = i - 1 /\ r(m[j]) = j - 1
    <3> HIDE DEF at
    <3> QED BY <1>5, <1>8, Zenon
  <2>3. m[i] = m[j]
    <3>1. m[i] \in DOMAIN s /\ m[j] \in DOMAIN s
      BY <2>2
    <3> HIDE DEF at
    <3> QED BY <1>11, <2>1, <3>1, Zenon DEF Once
  <2>4. i - 1 = j - 1
    BY <2>2, <2>3, Zenon
  <2> QED BY <2>4
<1> QED BY <1>10, <1>11, Zenon DEF Once

\* The hits of a document in the order of time: each id once.
LEMMA InOrderIs ==
  ASSUME NEW H, IsFiniteSet(H), OneEach(H), \A h \in H : h.id \in Int /\ h.t \in Int
  PROVE  /\ Once(InOrder(H), Ids(H)) /\ (H # {} => InOrder(H) # <<>> /\ 1 \in DOMAIN InOrder(H))
         /\ DOMAIN InOrder(H) = 1..Len(InOrder(H)) /\ Len(InOrder(H)) \in Nat
<1> DEFINE sooner(g, h) == g.t < h.t \/ (g.t = h.t /\ g.id < h.id)
           B == {p \in H \X H : sooner(p[1], p[2])}
           r(h) == Cardinality({g \in H : sooner(g, h)})
           m == [i \in 1..Cardinality(H) |-> CHOOSE h \in H : r(h) = i - 1]
<1>1. /\ \A x \in H : <<x, x>> \notin B
      /\ \A x, y \in H : x = y \/ <<x, y>> \in B \/ <<y, x>> \in B
      /\ \A x, y, z \in H : <<x, y>> \in B /\ <<y, z>> \in B => <<x, z>> \in B
      /\ \A x \in H : {y \in H : <<y, x>> \in B} = {g \in H : sooner(g, x)}
  <2>1. \A x, y \in H : <<x, y>> \in B <=> sooner(x, y)
    OBVIOUS
  <2> HIDE DEF B
  <2>2. ASSUME NEW x \in H  PROVE ~sooner(x, x)
    OBVIOUS
  <2>3. ASSUME NEW x \in H, NEW y \in H  PROVE x = y \/ sooner(x, y) \/ sooner(y, x)
    <3>1. x.id = y.id => x = y
      BY DEF OneEach
    <3> QED BY <3>1
  <2>4. ASSUME NEW x \in H, NEW y \in H, NEW z \in H, sooner(x, y), sooner(y, z)  PROVE sooner(x, z)
    BY <2>4
  <2> HIDE DEF sooner
  <2> QED BY <2>1, <2>2, <2>3, <2>4
<1>2. Cardinality(H) \in Nat /\ \A i \in 1..Cardinality(H) : \E x \in H : Cardinality({y \in H : <<y, x>> \in B}) = i - 1
  <2> HIDE DEF B
  <2> QED BY <1>1, RanksAre, Zenon
<1>3. ASSUME NEW i \in 1..Cardinality(H)  PROVE m[i] \in H /\ r(m[i]) = i - 1
  <2>1. \E x \in H : r(x) = i - 1
    <3> HIDE DEF B
    <3> QED BY <1>1, <1>2, Zenon
  <2>2. m[i] = CHOOSE h \in H : r(h) = i - 1
    BY Zenon
  <2> HIDE DEF m, r
  <2> QED BY <2>1, <2>2, Zenon
<1>4. InOrder(H) = [i \in 1..Cardinality(H) |-> m[i].id]
  BY DEF InOrder
<1> HIDE DEF r, m
<1>5. PICK n \in Nat : n = Cardinality(H)
  BY <1>2, Zenon
<1>6. InOrder(H) \in [1..n -> Ids(H)]
  BY <1>3, <1>4, <1>5 DEF Ids
<1>7. InOrder(H) \in Seq(Ids(H)) /\ DOMAIN InOrder(H) = 1..n /\ Len(InOrder(H)) = n
  BY <1>6
<1>8. ASSUME NEW i \in 1..n, NEW j \in 1..n, InOrder(H)[i] = InOrder(H)[j]  PROVE i = j
  <2>1. InOrder(H)[i] = m[i].id /\ InOrder(H)[j] = m[j].id
    BY <1>4, <1>5
  <2>2. m[i] \in H /\ m[j] \in H /\ r(m[i]) = i - 1 /\ r(m[j]) = j - 1
    BY <1>3, <1>5, Zenon
  <2>3. m[i] = m[j]
    BY <1>8, <2>1, <2>2, Zenon DEF OneEach
  <2>4. i - 1 = j - 1
    BY <2>2, <2>3, Zenon
  <2> QED BY <2>4
<1>9. H # {} => n # 0
  BY <1>5, FS_EmptySet, Zenon
<1>10. n # 0 => InOrder(H) # <<>> /\ 1 \in DOMAIN InOrder(H)
  <2>1. n # 0 => 1 \in 1..n
    OBVIOUS
  <2>2. DOMAIN <<>> = {}
    OBVIOUS
  <2> QED BY <1>7, <2>1, <2>2, Zenon
<1>11. Once(InOrder(H), Ids(H))
  BY <1>7, <1>8, Zenon DEF Once
<1>12. DOMAIN InOrder(H) = 1..Len(InOrder(H)) /\ Len(InOrder(H)) \in Nat
  BY <1>7, Zenon
<1> QED BY <1>9, <1>10, <1>11, <1>12, Zenon

\* One sequence after another that has none of its elements.
LEMMA OnceAfter ==
  ASSUME NEW S, NEW s, NEW u, Once(s, S), Once(u, S), ToSet(s) \cap ToSet(u) = {}
  PROVE  Once(s \o u, S)
<1>1. PICK l \in Nat, k \in Nat : l = Len(s) /\ k = Len(u) /\ s \in Seq(S) /\ u \in Seq(S)
  <2>1. s \in Seq(S) /\ u \in Seq(S)
    BY Zenon DEF Once
  <2>2. Len(s) \in Nat /\ Len(u) \in Nat
    BY <2>1, LenProperties, Zenon
  <2> QED BY <2>1, <2>2, Zenon
<1>2. PICK c : c = s \o u
  BY Zenon
<1>3. /\ c \in Seq(S) /\ Len(c) = l + k
      /\ \A i \in 1..l + k : c[i] = IF i <= l THEN s[i] ELSE u[i - l]
  BY <1>1, <1>2, ConcatProperties
<1>4. DOMAIN s = 1..l /\ DOMAIN u = 1..k /\ DOMAIN c = 1..l + k
  BY <1>1, <1>3, LenProperties
<1>5. \A i \in 1..l : s[i] \in ToSet(s)
  BY <1>4, Zenon DEF ToSet
<1>6. \A i \in 1..k : u[i] \in ToSet(u)
  BY <1>4, Zenon DEF ToSet
<1>7. /\ \A i, j \in 1..l : s[i] = s[j] => i = j
      /\ \A i, j \in 1..k : u[i] = u[j] => i = j
  BY <1>4, Zenon DEF Once
<1>8. ASSUME NEW i \in 1..l + k, NEW j \in 1..l + k, c[i] = c[j]  PROVE i = j
  <2>1. CASE i <= l /\ j <= l
    <3>1. i \in 1..l /\ j \in 1..l /\ c[i] = s[i] /\ c[j] = s[j]
      BY <1>3, <2>1
    <3> QED BY <1>7, <1>8, <3>1, Zenon
  <2>2. CASE i <= l /\ ~(j <= l)
    <3>1. i \in 1..l /\ j - l \in 1..k /\ c[i] = s[i] /\ c[j] = u[j - l]
      BY <1>3, <2>2
    <3> QED BY <1>5, <1>6, <1>8, <3>1, Zenon
  <2>3. CASE ~(i <= l) /\ j <= l
    <3>1. j \in 1..l /\ i - l \in 1..k /\ c[j] = s[j] /\ c[i] = u[i - l]
      BY <1>3, <2>3
    <3> QED BY <1>5, <1>6, <1>8, <3>1, Zenon
  <2>4. CASE ~(i <= l) /\ ~(j <= l)
    <3>1. i - l \in 1..k /\ j - l \in 1..k /\ c[i] = u[i - l] /\ c[j] = u[j - l]
      BY <1>3, <2>4
    <3>2. i - l = j - l
      BY <1>7, <1>8, <3>1, Zenon
    <3> QED BY <3>2
  <2> QED BY <2>1, <2>2, <2>3, <2>4, Zenon
<1> QED BY <1>2, <1>3, <1>4, <1>8, Zenon DEF Once

LEMMA OnceIn ==
  ASSUME NEW S, NEW T, NEW s, Once(s, S), S \subseteq T
  PROVE  Once(s, T)
<1>1. s \in Seq(T)
  BY SeqMonotonic, Zenon DEF Once
<1> QED BY <1>1, Zenon DEF Once

LEMMA OnceHas ==
  ASSUME NEW S, NEW s, Once(s, S)
  PROVE  /\ ToSet(s) \subseteq S /\ Len(s) \in Nat /\ DOMAIN s = 1..Len(s)
         /\ Len(s) = Cardinality(ToSet(s)) /\ (s # <<>> => Len(s) \in 1..Len(s))
         /\ \A i \in DOMAIN s : s[i] \in S
<1>1. s \in Seq(S) /\ Len(s) \in Nat /\ DOMAIN s = 1..Len(s)
  BY LenProperties, Zenon DEF Once
<1>2. \A i \in DOMAIN s : s[i] \in S
  BY <1>1, ElementOfSeq, Zenon
<1>3. ToSet(s) \subseteq S
  BY <1>2, Zenon DEF ToSet
<1>4. PICK n \in Nat : n = Len(s)
  BY <1>1, Zenon
<1>5. s \in Bijection(1..n, ToSet(s))
  <2>1. s \in [1..n -> ToSet(s)]
    BY <1>1, <1>4 DEF ToSet
  <2>2. \A y \in ToSet(s) : \E x \in 1..n : s[x] = y
    BY <1>1, <1>4, Zenon DEF ToSet
  <2>3. \A x, y \in 1..n : s[x] = s[y] => x = y
    BY <1>1, <1>4, Zenon DEF Once
  <2> QED BY <2>1, <2>2, <2>3, Zenon DEF Bijection, Injection, Surjection, IsInjective
<1>6. IsFiniteSet(1..n) /\ Cardinality(1..n) = n
  <2>1. /\ IsFiniteSet(1..n) /\ Cardinality(1..n) = IF 1 > n THEN 0 ELSE n - 1 + 1
    BY FS_Interval
  <2> QED BY <2>1
<1>7. Cardinality(ToSet(s)) = n
  BY <1>5, <1>6, FS_Bijection, Zenon DEF ExistsBijection
<1>8. s # <<>> => n # 0
  BY <1>1, <1>4, EmptySeq, Zenon
<1>9. n # 0 => n \in 1..n
  OBVIOUS
<1> QED BY <1>1, <1>2, <1>3, <1>4, <1>7, <1>8, <1>9, Zenon

\* Ids name the hits of a document.
LEMMA IdsCount ==
  ASSUME NEW H, IsFiniteSet(H), OneEach(H)
  PROVE  Cardinality(Ids(H)) = Cardinality(H)
<1> DEFINE f == [h \in H |-> h.id]
<1>1. f \in [H -> Ids(H)] /\ \A h \in H : f[h] = h.id
  BY DEF Ids
<1> HIDE DEF f
<1>2. \A y \in Ids(H) : \E h \in H : f[h] = y
  BY <1>1 DEF Ids
<1>3. \A g, h \in H : f[g] = f[h] => g = h
  BY <1>1, Zenon DEF OneEach
<1>4. f \in Bijection(H, Ids(H))
  BY <1>1, <1>2, <1>3, Zenon DEF Bijection, Injection, Surjection, IsInjective
<1> QED BY <1>4, FS_Bijection, Zenon DEF ExistsBijection

LEMMA HitIs ==
  ASSUME NEW H, NEW id \in Ids(H)
  PROVE  Hit(H, id) \in H /\ Hit(H, id).id = id
<1>1. \E h \in H : h.id = id
  BY Zenon DEF Ids
<1> QED BY <1>1, Zenon DEF Hit

-----------------------------------------------------------------------------
(* What an operation does to the types *)

\* f has its types as e has, and its gesture on or off as e.
Stays(e, f) == EdSane(f) /\ f.gesture.on = e.gesture.on

LEMMA Bounded ==
  /\ \A t \in Int : Clamped(t) \in InSong
  /\ \A v \in Int : ClampedVel(v) \in 1..MaxVel
  /\ InSong \subseteq Nat
<1>1. Duration \in Nat /\ MaxVel \in Nat \ {0}
  BY ViewSizes, EditAssumption
<1> QED BY <1>1 DEF Clamped, ClampedVel, InSong, Larger, Smaller

LEMMA SanePushed ==
  ASSUME NEW s, Plain(s), SaneAll(s), NEW H, Sane(H)
  PROVE  SaneAll(Pushed(s, H))
<1>1. \A i \in DOMAIN Pushed(s, H) : Pushed(s, H)[i] \in ToSet(s) \cup {H}
  BY PushedIs, Zenon
<1>2. \A G \in ToSet(Pushed(s, H)) : G \in ToSet(s) \cup {H}
  BY <1>1, Zenon DEF ToSet
<1> QED BY <1>2, Zenon DEF SaneAll

LEMMA SaneNone == SaneAll(<<>>) /\ Once(<<>>, {}) /\ Items(<<>>)
<1>1. DOMAIN <<>> = {} /\ <<>> \in Seq({}) /\ ToSet(<<>>) = {}
  BY DEF ToSet
<1> QED BY <1>1, Zenon DEF SaneAll, Once, Items

\* A commit of sane hits.
LEMMA CommitStays ==
  ASSUME NEW e, EdInv(e), EdSane(e), NEW f, Commits(e, f), Sane(f.hits),
         Once(f.selection, Ids(f.hits)), f.lastVel \in 1..MaxVel
  PROVE  Stays(e, f)
<1>1. /\ f.future = <<>> /\ f.clip = e.clip
      /\ f.past = IF e.gesture.on /\ e.gesture.touched THEN e.past ELSE Pushed(e.past, e.hits)
      /\ f.gesture = [e.gesture EXCEPT !.touched = e.gesture.on] /\ DOMAIN e.gesture = GestureFields
      /\ Plain(e.past)
  BY Zenon DEF Commits, EdInv, Trail
<1>2. /\ f.gesture.on = e.gesture.on /\ f.gesture.hits = e.gesture.hits
      /\ f.gesture.past = e.gesture.past /\ f.gesture.future = e.gesture.future
  BY <1>1 DEF GestureFields
<1>3. SaneAll(f.past) /\ SaneAll(f.future)
  <2>1. SaneAll(e.past) /\ Sane(e.hits) /\ SaneAll(<<>>)
    BY SaneNone, Zenon DEF EdSane
  <2>2. SaneAll(Pushed(e.past, e.hits))
    BY <1>1, <2>1, SanePushed, Zenon
  <2>3. f.past = e.past \/ f.past = Pushed(e.past, e.hits)
    BY <1>1
  <2>4. SaneAll(f.past)
    BY <2>1, <2>2, <2>3, Zenon
  <2>5. SaneAll(f.future)
    BY <1>1, <2>1, Zenon
  <2> QED BY <2>4, <2>5
<1>4. ASSUME f.gesture.on
      PROVE  Sane(f.gesture.hits) /\ SaneAll(f.gesture.past) /\ SaneAll(f.gesture.future)
  <2>1. e.gesture.on
    BY <1>2, <1>4
  <2> QED BY <1>2, <2>1, Zenon DEF EdSane
<1>5. Items(f.clip)
  BY <1>1, Zenon DEF EdSane
<1> QED BY <1>2, <1>3, <1>4, <1>5, Zenon DEF EdSane, Stays

LEMMA SameStays ==
  ASSUME NEW e, EdSane(e)
  PROVE  Stays(e, e)
BY Zenon DEF Stays

\* Another selection, clipboard or default velocity.
LEMMA KeepStays ==
  ASSUME NEW e, EdSane(e), NEW f, f.hits = e.hits, f.past = e.past, f.future = e.future, f.gesture = e.gesture,
         Once(f.selection, Ids(e.hits)), Items(f.clip), f.lastVel \in 1..MaxVel
  PROVE  Stays(e, f)
BY Zenon DEF Stays, EdSane

LEMMA CommittedHas ==
  ASSUME NEW e, EdInv(e), NEW H
  PROVE  Committed(e, H).selection = e.selection /\ Committed(e, H).lastVel = e.lastVel
BY DEF Committed, EdInv, Fields

LEMMA ChangedStays ==
  ASSUME NEW e, EdInv(e), EdSane(e), NEW H, Doc(H, e.nextId), Sane(H), Ids(H) = Ids(e.hits),
         NEW f, f = IF H = e.hits THEN e ELSE Committed(e, H)
  PROVE  Stays(e, f)
<1>1. CASE H = e.hits
  BY <1>1, SameStays, Zenon
<1>2. CASE H # e.hits
  <2>1. f = Committed(e, H)
    BY <1>2, Zenon
  <2>2. /\ DOMAIN f = Fields /\ f.hits = H /\ f.changes = e.changes + 1 /\ f.future = <<>> /\ f.clip = e.clip
        /\ f.nextId = e.nextId
        /\ f.past = IF e.gesture.on /\ e.gesture.touched THEN e.past ELSE Pushed(e.past, e.hits)
        /\ f.gesture = [e.gesture EXCEPT !.touched = e.gesture.on]
        /\ f.selection = e.selection /\ f.lastVel = e.lastVel
    <3>1. PICK c : c = Committed(e, H)
      OBVIOUS
    <3>2. /\ DOMAIN c = Fields /\ c.hits = H /\ c.changes = e.changes + 1 /\ c.future = <<>> /\ c.clip = e.clip
          /\ c.nextId = e.nextId
          /\ c.past = IF e.gesture.on /\ e.gesture.touched THEN e.past ELSE Pushed(e.past, e.hits)
          /\ c.gesture = [e.gesture EXCEPT !.touched = e.gesture.on]
          /\ c.selection = e.selection /\ c.lastVel = e.lastVel
      BY <3>1, CommittedIs, CommittedHas
    <3>3. f = c
      BY <2>1, <3>1, Zenon
    <3> QED BY <3>2, <3>3
  <2>3. e.nextId \in Int /\ e.nextId >= e.nextId
    BY DEF EdInv
  <2>4. Commits(e, f)
    BY <1>2, <2>2, <2>3, Zenon DEF Commits
  <2> QED BY <2>2, <2>4, CommitStays, Zenon DEF EdSane
<1> QED BY <1>1, <1>2, Zenon

SaneHit(h) == h.art \in Arts /\ h.t \in InSong /\ h.vel \in 1..MaxVel

LEMMA MappedStays ==
  ASSUME NEW e, EdInv(e), EdSane(e), NEW g, Alters(g, e.hits), \A h \in e.hits : SaneHit(g[h])
  PROVE  Stays(e, IF {g[h] : h \in e.hits} = e.hits THEN e ELSE Committed(e, {g[h] : h \in e.hits}))
<1>1. PICK H, f : H = {g[h] : h \in e.hits} /\ f = IF H = e.hits THEN e ELSE Committed(e, H)
  BY Zenon
<1>2. Doc(H, e.nextId)
  BY <1>1, AlteredDoc, Zenon DEF EdInv
<1>3. \A h \in e.hits : g[h].id = h.id
  BY Zenon DEF Alters
<1>4. Ids(H) = Ids(e.hits)
  BY <1>1, <1>3 DEF Ids
<1>5. Sane(H)
  <2>1. ASSUME NEW a \in H, NEW b \in H, a.id = b.id  PROVE a = b
    <3>1. PICK x \in e.hits, y \in e.hits : a = g[x] /\ b = g[y]
      BY <1>1, Zenon
    <3>2. x.id = y.id
      BY <1>3, <2>1, <3>1, Zenon
    <3> QED BY <3>1, <3>2, Zenon DEF EdSane, Sane, OneEach
  <2>2. \A h \in H : h.art \in Arts /\ h.t \in InSong /\ h.vel \in 1..MaxVel
    BY <1>1, Zenon DEF SaneHit
  <2> QED BY <2>1, <2>2, Zenon DEF Sane, OneEach
<1>6. Stays(e, f)
  BY <1>1, <1>2, <1>4, <1>5, ChangedStays, Zenon
<1> QED BY <1>1, <1>6, Zenon

LEMMA HitsAre ==
  ASSUME NEW e, EdInv(e), EdSane(e)
  PROVE  \A h \in e.hits : SaneHit(h) /\ DOMAIN h = HitFields /\ h.id \in Int /\ h.t \in Int /\ h.vel \in Int
<1>1. \A h \in e.hits : SaneHit(h) /\ DOMAIN h = HitFields /\ h.id \in Int
  BY Zenon DEF EdInv, Doc, EdSane, Sane, SaneHit
<1>2. \A h \in e.hits : h.t \in Int /\ h.vel \in Int
  <2>1. InSong \subseteq Int /\ 1..MaxVel \subseteq Int
    BY Bounded
  <2> QED BY <1>1, <2>1, Zenon DEF SaneHit
<1> QED BY <1>1, <1>2

LEMMA NudgedStays ==
  ASSUME NEW e, EdInv(e), EdSane(e), NEW dt \in Int
  PROVE  Stays(e, Nudged(e, dt))
<1> DEFINE g == [h \in e.hits |-> IF h.id \in ToSet(e.selection) THEN [h EXCEPT !.t = Clamped(@ + dt)] ELSE h]
<1>1. \A h \in e.hits : DOMAIN g[h] = HitFields /\ g[h].id = h.id
  BY DEF EdInv, Doc, HitFields
<1>2. Nudged(e, dt) = IF {g[h] : h \in e.hits} = e.hits THEN e
                      ELSE Committed(e, {g[h] : h \in e.hits})
  <2>1. {g[h] : h \in e.hits} = {IF h.id \in ToSet(e.selection) THEN [h EXCEPT !.t = Clamped(@ + dt)] ELSE h : h \in e.hits}
    BY Zenon
  <2> QED BY <2>1, Zenon DEF Nudged, MappedSelected, Mapped
<1>3. Alters(g, e.hits)
  BY <1>1 DEF Alters
<1>4. ASSUME NEW h \in e.hits  PROVE SaneHit(g[h])
  <2>1. SaneHit(h) /\ DOMAIN h = HitFields /\ h.t \in Int
    BY HitsAre, Zenon
  <2>2. Clamped(h.t + dt) \in InSong
    BY <2>1, Bounded
  <2>3. SaneHit([h EXCEPT !.t = Clamped(h.t + dt)])
    BY <2>1, <2>2 DEF SaneHit, HitFields
  <2> QED BY <2>1, <2>3
<1> HIDE DEF g
<1> QED BY <1>2, <1>3, <1>4, MappedStays

LEMMA WithArtStays ==
  ASSUME NEW e, EdInv(e), EdSane(e), NEW art \in Arts
  PROVE  Stays(e, WithArt(e, art))
<1> DEFINE g == [h \in e.hits |-> IF h.id \in ToSet(e.selection) THEN [h EXCEPT !.art = art] ELSE h]
<1>1. \A h \in e.hits : DOMAIN g[h] = HitFields /\ g[h].id = h.id
  BY DEF EdInv, Doc, HitFields
<1>2. WithArt(e, art) = IF {g[h] : h \in e.hits} = e.hits THEN e ELSE Committed(e, {g[h] : h \in e.hits})
  <2>1. {g[h] : h \in e.hits} = {IF h.id \in ToSet(e.selection) THEN [h EXCEPT !.art = art] ELSE h : h \in e.hits}
    BY Zenon
  <2> QED BY <2>1, Zenon DEF WithArt, MappedSelected, Mapped
<1>3. Alters(g, e.hits)
  BY <1>1, Zenon DEF Alters
<1>4. ASSUME NEW h \in e.hits  PROVE SaneHit(g[h])
  <2>1. SaneHit(h) /\ DOMAIN h = HitFields /\ h.t \in Int /\ h.vel \in Int
    BY HitsAre, Zenon
  <2>3. SaneHit([h EXCEPT !.art = art])
    BY <2>1 DEF SaneHit, HitFields
  <2> QED BY <2>1, <2>3
<1> HIDE DEF g
<1> QED BY <1>2, <1>3, <1>4, MappedStays

LEMMA VelAddStays ==
  ASSUME NEW e, EdInv(e), EdSane(e), NEW delta \in Int
  PROVE  Stays(e, VelAdd(e, delta))
<1> DEFINE g == [h \in e.hits |-> IF h.id \in ToSet(e.selection) THEN [h EXCEPT !.vel = ClampedVel(@ + delta)] ELSE h]
<1>1. \A h \in e.hits : DOMAIN g[h] = HitFields /\ g[h].id = h.id
  BY DEF EdInv, Doc, HitFields
<1>2. VelAdd(e, delta) = IF {g[h] : h \in e.hits} = e.hits THEN e ELSE Committed(e, {g[h] : h \in e.hits})
  <2>1. {g[h] : h \in e.hits} = {IF h.id \in ToSet(e.selection) THEN [h EXCEPT !.vel = ClampedVel(@ + delta)] ELSE h : h \in e.hits}
    BY Zenon
  <2> QED BY <2>1, Zenon DEF VelAdd, MappedSelected, Mapped
<1>3. Alters(g, e.hits)
  BY <1>1, Zenon DEF Alters
<1>4. ASSUME NEW h \in e.hits  PROVE SaneHit(g[h])
  <2>1. SaneHit(h) /\ DOMAIN h = HitFields /\ h.t \in Int /\ h.vel \in Int
    BY HitsAre, Zenon
  <2>2. ClampedVel(h.vel + delta) \in 1..MaxVel
    BY <2>1, Bounded
  <2>3. SaneHit([h EXCEPT !.vel = ClampedVel(h.vel + delta)])
    BY <2>1, <2>2 DEF SaneHit, HitFields
  <2> QED BY <2>1, <2>3
<1> HIDE DEF g
<1> QED BY <1>2, <1>3, <1>4, MappedStays

LEMMA CompressedStays ==
  ASSUME NEW e, EdInv(e), EdSane(e)
  PROVE  Stays(e, Compressed(e))
<1> DEFINE g == [h \in e.hits |-> IF h.id \in ToSet(e.selection) THEN [h EXCEPT !.vel = ClampedVel(Rounded(2 * MidVel + @ - MidVel, 2))] ELSE h]
<1>1. \A h \in e.hits : DOMAIN g[h] = HitFields /\ g[h].id = h.id
  BY DEF EdInv, Doc, HitFields
<1>2. Compressed(e) = IF {g[h] : h \in e.hits} = e.hits THEN e ELSE Committed(e, {g[h] : h \in e.hits})
  <2>1. {g[h] : h \in e.hits} = {IF h.id \in ToSet(e.selection) THEN [h EXCEPT !.vel = ClampedVel(Rounded(2 * MidVel + @ - MidVel, 2))] ELSE h : h \in e.hits}
    BY Zenon
  <2> QED BY <2>1, Zenon DEF Compressed, MappedSelected, Mapped
<1>3. Alters(g, e.hits)
  BY <1>1, Zenon DEF Alters
<1>4. ASSUME NEW h \in e.hits  PROVE SaneHit(g[h])
  <2>1. SaneHit(h) /\ DOMAIN h = HitFields /\ h.t \in Int /\ h.vel \in Int
    BY HitsAre, Zenon
  <2>4. Rounded(2 * MidVel + h.vel - MidVel, 2) \in Int
    <3>1. MidVel \in Int
      <4>1. 1..MaxVel \subseteq Int
        OBVIOUS
      <4> QED BY <4>1, EditAssumption, Zenon
    <3> QED BY <2>1, <3>1 DEF Rounded
  <2>2. ClampedVel(Rounded(2 * MidVel + h.vel - MidVel, 2)) \in 1..MaxVel
    BY <2>4, Bounded
  <2>3. SaneHit([h EXCEPT !.vel = ClampedVel(Rounded(2 * MidVel + h.vel - MidVel, 2))])
    BY <2>1, <2>2 DEF SaneHit, HitFields
  <2> QED BY <2>1, <2>3
<1> HIDE DEF g
<1> QED BY <1>2, <1>3, <1>4, MappedStays

LEMMA VelDrawnStays ==
  ASSUME NEW e, EdInv(e), EdSane(e), NEW ids, NEW v \in Int
  PROVE  Stays(e, VelDrawn(e, ids, v))
<1> DEFINE g == [h \in e.hits |-> IF h.id \in ids THEN [h EXCEPT !.vel = ClampedVel(v)] ELSE h]
<1>1. \A h \in e.hits : DOMAIN g[h] = HitFields /\ g[h].id = h.id
  BY DEF EdInv, Doc, HitFields
<1>2. VelDrawn(e, ids, v) = IF {g[h] : h \in e.hits} = e.hits THEN e ELSE Committed(e, {g[h] : h \in e.hits})
  <2>1. {g[h] : h \in e.hits} = {IF h.id \in ids THEN [h EXCEPT !.vel = ClampedVel(v)] ELSE h : h \in e.hits}
    BY Zenon
  <2> QED BY <2>1, Zenon DEF VelDrawn, Mapped
<1>3. Alters(g, e.hits)
  BY <1>1 DEF Alters
<1>4. ASSUME NEW h \in e.hits  PROVE SaneHit(g[h])
  <2>1. SaneHit(h) /\ DOMAIN h = HitFields /\ h.t \in Int /\ h.vel \in Int
    BY HitsAre, Zenon
  <2>2. ClampedVel(v) \in 1..MaxVel
    BY <2>1, Bounded
  <2>3. SaneHit([h EXCEPT !.vel = ClampedVel(v)])
    BY <2>1, <2>2 DEF SaneHit, HitFields
  <2> QED BY <2>1, <2>3
<1> HIDE DEF g
<1> QED BY <1>2, <1>3, <1>4, MappedStays

LEMMA QuantizedStays ==
  ASSUME NEW e, EdInv(e), EdSane(e), Ready(grid, Divisions), NEW n \in Divisions, NEW strength \in 1..2
  PROVE  Stays(e, Quantized(e, n, strength))
<1> DEFINE g == [h \in e.hits |-> IF h.id \in ToSet(e.selection) THEN [h EXCEPT !.t = Clamped(@ + ((Snap(grid, @, n) - @) * strength) \div 2)] ELSE h]
<1>1. \A h \in e.hits : DOMAIN g[h] = HitFields /\ g[h].id = h.id
  BY DEF EdInv, Doc, HitFields
<1>2. Quantized(e, n, strength) = IF {g[h] : h \in e.hits} = e.hits THEN e ELSE Committed(e, {g[h] : h \in e.hits})
  <2>1. {g[h] : h \in e.hits} = {IF h.id \in ToSet(e.selection) THEN [h EXCEPT !.t = Clamped(@ + ((Snap(grid, @, n) - @) * strength) \div 2)] ELSE h : h \in e.hits}
    BY Zenon
  <2> QED BY <2>1, Zenon DEF Quantized, MappedSelected, Mapped
<1>3. Alters(g, e.hits)
  BY <1>1, Zenon DEF Alters
<1>4. ASSUME NEW h \in e.hits  PROVE SaneHit(g[h])
  <2>1. SaneHit(h) /\ DOMAIN h = HitFields /\ h.t \in Int /\ h.vel \in Int
    BY HitsAre, Zenon
  <2>4. PICK s \in Int : s = Snap(grid, h.t, n)
    <3>1. Snap(grid, h.t, n) \in Int
      BY <2>1, SnapNear
    <3> QED BY <3>1, Zenon
  <2>5. (s - h.t) * strength \in Int
    BY <2>1
  <2>6. h.t + ((s - h.t) * strength) \div 2 \in Int
    BY <2>1, <2>5
  <2>2. Clamped(h.t + ((Snap(grid, h.t, n) - h.t) * strength) \div 2) \in InSong
    BY <2>4, <2>6, Bounded, Zenon
  <2>3. SaneHit([h EXCEPT !.t = Clamped(h.t + ((Snap(grid, h.t, n) - h.t) * strength) \div 2)])
    BY <2>1, <2>2 DEF SaneHit, HitFields
  <2> QED BY <2>1, <2>3
<1> HIDE DEF g
<1> QED BY <1>2, <1>3, <1>4, MappedStays

LEMMA MovedToStays ==
  ASSUME NEW e, EdInv(e), EdSane(e), NEW dt \in Int, NEW base, \A h \in base : h.t \in Int /\ h.art \in Arts,
         NEW art \in SUBSET Arts
  PROVE  Stays(e, MovedTo(e, base, dt, art))
<1> DEFINE g == [h \in e.hits |-> IF h.id \in Ids(base) THEN [h EXCEPT !.t = Clamped(Hit(base, h.id).t + dt),
                                         !.art = IF art = {} THEN Hit(base, h.id).art ELSE CHOOSE a \in art : TRUE] ELSE h]
<1>1. \A h \in e.hits : DOMAIN g[h] = HitFields /\ g[h].id = h.id
  BY Zenon DEF EdInv, Doc, HitFields
<1>2. MovedTo(e, base, dt, art) = IF {g[h] : h \in e.hits} = e.hits THEN e ELSE Committed(e, {g[h] : h \in e.hits})
  <2>1. {g[h] : h \in e.hits} = {IF h.id \in Ids(base) THEN [h EXCEPT !.t = Clamped(Hit(base, h.id).t + dt),
                                         !.art = IF art = {} THEN Hit(base, h.id).art ELSE CHOOSE a \in art : TRUE] ELSE h : h \in e.hits}
    BY Zenon
  <2> QED BY <2>1, Zenon DEF MovedTo, Mapped
<1>3. Alters(g, e.hits)
  BY <1>1, Zenon DEF Alters
<1>4. ASSUME NEW h \in e.hits  PROVE SaneHit(g[h])
  <2>1. SaneHit(h) /\ DOMAIN h = HitFields /\ h.t \in Int /\ h.vel \in Int
    BY HitsAre, Zenon
  <2>4. ASSUME h.id \in Ids(base)
        PROVE  SaneHit([h EXCEPT !.t = Clamped(Hit(base, h.id).t + dt),
                                 !.art = IF art = {} THEN Hit(base, h.id).art ELSE CHOOSE a \in art : TRUE])
    <3>1. PICK b : b = Hit(base, h.id)
      OBVIOUS
    <3>2. b.t \in Int /\ b.art \in Arts
      BY <2>4, <3>1, HitIs, Zenon
    <3>3. PICK c \in Arts : c = IF art = {} THEN b.art ELSE CHOOSE a \in art : TRUE
      <4>1. (IF art = {} THEN b.art ELSE CHOOSE a \in art : TRUE) \in Arts
        BY <3>2, Zenon
      <4> QED BY <4>1, Zenon
    <3>4. Clamped(b.t + dt) \in InSong
      BY <3>2, Bounded
    <3>5. SaneHit([h EXCEPT !.t = Clamped(b.t + dt), !.art = c])
      BY <2>1, <3>4 DEF SaneHit, HitFields
    <3> QED BY <3>1, <3>3, <3>5, Zenon
  <2>3. \/ g[h] = h
        \/ /\ h.id \in Ids(base)
           /\ g[h] = [h EXCEPT !.t = Clamped(Hit(base, h.id).t + dt),
                               !.art = IF art = {} THEN Hit(base, h.id).art ELSE CHOOSE a \in art : TRUE]
    BY Zenon
  <2> HIDE DEF g
  <2>7. SaneHit(g[h])
    BY <2>1, <2>3, <2>4, Zenon
  <2> QED BY <2>7
<1> HIDE DEF g
<1> QED BY <1>2, <1>3, <1>4, MappedStays

LEMMA WithVelStays ==
  ASSUME NEW e, EdInv(e), EdSane(e), NEW v \in Int
  PROVE  Stays(e, WithVel(e, v))
<1> DEFINE g == [h \in e.hits |-> IF h.id \in ToSet(e.selection) THEN [h EXCEPT !.vel = ClampedVel(v)] ELSE h]
<1>1. \A h \in e.hits : DOMAIN g[h] = HitFields /\ g[h].id = h.id
  BY DEF EdInv, Doc, HitFields
<1>2. MappedSelected(e, LAMBDA h : [h EXCEPT !.vel = ClampedVel(v)])
        = IF {g[h] : h \in e.hits} = e.hits THEN e ELSE Committed(e, {g[h] : h \in e.hits})
  <2>1. {g[h] : h \in e.hits} = {IF h.id \in ToSet(e.selection) THEN [h EXCEPT !.vel = ClampedVel(v)] ELSE h : h \in e.hits}
    BY Zenon
  <2> QED BY <2>1, Zenon DEF MappedSelected, Mapped
<1>3. Alters(g, e.hits)
  BY <1>1 DEF Alters
<1>4. ASSUME NEW h \in e.hits  PROVE SaneHit(g[h])
  <2>1. SaneHit(h) /\ DOMAIN h = HitFields
    BY HitsAre, Zenon
  <2>2. ClampedVel(v) \in 1..MaxVel
    BY Bounded
  <2>3. SaneHit([h EXCEPT !.vel = ClampedVel(v)])
    BY <2>1, <2>2 DEF SaneHit, HitFields
  <2> QED BY <2>1, <2>3
<1> HIDE DEF g
<1>5. PICK f, w : f = MappedSelected(e, LAMBDA h : [h EXCEPT !.vel = ClampedVel(v)]) /\ w = ClampedVel(v)
  BY Zenon
<1>6. Does(e, f) /\ Stays(e, f)
  BY <1>2, <1>3, <1>4, <1>5, MappedDoes, MappedStays
<1>7. DOMAIN f = Fields
  BY <1>6 DEF Does, Keeps, Commits
<1>8. PICK k : k = [f EXCEPT !.lastVel = w]
  BY Zenon
<1>9. /\ k.hits = f.hits /\ k.past = f.past /\ k.future = f.future /\ k.gesture = f.gesture
      /\ k.selection = f.selection /\ k.clip = f.clip /\ k.lastVel = w
  BY <1>7, <1>8 DEF Fields
<1>10. w \in 1..MaxVel
  BY <1>5, Bounded
<1>11. Stays(f, k)
  BY <1>6, <1>9, <1>10, KeepStays, Zenon DEF Stays, EdSane
<1>12. Stays(e, k)
  BY <1>6, <1>11, Zenon DEF Stays
<1> QED BY <1>5, <1>8, <1>12 DEF WithVel

LEMMA IdsBelow == ASSUME NEW G, NEW H, G \subseteq H  PROVE Ids(G) \subseteq Ids(H)
BY DEF Ids

\* The part of a selection that is there in other hits.
LEMMA KeptOnce ==
  ASSUME NEW S, NEW s, Once(s, S), NEW T
  PROVE  Once(Kept(s, T), T \cap ToSet(s)) /\ Once(Kept(s, T), T) /\ ToSet(Kept(s, T)) \subseteq T \cap ToSet(s)
<1>1. s \in Seq(S)
  BY Zenon DEF Once
<1>2. Once(Kept(s, T), T \cap ToSet(s))
  BY <1>1, KeptIs, Zenon
<1>3. T \cap ToSet(s) \subseteq T
  OBVIOUS
<1> QED BY <1>2, <1>3, OnceIn, OnceHas, Zenon

LEMMA WithoutOnce ==
  ASSUME NEW S, NEW s, Once(s, S), NEW drop
  PROVE  /\ Once(Without(s, drop), S) /\ ToSet(Without(s, drop)) \cap drop = {}
         /\ ToSet(Without(s, drop)) \subseteq ToSet(s)
<1>1. PICK T : T = ToSet(s) \ drop
  BY Zenon
<1>2. Without(s, drop) = Kept(s, T)
  BY <1>1, Zenon DEF Without
<1>3. Once(Kept(s, T), T) /\ ToSet(Kept(s, T)) \subseteq T
  BY KeptOnce, Zenon
<1>4. T \subseteq S
  BY <1>1, OnceHas, Zenon
<1> QED BY <1>1, <1>2, <1>3, <1>4, OnceIn, Zenon

LEMMA RemovedStays ==
  ASSUME NEW e, EdInv(e), EdSane(e), NEW ids
  PROVE  Stays(e, Removed(e, ids))
<1> DEFINE H == {h \in e.hits : h.id \notin ids}
<1>1. CASE Ids(e.hits) \cap ids = {}
  BY <1>1, SameStays DEF Removed
<1>2. CASE Ids(e.hits) \cap ids # {}
  <2>1. H # e.hits
    BY <1>2 DEF Ids
  <2>2. Doc(H, e.nextId)
    BY FS_Subset DEF EdInv, Doc
  <2>3. PICK s : s = Without(e.selection, ids)
    OBVIOUS
  <2>4. Committed(e, H).selection = e.selection
    BY CommittedHas
  <2>5. Removed(e, ids) = [Committed(e, H) EXCEPT !.selection = s]
    BY <1>2, <2>3, <2>4 DEF Removed
  <2>6. Sane(H)
    BY Zenon DEF EdSane, Sane, OneEach
  <2>7. Once(s, Ids(H))
    <3>1. Once(s, Ids(e.hits)) /\ ToSet(s) \cap ids = {}
      BY <2>3, WithoutOnce, Zenon DEF EdSane
    <3>2. \A id \in Ids(e.hits) : id \notin ids => id \in Ids(H)
      BY DEF Ids
    <3>3. ToSet(s) \subseteq Ids(H)
      BY <3>1, <3>2, OnceHas, Zenon
    <3>4. s \in Seq(ToSet(s))
      <4>1. s \in Seq(Ids(e.hits))
        BY <3>1, Zenon DEF Once
      <4> QED BY <4>1, PlainOf, Zenon DEF Plain
    <3>5. Once(s, ToSet(s))
      BY <3>1, <3>4, Zenon DEF Once
    <3> QED BY <3>3, <3>5, OnceIn, Zenon
  <2> HIDE DEF H
  <2>8. PICK c, f : c = Committed(e, H) /\ f = [c EXCEPT !.selection = s]
    BY Zenon
  <2>9. /\ DOMAIN c = Fields /\ c.hits = H /\ c.changes = e.changes + 1 /\ c.future = <<>> /\ c.clip = e.clip
        /\ c.nextId = e.nextId
        /\ c.past = IF e.gesture.on /\ e.gesture.touched THEN e.past ELSE Pushed(e.past, e.hits)
        /\ c.gesture = [e.gesture EXCEPT !.touched = e.gesture.on]
        /\ c.lastVel = e.lastVel
    BY <2>8, CommittedIs, CommittedHas
  <2>10. /\ DOMAIN f = Fields /\ f.hits = H /\ f.changes = e.changes + 1 /\ f.future = <<>> /\ f.clip = e.clip
         /\ f.nextId = e.nextId
         /\ f.past = IF e.gesture.on /\ e.gesture.touched THEN e.past ELSE Pushed(e.past, e.hits)
         /\ f.gesture = [e.gesture EXCEPT !.touched = e.gesture.on]
         /\ f.lastVel = e.lastVel /\ f.selection = s
    BY <2>8, <2>9 DEF Fields
  <2>11. e.nextId \in Int /\ e.nextId >= e.nextId
    BY DEF EdInv
  <2>12. Commits(e, f)
    BY <2>1, <2>2, <2>10, <2>11, Zenon DEF Commits
  <2>13. f.lastVel \in 1..MaxVel
    BY <2>10, Zenon DEF EdSane
  <2>14. Stays(e, f)
    BY <2>6, <2>7, <2>10, <2>12, <2>13, CommitStays, Zenon
  <2> QED BY <2>5, <2>8, <2>14, Zenon
<1> QED BY <1>1, <1>2, Zenon

LEMMA SelectionStays ==
  ASSUME NEW e, EdInv(e), EdSane(e), NEW s, Once(s, Ids(e.hits))
  PROVE  Stays(e, [e EXCEPT !.selection = s])
<1>1. PICK f : f = [e EXCEPT !.selection = s]
  BY Zenon
<1>2. DOMAIN e = Fields
  BY Zenon DEF EdInv
<1>3. /\ f.hits = e.hits /\ f.past = e.past /\ f.future = e.future /\ f.gesture = e.gesture
      /\ f.selection = s /\ f.clip = e.clip /\ f.lastVel = e.lastVel
  BY <1>1, <1>2 DEF Fields
<1>4. Stays(e, f)
  BY <1>3, KeepStays, Zenon DEF EdSane
<1> QED BY <1>1, <1>4, Zenon

LEMMA SelectIdsStays ==
  ASSUME NEW e, EdInv(e), EdSane(e), NEW S, NEW ids, Once(ids, S), NEW mode \in {"replace", "add", "toggle"}
  PROVE  Stays(e, SelectIds(e, ids, mode))
<1>1. PICK given, old, new : /\ given = Kept(ids, Ids(e.hits)) /\ old = Without(e.selection, ToSet(given))
                             /\ new = Without(given, ToSet(e.selection))
  OBVIOUS
<1>2. Once(given, Ids(e.hits)) /\ Once(e.selection, Ids(e.hits))
  BY <1>1, KeptOnce, Zenon DEF EdSane
<1>3. /\ Once(old, Ids(e.hits)) /\ ToSet(old) \cap ToSet(given) = {} /\ ToSet(old) \subseteq ToSet(e.selection)
      /\ Once(new, Ids(e.hits)) /\ ToSet(new) \cap ToSet(e.selection) = {}
  BY <1>1, <1>2, WithoutOnce, Zenon
<1>4. Once(old \o given, Ids(e.hits)) /\ Once(old \o new, Ids(e.hits))
  <2>1. ToSet(old) \cap ToSet(new) = {}
    BY <1>3, Zenon
  <2> QED BY <1>2, <1>3, <2>1, OnceAfter, Zenon
<1>5. PICK s : /\ s \in {given, old \o given, old \o new} /\ SelectIds(e, ids, mode) = [e EXCEPT !.selection = s]
  BY <1>1, Zenon DEF SelectIds
<1>6. Once(s, Ids(e.hits))
  BY <1>2, <1>4, <1>5, Zenon
<1> QED BY <1>5, <1>6, SelectionStays, ZenonT(60)

\* Some hits of the document, in the order of time.
LEMMA OrderOnce ==
  ASSUME NEW e, EdInv(e), EdSane(e), NEW H, H \subseteq e.hits
  PROVE  /\ Once(InOrder(H), Ids(e.hits)) /\ Once(InOrder(H), Ids(H)) /\ (H # {} => InOrder(H) # <<>>)
         /\ IsFiniteSet(H)
<1>1. IsFiniteSet(H)
  BY FS_Subset, Zenon DEF EdInv, Doc
<1>2. OneEach(H) /\ \A h \in H : h.id \in Int /\ h.t \in Int
  BY HitsAre, Zenon DEF EdSane, Sane, OneEach
<1>3. Once(InOrder(H), Ids(H)) /\ (H # {} => InOrder(H) # <<>>)
  BY <1>1, <1>2, InOrderIs, Zenon
<1> QED BY <1>1, <1>3, IdsBelow, OnceIn, Zenon

LEMMA SelectRangeStays ==
  ASSUME NEW e, EdInv(e), EdSane(e), NEW from, NEW to, NEW arts
  PROVE  /\ Stays(e, SelectRange(e, from, to, arts))
         /\ Once(SelectRange(e, from, to, arts).selection, Ids(e.hits))
<1>1. PICK H : H = {h \in e.hits : h.art \in arts /\ Smaller(from, to) <= h.t /\ h.t <= Larger(from, to)}
  BY Zenon
<1>2. PICK s : s = InOrder(H)
  OBVIOUS
<1>3. SelectRange(e, from, to, arts) = [e EXCEPT !.selection = s]
  BY <1>1, <1>2, Zenon DEF SelectRange
<1>4. Once(s, Ids(e.hits))
  <2>1. H \subseteq e.hits
    BY <1>1
  <2> QED BY <1>2, <2>1, OrderOnce, Zenon
<1>5. [e EXCEPT !.selection = s].selection = s
  BY DEF EdInv, Fields
<1> QED BY <1>3, <1>4, <1>5, SelectionStays, Zenon

\* What the marquee hands to the selection.
LEMMA MarqueeStays ==
  ASSUME NEW e, EdInv(e), EdSane(e), NEW from, NEW to, NEW arts, NEW shift \in BOOLEAN,
         NEW inside, inside = SelectRange(e, from, to, arts).selection,
         NEW keep, keep = IF shift THEN e.selection ELSE <<>>
  PROVE  Stays(e, SelectIds(e, Without(keep, ToSet(inside)) \o inside, "replace"))
<1>1. Once(inside, Ids(e.hits))
  BY SelectRangeStays, Zenon
<1>2. Once(keep, Ids(e.hits))
  <2>1. Once(<<>>, Ids(e.hits)) /\ Once(e.selection, Ids(e.hits))
    <3>1. {} \subseteq Ids(e.hits)
      OBVIOUS
    <3> QED BY <3>1, SaneNone, OnceIn, Zenon DEF EdSane
  <2>2. keep = e.selection \/ keep = <<>>
    OBVIOUS
  <2> QED BY <2>1, <2>2, Zenon
<1>3. Once(Without(keep, ToSet(inside)) \o inside, Ids(e.hits))
  <2>1. Once(Without(keep, ToSet(inside)), Ids(e.hits)) /\ ToSet(Without(keep, ToSet(inside))) \cap ToSet(inside) = {}
    BY <1>2, WithoutOnce, Zenon
  <2> QED BY <1>1, <2>1, OnceAfter, Zenon
<1> QED BY <1>3, SelectIdsStays

LEMMA PrimaryIs ==
  ASSUME NEW e, EdInv(e), EdSane(e), e.selection # <<>>
  PROVE  Hit(e.hits, Last(e.selection)) \in e.hits /\ Hit(e.hits, Last(e.selection)).t \in Int
<1>1. Once(e.selection, Ids(e.hits))
  BY Zenon DEF EdSane
<1>2. e.selection[Len(e.selection)] \in Ids(e.hits)
  BY <1>1, OnceHas, Zenon
<1>3. Last(e.selection) \in Ids(e.hits)
  BY <1>2, Zenon DEF Last
<1> QED BY <1>3, HitIs, HitsAre, Zenon

LEMMA WithTimeStays ==
  ASSUME NEW e, EdInv(e), EdSane(e), NEW t \in Int
  PROVE  Stays(e, WithTime(e, t))
<1>1. CASE e.selection = <<>>
  BY <1>1, SameStays, Zenon DEF WithTime
<1>2. CASE e.selection # <<>>
  <2>1. PICK p : p = Hit(e.hits, Last(e.selection))
    OBVIOUS
  <2>2. p.t \in Int
    BY <1>2, <2>1, PrimaryIs, Zenon
  <2>3. PICK dt : dt = Clamped(t) - p.t
    OBVIOUS
  <2>4. dt \in Int
    <3>1. Clamped(t) \in Int
      BY ViewSizes DEF Clamped, Larger, Smaller
    <3> QED BY <2>2, <2>3, <3>1
  <2>5. WithTime(e, t) = Nudged(e, dt)
    BY <1>2, <2>1, <2>3, Zenon DEF WithTime
  <2> QED BY <2>4, <2>5, NudgedStays, Zenon
<1> QED BY <1>1, <1>2, Zenon

\* A gesture begins and ends.
LEMMA BegunStays ==
  ASSUME NEW e, EdInv(e), EdSane(e)
  PROVE  EdSane(Begun(e)) /\ Begun(e).gesture.on /\ Begun(e).hits = e.hits
<1>1. CASE e.gesture.on
  BY <1>1, Zenon DEF Begun
<1>2. CASE ~e.gesture.on
  <2>1. PICK g : g = [on |-> TRUE, touched |-> FALSE, hits |-> e.hits, changes |-> e.changes,
                      past |-> e.past, future |-> e.future]
    BY Zenon
  <2>2. PICK f : f = [e EXCEPT !.gesture = g]
    BY Zenon
  <2>3. Begun(e) = f
    BY <1>2, <2>1, <2>2 DEF Begun
  <2>4. DOMAIN e = Fields
    BY Zenon DEF EdInv
  <2>5. /\ f.hits = e.hits /\ f.past = e.past /\ f.future = e.future /\ f.gesture = g
        /\ f.selection = e.selection /\ f.clip = e.clip /\ f.lastVel = e.lastVel
    BY <2>2, <2>4 DEF Fields
  <2>6. g.on /\ g.hits = e.hits /\ g.past = e.past /\ g.future = e.future
    BY <2>1
  <2>7. EdSane(f)
    BY <2>5, <2>6, Zenon DEF EdSane
  <2>8. f.gesture.on
    BY <2>5, <2>6
  <2> QED BY <2>3, <2>5, <2>7, <2>8, Zenon
<1> QED BY <1>1, <1>2, Zenon

LEMMA EndedStays ==
  ASSUME NEW e, EdInv(e), EdSane(e)
  PROVE  EdSane(Ended(e)) /\ ~Ended(e).gesture.on
<1>1. CASE ~e.gesture.on
  BY <1>1, Zenon DEF Ended
<1>2. CASE e.gesture.on
  <2>1. PICK g, f : g = e.gesture /\ f = Ended(e)
    OBVIOUS
  <2>2. DOMAIN e = Fields
    BY Zenon DEF EdInv
  <2>3. /\ f.hits = e.hits /\ f.gesture = NoGesture
        /\ f.selection = e.selection /\ f.clip = e.clip /\ f.lastVel = e.lastVel
        /\ (f.past = g.past /\ f.future = g.future) \/ (f.past = e.past /\ f.future = e.future)
    <3>1. CASE g.touched /\ g.hits = e.hits
      <4>1. f = [e EXCEPT !.gesture = NoGesture, !.past = g.past, !.future = g.future, !.changes = g.changes]
        BY <1>2, <2>1, <3>1 DEF Ended
      <4> QED BY <2>2, <4>1 DEF Fields
    <3>2. CASE ~(g.touched /\ g.hits = e.hits)
      <4>1. f = [e EXCEPT !.gesture = NoGesture]
        BY <1>2, <2>1, <3>2 DEF Ended
      <4> QED BY <2>2, <4>1 DEF Fields
    <3> QED BY <3>1, <3>2
  <2>4. ~f.gesture.on
    BY <2>3 DEF NoGesture
  <2>5. SaneAll(g.past) /\ SaneAll(g.future)
    BY <1>2, <2>1, Zenon DEF EdSane
  <2>6. SaneAll(f.past) /\ SaneAll(f.future)
    BY <2>3, <2>5, Zenon DEF EdSane
  <2>7. EdSane(f)
    BY <2>3, <2>4, <2>6, Zenon DEF EdSane
  <2> QED BY <2>1, <2>4, <2>7, Zenon
<1> QED BY <1>1, <1>2, Zenon

\* What is shown of another document of the history.
LEMMA ShownStays ==
  ASSUME NEW e, EdInv(e), EdSane(e), ~e.gesture.on, NEW H, Sane(H), NEW p, SaneAll(p), NEW q, SaneAll(q)
  PROVE  Stays(e, [Shown(e, H) EXCEPT !.past = p, !.future = q])
<1>1. PICK s : s = Kept(e.selection, Ids(H))
  OBVIOUS
<1>2. Once(s, Ids(H))
  BY <1>1, KeptOnce, Zenon DEF EdSane
<1>3. PICK c, f : c = Shown(e, H) /\ f = [c EXCEPT !.past = p, !.future = q]
  BY Zenon
<1>4. c = [e EXCEPT !.hits = H, !.selection = s, !.changes = e.changes + 1] /\ DOMAIN e = Fields
  BY <1>1, <1>3 DEF Shown, EdInv
<1>5. /\ DOMAIN c = Fields /\ c.hits = H /\ c.selection = s /\ c.gesture = e.gesture /\ c.clip = e.clip
      /\ c.lastVel = e.lastVel
  BY <1>4 DEF Fields
<1>6. /\ f.hits = H /\ f.selection = s /\ f.gesture = e.gesture /\ f.clip = e.clip
      /\ f.lastVel = e.lastVel /\ f.past = p /\ f.future = q
  BY <1>3, <1>5 DEF Fields
<1>7. f.gesture.on = e.gesture.on /\ ~f.gesture.on
  BY <1>6
<1>8. EdSane(f)
  BY <1>2, <1>6, <1>7, Zenon DEF EdSane
<1> QED BY <1>3, <1>7, <1>8 DEF Stays

LEMMA UndoneStays ==
  ASSUME NEW e, EdInv(e), EdSane(e)
  PROVE  Stays(e, Undone(e))
<1>1. CASE e.gesture.on \/ e.past = <<>>
  BY <1>1, SameStays DEF Undone
<1>2. CASE ~e.gesture.on /\ e.past # <<>>
  <2>1. PICK p, q, x : p = e.past /\ q = e.future /\ x = e.hits
    OBVIOUS
  <2>2. Plain(p) /\ Plain(q) /\ p # <<>> /\ SaneAll(p) /\ SaneAll(q) /\ Sane(x)
    BY <1>2, <2>1, Zenon DEF EdInv, Trail, EdSane
  <2>3. /\ \A i \in DOMAIN Front(p) : i \in DOMAIN p /\ Front(p)[i] = p[i]
        /\ \A i \in DOMAIN (<<x>> \o q) : (<<x>> \o q)[i] \in ToSet(q) \cup {x}
        /\ Last(p) = p[Len(p)] /\ Len(p) \in DOMAIN p
    BY <2>2, RowBack, Zenon
  <2>4. PICK a, b : a = Front(p) /\ b = <<x>> \o q
    BY Zenon
  <2>5. SaneAll(a)
    BY <2>2, <2>3, <2>4, Zenon DEF SaneAll, ToSet
  <2>6. SaneAll(b)
    <3>1. \A y \in ToSet(b) : y \in ToSet(q) \cup {x}
      BY <2>3, <2>4, Zenon DEF ToSet
    <3> QED BY <2>2, <3>1, Zenon DEF SaneAll
  <2>7. Sane(Last(p))
    BY <2>2, <2>3, Zenon DEF SaneAll, ToSet
  <2>8. Undone(e) = [Shown(e, Last(p)) EXCEPT !.past = a, !.future = b]
    <3>1. Shown(e, Last(p)).past = p /\ Shown(e, Last(p)).future = q
      BY <2>1 DEF Shown, EdInv, Fields
    <3> QED BY <1>2, <2>1, <2>4, <3>1 DEF Undone
  <2>9. Stays(e, [Shown(e, Last(p)) EXCEPT !.past = a, !.future = b])
    BY <1>2, <2>5, <2>6, <2>7, ShownStays, Zenon
  <2> QED BY <2>8, <2>9, Zenon
<1> QED BY <1>1, <1>2, Zenon

LEMMA RedoneStays ==
  ASSUME NEW e, EdInv(e), EdSane(e)
  PROVE  Stays(e, Redone(e))
<1>1. CASE e.gesture.on \/ e.future = <<>>
  BY <1>1, SameStays DEF Redone
<1>2. CASE ~e.gesture.on /\ e.future # <<>>
  <2>1. PICK p, q, x : p = e.past /\ q = e.future /\ x = e.hits
    OBVIOUS
  <2>2. Plain(p) /\ Plain(q) /\ q # <<>> /\ SaneAll(p) /\ SaneAll(q) /\ Sane(x)
    BY <1>2, <2>1, Zenon DEF EdInv, Trail, EdSane
  <2>3. (\A i \in DOMAIN Tail(q) : Tail(q)[i] \in ToSet(q)) /\ Head(q) \in ToSet(q)
    BY <2>2, RowOn
  <2>4. PICK a, b : a = Pushed(p, x) /\ b = Tail(q)
    BY Zenon
  <2>5. SaneAll(a)
    BY <2>2, <2>4, SanePushed, Zenon
  <2>6. SaneAll(b)
    BY <2>2, <2>3, <2>4, Zenon DEF SaneAll, ToSet
  <2>7. Sane(Head(q))
    BY <2>2, <2>3, Zenon DEF SaneAll
  <2>8. Redone(e) = [Shown(e, Head(q)) EXCEPT !.past = a, !.future = b]
    <3>1. Shown(e, Head(q)).past = p /\ Shown(e, Head(q)).future = q
      BY <2>1 DEF Shown, EdInv, Fields
    <3> QED BY <1>2, <2>1, <2>4, <3>1, Zenon DEF Redone
  <2>9. Stays(e, [Shown(e, Head(q)) EXCEPT !.past = a, !.future = b])
    BY <1>2, <2>5, <2>6, <2>7, ShownStays, Zenon
  <2> QED BY <2>8, <2>9, Zenon
<1> QED BY <1>1, <1>2, Zenon

\* A document of the server is sane.
LEMMA DocumentSane == ASSUME NEW H \in Documents  PROVE Sane(H)
<1>1. /\ H \subseteq [id : Int, art : Arts, t : InSong, vel : 1..MaxVel]
      /\ \A g, h \in H : g.id = h.id => g = h
  BY EditAssumption, Zenon
<1>2. \A h \in [id : Int, art : Arts, t : InSong, vel : 1..MaxVel] : h.art \in Arts /\ h.t \in InSong /\ h.vel \in 1..MaxVel
  OBVIOUS
<1> QED BY <1>1, <1>2, Zenon DEF Sane, OneEach

LEMMA LoadedStays ==
  ASSUME NEW e, EdInv(e), EdSane(e), NEW H \in Documents
  PROVE  EdSane(Loaded(e, H)) /\ ~Loaded(e, H).gesture.on
<1>1. PICK f : f = Loaded(e, H)
  OBVIOUS
<1>2. /\ f.hits = H /\ f.past = <<>> /\ f.future = <<>> /\ f.clip = e.clip
      /\ f.selection = <<>> /\ f.gesture = NoGesture /\ f.lastVel = e.lastVel
  BY <1>1 DEF Loaded, EdInv, Fields
<1>3. ~f.gesture.on
  BY <1>2 DEF NoGesture
<1>4. Once(<<>>, Ids(H)) /\ SaneAll(<<>>)
  <2>1. {} \subseteq Ids(H)
    OBVIOUS
  <2> QED BY <2>1, SaneNone, OnceIn, Zenon
<1>5. EdSane(f)
  BY <1>2, <1>3, <1>4, DocumentSane, Zenon DEF EdSane
<1> QED BY <1>1, <1>3, <1>5, Zenon

\* Hits that are put in.
LEMMA MoreStays ==
  ASSUME NEW e, EdInv(e), EdSane(e), NEW new, NEW n, Fresh(new, e.nextId, n),
         \A h \in new : SaneHit(h), OneEach(new), NEW s, Once(s, Ids(new))
  PROVE  Stays(e, [Committed(e, e.hits \cup new) EXCEPT !.selection = s, !.nextId = e.nextId + n])
<1>1. PICK H, c, f : /\ H = e.hits \cup new /\ c = Committed(e, H)
                     /\ f = [c EXCEPT !.selection = s, !.nextId = e.nextId + n]
  BY Zenon
<1>2. e.nextId \in Int /\ Doc(e.hits, e.nextId)
  BY Zenon DEF EdInv
<1>3. \A g \in e.hits, h \in new : g.id # h.id
  <2>1. \A g \in e.hits : g.id \in Int /\ g.id < e.nextId
    BY <1>2, Zenon DEF Doc
  <2>2. \A h \in new : h.id \in Int /\ e.nextId <= h.id
    BY Zenon DEF Fresh
  <2> QED BY <1>2, <2>1, <2>2
<1>4. H # e.hits
  <2>1. PICK h \in new : TRUE
    BY Zenon DEF Fresh
  <2>2. h \notin e.hits
    BY <1>3, Zenon
  <2> QED BY <1>1, <2>2
<1>5. Sane(H)
  <2>1. OneEach(H)
    BY <1>1, <1>3 DEF EdSane, Sane, OneEach
  <2>2. \A h \in H : h.art \in Arts /\ h.t \in InSong /\ h.vel \in 1..MaxVel
    BY <1>1, Zenon DEF EdSane, Sane, SaneHit
  <2> QED BY <2>1, <2>2, Zenon DEF Sane
<1>6. /\ DOMAIN c = Fields /\ c.hits = H /\ c.lastVel = e.lastVel
  <2>1. DOMAIN Committed(e, H) = Fields /\ Committed(e, H).hits = H
    BY CommittedIs, ZenonT(60)
  <2>2. Committed(e, H).lastVel = e.lastVel
    BY CommittedHas, Zenon
  <2> QED BY <1>1, <2>1, <2>2
<1>7. f.hits = H /\ f.selection = s /\ f.lastVel = e.lastVel
  BY <1>1, <1>6 DEF Fields
<1>8. Does(e, f)
  BY <1>1, MoreDoes, Zenon
<1>9. Commits(e, f)
  BY <1>4, <1>7, <1>8, Zenon DEF Does, Keeps
<1>10. Once(f.selection, Ids(f.hits))
  <2>1. new \subseteq H
    BY <1>1
  <2>2. Ids(new) \subseteq Ids(H)
    BY <2>1, IdsBelow, Zenon
  <2> QED BY <1>7, <2>2, OnceIn, Zenon
<1>11. Sane(f.hits) /\ f.lastVel \in 1..MaxVel
  BY <1>5, <1>7, Zenon DEF EdSane
<1>12. Stays(e, f)
  BY <1>9, <1>10, <1>11, CommitStays, Zenon
<1> QED BY <1>1, <1>12

LEMMA AddedStays ==
  ASSUME NEW e, EdInv(e), EdSane(e), NEW art \in Arts, NEW t \in Int
  PROVE  Stays(e, Added(e, art, t))
<1>1. PICK hit : hit = [id |-> e.nextId, art |-> art, t |-> Clamped(t), vel |-> e.lastVel]
  BY Zenon
<1>2. DOMAIN hit = HitFields /\ hit.id = e.nextId /\ e.nextId \in Int
  BY <1>1 DEF HitFields, EdInv
<1>3. PICK c : c = Committed(e, e.hits \cup {hit})
  OBVIOUS
<1>4. c.nextId = e.nextId
  BY <1>3, CommittedIs, Zenon
<1>5. Added(e, art, t) = [c EXCEPT !.selection = <<e.nextId>>, !.nextId = e.nextId + 1]
  BY <1>1, <1>3, <1>4, Zenon DEF Added
<1>6. IsFiniteSet({hit}) /\ {hit} # {}
  BY FS_Singleton, Zenon
<1>7. Fresh({hit}, e.nextId, 1)
  BY <1>2, <1>6 DEF Fresh
<1>8. SaneHit(hit)
  <2>1. Clamped(t) \in InSong /\ e.lastVel \in 1..MaxVel
    BY Bounded, Zenon DEF EdSane
  <2> QED BY <1>1, <2>1 DEF SaneHit
<1>9. OneEach({hit}) /\ Ids({hit}) = {e.nextId}
  BY <1>2 DEF OneEach, Ids
<1>10. Once(<<e.nextId>>, {e.nextId})
  BY DEF Once
<1>11. \A h \in {hit} : SaneHit(h)
  BY <1>8
<1>12. Stays(e, [Committed(e, e.hits \cup {hit}) EXCEPT !.selection = <<e.nextId>>, !.nextId = e.nextId + 1])
  BY <1>7, <1>9, <1>10, <1>11, MoreStays, Zenon
<1> QED BY <1>3, <1>5, <1>12

LEMMA InsertedStays ==
  ASSUME NEW e, EdInv(e), EdSane(e), NEW items, Plain(items), Items(items), NEW t \in Int
  PROVE  Stays(e, Inserted(e, items, t))
<1> DEFINE g == [i \in DOMAIN items |-> [id |-> e.nextId + i - 1, art |-> items[i].art,
                                         t |-> Clamped(t + items[i].dt), vel |-> items[i].vel]]
           new == {g[i] : i \in DOMAIN items}
<1>1. CASE items = <<>>
  BY <1>1, SameStays DEF Inserted
<1>2. CASE items # <<>>
  <2>1. Len(items) \in Nat \ {0} /\ DOMAIN items = 1..Len(items) /\ e.nextId \in Int
    BY <1>2, LenProperties, EmptySeq DEF Plain, EdInv
  <2>2. PICK n \in Nat \ {0} : n = Len(items)
    BY <2>1, Zenon
  <2>3. \A i \in DOMAIN items : DOMAIN g[i] = HitFields /\ g[i].id = e.nextId + i - 1
    BY DEF HitFields
  <2>4. PICK s : s = [i \in 1..n |-> e.nextId + i - 1]
    BY Zenon
  <2>5. new = {[id |-> e.nextId + i - 1, art |-> items[i].art, t |-> Clamped(t + items[i].dt),
                vel |-> items[i].vel] : i \in DOMAIN items}
    OBVIOUS
  <2>6. PICK c : c = Committed(e, e.hits \cup new)
    BY Zenon
  <2>7. c.nextId = e.nextId
    BY <2>6, CommittedIs, Zenon
  <2>8. Inserted(e, items, t) = [c EXCEPT !.selection = s, !.nextId = e.nextId + n]
    BY <1>2, <2>1, <2>2, <2>4, <2>5, <2>6, <2>7, Zenon DEF Inserted
  <2>9. g = [i \in DOMAIN items |-> g[i]]
    OBVIOUS
  <2>10. \A i \in DOMAIN items : SaneHit(g[i])
    <3>1. ASSUME NEW i \in DOMAIN items  PROVE SaneHit(g[i])
      <4>1. items[i].art \in Arts /\ items[i].vel \in 1..MaxVel /\ items[i].dt \in Int
        BY Zenon DEF Items
      <4>2. Clamped(t + items[i].dt) \in InSong
        BY <4>1, Bounded
      <4> QED BY <4>1, <4>2 DEF SaneHit
    <3> QED BY <3>1
  <2> HIDE DEF g
  <2>11. IsFiniteSet(new)
    <3>1. IsFiniteSet(DOMAIN items)
      BY <2>1, FS_Interval
    <3> QED BY <2>9, <3>1, ImageFinite
  <2>12. new # {} /\ \A h \in new : DOMAIN h = HitFields /\ h.id \in Int /\ e.nextId <= h.id /\ h.id < e.nextId + n
    <3>1. \A i \in 1..n : DOMAIN g[i] = HitFields /\ g[i].id = e.nextId + i - 1
      BY <2>1, <2>2, <2>3, Zenon
    <3>2. \A i \in 1..n : g[i].id \in Int /\ e.nextId <= g[i].id /\ g[i].id < e.nextId + n
      BY <2>1, <2>2, <3>1
    <3>3. 1 \in 1..n /\ DOMAIN items = 1..n
      BY <2>1, <2>2
    <3>4. new = {g[i] : i \in 1..n}
      BY <3>3
    <3>5. new # {}
      BY <3>3, <3>4, Zenon
    <3>6. \A h \in new : \E i \in 1..n : h = g[i]
      BY <3>4, Zenon
    <3> HIDE DEF new
    <3>7. \A h \in new : DOMAIN h = HitFields /\ h.id \in Int /\ e.nextId <= h.id /\ h.id < e.nextId + n
      BY <3>1, <3>2, <3>6, ZenonT(60)
    <3> QED BY <3>5, <3>7, Zenon
  <2>13. \A h \in new : SaneHit(h)
    BY <2>10
  <2>14. OneEach(new)
    <3>1. ASSUME NEW i \in 1..n, NEW j \in 1..n, g[i].id = g[j].id  PROVE i = j
      BY <2>1, <2>2, <2>3, <3>1
    <3> QED BY <2>1, <2>2, <3>1, Zenon DEF OneEach
  <2>15. Once(s, Ids(new))
    <3>1. \A i \in 1..n : s[i] = e.nextId + i - 1
      BY <2>4
    <3>2. \A i \in 1..n : s[i] \in Ids(new)
      <4>1. ASSUME NEW i \in 1..n  PROVE s[i] \in Ids(new)
        <5>1. s[i] = g[i].id /\ g[i] \in new
          BY <2>1, <2>2, <2>3, <3>1
        <5> QED BY <5>1 DEF Ids
      <4> QED BY <4>1
    <3>3. s \in [1..n -> Ids(new)]
      BY <2>4, <3>2
    <3>4. s \in Seq(Ids(new)) /\ DOMAIN s = 1..n
      BY <3>3
    <3>5. \A i, j \in 1..n : s[i] = s[j] => i = j
      BY <2>1, <3>1
    <3> QED BY <3>4, <3>5, Zenon DEF Once
  <2> HIDE DEF new
  <2>16. Fresh(new, e.nextId, n)
    BY <2>11, <2>12 DEF Fresh
  <2>17. Stays(e, [Committed(e, e.hits \cup new) EXCEPT !.selection = s, !.nextId = e.nextId + n])
    BY <2>13, <2>14, <2>15, <2>16, MoreStays, Zenon
  <2> QED BY <2>6, <2>8, <2>17
<1> QED BY <1>1, <1>2, Zenon

\* A copy of the selection in the order of time.
LEMMA CopiedStays ==
  ASSUME NEW e, EdInv(e), EdSane(e)
  PROVE  Stays(e, Copied(e)) /\ Items(Copied(e).clip)
<1>1. PICK order : order = InOrder(Selected(e))
  OBVIOUS
<1>2. Once(order, Ids(e.hits))
  <2>1. Selected(e) \subseteq e.hits
    BY DEF Selected
  <2> QED BY <1>1, <2>1, OrderOnce, Zenon
<1>3. CASE order = <<>>
  <2>1. Copied(e) = e
    BY <1>1, <1>3, Zenon DEF Copied
  <2> QED BY <2>1, SameStays, Zenon DEF EdSane
<1>4. CASE order # <<>>
  <2> DEFINE item(id) == LET h == Hit(e.hits, id) IN
                         [art |-> h.art, vel |-> h.vel, dt |-> h.t - Hit(e.hits, order[1]).t]
  <2>1. PICK c : c = [i \in DOMAIN order |-> item(order[i])]
    BY Zenon
  <2>2. Copied(e) = [e EXCEPT !.clip = c]
    BY <1>1, <1>4, <2>1 DEF Copied
  <2>3. ASSUME NEW i \in DOMAIN order  PROVE SaneHit(Hit(e.hits, order[i])) /\ Hit(e.hits, order[i]).t \in Int
    <3>1. order[i] \in Ids(e.hits)
      BY <1>2, OnceHas, Zenon
    <3>2. Hit(e.hits, order[i]) \in e.hits
      BY <3>1, HitIs, Zenon
    <3> QED BY <3>2, HitsAre, Zenon
  <2>4. 1 \in DOMAIN order
    <3>1. Len(order) \in 1..Len(order) /\ DOMAIN order = 1..Len(order) /\ Len(order) \in Nat
      BY <1>2, <1>4, OnceHas
    <3> QED BY <3>1
  <2>5. Items(c)
    <3>1. ASSUME NEW i \in DOMAIN order
          PROVE  c[i].art \in Arts /\ c[i].vel \in 1..MaxVel /\ c[i].dt \in Int
      <4>1. PICK h, b : h = Hit(e.hits, order[i]) /\ b = Hit(e.hits, order[1])
        OBVIOUS
      <4>2. SaneHit(h) /\ h.t \in Int /\ b.t \in Int
        BY <2>3, <2>4, <4>1, Zenon
      <4>3. c[i] = [art |-> h.art, vel |-> h.vel, dt |-> h.t - b.t]
        BY <2>1, <4>1
      <4> QED BY <4>2, <4>3 DEF SaneHit
    <3>2. DOMAIN c = DOMAIN order
      BY <2>1
    <3> QED BY <3>1, <3>2, Zenon DEF Items
  <2>6. PICK f : f = Copied(e)
    OBVIOUS
  <2>7. DOMAIN e = Fields
    BY Zenon DEF EdInv
  <2>8. /\ f.hits = e.hits /\ f.past = e.past /\ f.future = e.future /\ f.gesture = e.gesture
        /\ f.selection = e.selection /\ f.lastVel = e.lastVel /\ f.clip = c
    BY <2>2, <2>6, <2>7 DEF Fields
  <2>9. Stays(e, f)
    BY <2>5, <2>8, KeepStays, Zenon DEF EdSane
  <2> QED BY <2>5, <2>6, <2>8, <2>9, Zenon
<1> QED BY <1>3, <1>4, Zenon

-----------------------------------------------------------------------------
(* Times of the grid *)

\* The time of a whole beat.
LEMMA WholeBeatIs ==
  ASSUME NEW g, NEW D, Ready(g, D), NEW b \in Int
  PROVE  \E i \in 0..Len(g.beats) - 2 :
           /\ i = Clip(g, b - g.offset)
           /\ i > 0 => b >= g.offset + i
           /\ i < Len(g.beats) - 2 => b <= g.offset + i
           /\ Seconds(g, BeatUnits * b) = g.beats[i + 1] + (b - (g.offset + i)) * Interval(g, i)
<1>0. /\ Len(g.beats) \in Nat /\ g.offset \in Int /\ BeatUnits \in Nat \ {0}
      /\ \A j \in 1..Len(g.beats) : g.beats[j] \in Int
  BY GridHas, Zenon
<1>1. BeatUnits * b \in Int
  BY <1>0
<1>2. (BeatUnits * b) \div BeatUnits = b
  BY <1>0, DivOf
<1>3. PICK i \in 0..Len(g.beats) - 2 :
           /\ i = Clip(g, b - g.offset)
           /\ i > 0 => b >= g.offset + i
           /\ i < Len(g.beats) - 2 => b <= g.offset + i
           /\ Seconds(g, BeatUnits * b) = g.beats[i + 1]
                + ((BeatUnits * b - BeatUnits * (g.offset + i)) * Interval(g, i)) \div BeatUnits
  BY <1>1, <1>2, SecondsIs, Zenon
<1>4. i \in Int
  BY <1>0
<1>5. PICK I \in Nat : I = Interval(g, i)
  BY <1>4, IntervalHas
<1>6. PICK d \in Int : d = b - (g.offset + i)
  BY <1>0, <1>4
<1>7. (BeatUnits * b - BeatUnits * (g.offset + i)) * I = (d * I) * BeatUnits
  <2>1. PICK u \in Int, o \in Int : u = BeatUnits /\ o = g.offset + i
    BY <1>0, <1>4
  <2>2. (u * b - u * o) * I = ((b - o) * I) * u
    <3>1. (u * b - u * o) = u * (b - o)
      OBVIOUS
    <3>2. PICK e \in Int : e = b - o
      OBVIOUS
    <3>3. (u * e) * I = (e * I) * u
      OBVIOUS
    <3> QED BY <3>1, <3>2, <3>3, Zenon
  <2> QED BY <1>6, <2>1, <2>2, Zenon
<1>8. ((d * I) * BeatUnits) \div BeatUnits = d * I
  <2>1. PICK u \in Nat \ {0}, x \in Int : u = BeatUnits /\ x = d * I
    BY <1>0
  <2>2. (x * u) \div u = x
    <3>1. x * u + 0 = x * u /\ 0 \in 0..u - 1
      BY <2>1
    <3> QED BY <3>1, DivIs
  <2> QED BY <2>1, <2>2, Zenon
<1>9. Seconds(g, BeatUnits * b) = g.beats[i + 1] + d * I
  BY <1>3, <1>5, <1>7, <1>8, Zenon
<1> QED BY <1>3, <1>5, <1>6, <1>9, Zenon

\* Time goes on from beat to beat.
LEMMA BeatsGoOn ==
  ASSUME NEW g, NEW D, Ready(g, D), NEW b \in Int, NEW c \in Int, b < c
  PROVE  /\ Seconds(g, BeatUnits * b) \in Int /\ Seconds(g, BeatUnits * c) \in Int
         /\ Seconds(g, BeatUnits * b) < Seconds(g, BeatUnits * c)
<1>0. PICK n \in Nat, o \in Int : n = Len(g.beats) /\ o = g.offset
  BY GridHas, Zenon
<1>1. PICK i \in 0..n - 2 :
           /\ i = Clip(g, b - o)
           /\ i > 0 => b >= o + i
           /\ i < n - 2 => b <= o + i
           /\ Seconds(g, BeatUnits * b) = g.beats[i + 1] + (b - (o + i)) * Interval(g, i)
  BY <1>0, WholeBeatIs, Zenon
<1>2. PICK j \in 0..n - 2 :
           /\ j = Clip(g, c - o)
           /\ j > 0 => c >= o + j
           /\ j < n - 2 => c <= o + j
           /\ Seconds(g, BeatUnits * c) = g.beats[j + 1] + (c - (o + j)) * Interval(g, j)
  BY <1>0, WholeBeatIs, Zenon
<1>3. i <= j
  <2>1. PICK k \in Int, l \in Int : k = b - o /\ l = c - o
    OBVIOUS
  <2>2. i = Clip(g, k) /\ j = Clip(g, l)
    BY <1>1, <1>2, <2>1, Zenon
  <2>4. k < l /\ n >= 2
    BY <1>1, <2>1
  <2>3. /\ i = IF k < 0 THEN 0 ELSE IF k > n - 2 THEN n - 2 ELSE k
        /\ j = IF l < 0 THEN 0 ELSE IF l > n - 2 THEN n - 2 ELSE l
    BY <1>0, <2>2, Zenon DEF Clip
  <2> QED BY <2>3, <2>4
<1>4. PICK I \in Nat \ {0}, J \in Nat \ {0} : I = Interval(g, i) /\ J = Interval(g, j)
  <2>1. i \in Int /\ j \in Int
    BY <1>0
  <2>2. Interval(g, i) \in Nat \ {0} /\ Interval(g, j) \in Nat \ {0}
    BY <2>1, IntervalHas, Zenon
  <2> QED BY <2>2, Zenon
<1>5. PICK x \in Int, y \in Int : x = g.beats[i + 1] /\ y = g.beats[j + 1]
  <2>1. i + 1 \in 1..n /\ j + 1 \in 1..n
    BY <1>0
  <2>2. g.beats[i + 1] \in Int /\ g.beats[j + 1] \in Int
    BY <1>0, <2>1, GridHas, Zenon
  <2> QED BY <2>2, Zenon
<1>6. PICK p \in Int, q \in Int : p = (b - (o + i)) * I /\ q = (c - (o + j)) * J
  OBVIOUS
<1>7. Seconds(g, BeatUnits * b) = x + p /\ Seconds(g, BeatUnits * c) = y + q
  BY <1>1, <1>2, <1>4, <1>5, <1>6, Zenon
<1>8. x + p < y + q
  <2>1. CASE i = j
    <3>1. x = y /\ I = J
      BY <1>4, <1>5, <2>1, Zenon
    <3>2. PICK d \in Int, e \in Int : d = b - (o + i) /\ e = c - (o + j)
      OBVIOUS
    <3>3. d < e
      BY <2>1, <3>2
    <3>4. p = d * I /\ q = e * I
      BY <1>6, <3>1, <3>2, Zenon
    <3>5. d * I < e * I
      <4>1. PICK f \in Nat \ {0} : e = d + f
        <5>1. e - d \in Nat \ {0} /\ e = d + (e - d)
          BY <3>3
        <5> QED BY <5>1, Zenon
      <4>2. e * I = d * I + f * I
        BY <4>1
      <4>3. f * I \in Nat \ {0}
        BY ProductGrows, NatProduct
      <4>4. d * I \in Int
        OBVIOUS
      <4> QED BY <4>2, <4>3, <4>4
    <3> QED BY <3>1, <3>4, <3>5
  <2>2. CASE i < j
    <3>1. x < y
      <4>1. i + 1 \in 1..n /\ j + 1 \in 1..n /\ i + 1 < j + 1
        BY <2>2
      <4> QED BY <1>0, <1>5, <4>1, BeatsRise, Zenon
    <3>2. p <= 0
      <4>1. PICK d \in Nat : d = (o + i) - b
        <5>1. (o + i) - b \in Nat
          BY <1>1, <2>2
        <5> QED BY <5>1, Zenon
      <4>2. d * I \in Nat
        BY NatProduct
      <4>3. (b - (o + i)) * I = -(d * I)
        <5>1. b - (o + i) = -d
          BY <4>1
        <5>2. (-d) * I = -(d * I)
          OBVIOUS
        <5> QED BY <5>1, <5>2, Zenon
      <4> QED BY <1>6, <4>2, <4>3
    <3>3. q >= 0
      <4>1. PICK e \in Nat : e = c - (o + j)
        <5>1. c - (o + j) \in Nat
          BY <1>2, <2>2
        <5> QED BY <5>1, Zenon
      <4>2. e * J \in Nat
        BY NatProduct
      <4>3. q = e * J
        BY <1>6, <4>1, Zenon
      <4> QED BY <4>2, <4>3
    <3> QED BY <3>1, <3>2, <3>3
  <2> QED BY <1>3, <2>1, <2>2
<1> QED BY <1>7, <1>8

-----------------------------------------------------------------------------
(* The page keeps the types *)

Typed == EdSane(ed) /\ Dragged(ed, drag) /\ grid \in Grids
TypedNext == EdSane(ed') /\ Dragged(ed', drag') /\ grid' \in Grids

LEMMA TypedPrimes ==
  ASSUME TypedNext
  PROVE  Typed'
<1>1. EdSane(ed)'
  BY DEF TypedNext, EdSane, Sane, OneEach, SaneAll, ToSet, Once, Ids, Items
<1>2. Dragged(ed, drag)'
  BY DEF TypedNext, Dragged
<1>3. (grid \in Grids)'
  BY DEF TypedNext
<1> QED BY <1>1, <1>2, <1>3 DEF Typed

LEMMA GridIs ==
  ASSUME grid \in Grids, HasGrid(grid)
  PROVE  Ready(grid, Divisions)
BY EditAssumption DEF Ready

LEMMA SnapTimeIs ==
  ASSUME grid \in Grids, NEW t \in Int, NEW on, NEW n \in Divisions
  PROVE  SnapTime(t, on, n) \in Int
<1>1. CASE on /\ HasGrid(grid)
  BY <1>1, GridIs, SnapNear, Zenon DEF SnapTime
<1>2. CASE ~(on /\ HasGrid(grid))
  BY <1>2, Zenon DEF SnapTime
<1> QED BY <1>1, <1>2, Zenon

LEMMA GridStepIs ==
  ASSUME grid \in Grids, NEW t \in Int, NEW n \in Divisions, NEW dir \in {-1, 1}
  PROVE  GridStep(t, n, dir) \in Int
<1>1. CASE HasGrid(grid)
  <2>1. Ready(grid, Divisions)
    BY <1>1, GridIs, Zenon
  <2>2. BeatUnits \div n \in Nat \ {0}
    BY <2>1, Units, 0 \in Int, Zenon
  <2>3. Beat(grid, t) \in Int
    BY <2>1, BeatWhole, Zenon
  <2>4. Beat(grid, t) + dir * (BeatUnits \div n) \in Int
    BY <2>2, <2>3
  <2>5. Seconds(grid, Beat(grid, t) + dir * (BeatUnits \div n)) \in Int
    BY <2>1, <2>4, SecondsWhole, Zenon
  <2> QED BY <1>1, <2>5, Zenon DEF GridStep, Step
<1>2. CASE ~HasGrid(grid)
  <2>1. t + dir * CoarseNudge \in Int
    BY EditAssumption
  <2> QED BY <1>2, <2>1, Zenon DEF GridStep
<1> QED BY <1>1, <1>2, Zenon

\* What an operation leaves: the types, and the drag as it is.
LEMMA DoTyped ==
  ASSUME Typed, NEW e, Stays(ed, e), Do(e)
  PROVE  TypedNext
<1>1. ed' = e /\ drag' = drag /\ grid' = grid
  BY DEF Do, Becomes
<1>2. EdSane(e) /\ e.gesture.on = ed.gesture.on
  BY DEF Stays
<1>3. Dragged(ed, drag) /\ grid \in Grids
  BY DEF Typed
<1>4. Dragged(e, drag)
  BY <1>2, <1>3, Zenon DEF Dragged
<1> QED BY <1>1, <1>2, <1>3, <1>4, Zenon DEF TypedNext

\* The same of a handler that sets the drag.
LEMMA DragTyped ==
  ASSUME Typed, NEW e, Becomes(e), EdSane(e), Dragged(e, drag')
  PROVE  TypedNext
<1>1. ed' = e /\ grid' = grid
  BY DEF Becomes
<1> QED BY <1>1, Zenon DEF TypedNext, Typed

LEMMA NoDragged ==
  ASSUME NEW e, ~e.gesture.on
  PROVE  Dragged(e, NoDrag)
<1>1. NoDrag.kind \notin Gestures /\ NoDrag.base = {} /\ DOMAIN NoDrag = {"kind", "base"}
  BY DEF NoDrag, Gestures
<1> QED BY <1>1, Zenon DEF Dragged

LEMMA FreeIs ==
  ASSUME Typed, Buttons
  PROVE  ~ed.gesture.on
<1>1. "none" \notin Gestures
  BY DEF Gestures
<1> QED BY <1>1, Zenon DEF Typed, Dragged, Buttons

\* The first and the last of the selected hits.
LEMMA EndsAre ==
  ASSUME NEW e, EdInv(e), EdSane(e), e.selection # <<>>
  PROVE  /\ Hit(e.hits, InOrder(Selected(e))[1]).t \in Int
         /\ Hit(e.hits, Last(InOrder(Selected(e)))).t \in Int
<1>1. PICK s : s = InOrder(Selected(e))
  OBVIOUS
<1>2. Selected(e) \subseteq e.hits
  BY DEF Selected
<1>3. Selected(e) # {}
  <2>1. Hit(e.hits, Last(e.selection)) \in e.hits
    BY PrimaryIs, Zenon
  <2>2. Once(e.selection, Ids(e.hits))
    BY Zenon DEF EdSane
  <2>3. Len(e.selection) \in 1..Len(e.selection) /\ DOMAIN e.selection = 1..Len(e.selection)
    BY <2>2, OnceHas, Zenon
  <2>4. e.selection[Len(e.selection)] \in ToSet(e.selection) /\ ToSet(e.selection) \subseteq Ids(e.hits)
    <3>1. ToSet(e.selection) \subseteq Ids(e.hits)
      BY <2>2, OnceHas, Zenon
    <3>2. e.selection[Len(e.selection)] \in ToSet(e.selection)
      BY <2>3, Zenon DEF ToSet
    <3> QED BY <3>1, <3>2, Zenon
  <2>5. PICK h \in e.hits : h.id \in ToSet(e.selection)
    BY <2>4, Zenon DEF Ids
  <2> QED BY <2>5 DEF Selected
<1>4. Once(s, Ids(e.hits)) /\ s # <<>>
  BY <1>1, <1>2, <1>3, OrderOnce, Zenon
<1>5. DOMAIN s = 1..Len(s) /\ Len(s) \in 1..Len(s) /\ \A i \in DOMAIN s : s[i] \in Ids(e.hits)
  BY <1>4, OnceHas, Zenon
<1>6. 1 \in 1..Len(s)
  <2>1. PICK l : l = Len(s)
    BY Zenon
  <2>2. l \in Nat
    BY <1>4, <2>1, OnceHas, Zenon
  <2>3. l \in 1..l
    BY <1>5, <2>1, Zenon
  <2>4. 1 \in 1..l
    BY <2>2, <2>3
  <2> QED BY <2>1, <2>4, Zenon
<1>7. s[1] \in Ids(e.hits) /\ Last(s) \in Ids(e.hits)
  BY <1>5, <1>6, Zenon DEF Last
<1>8. Hit(e.hits, s[1]) \in e.hits /\ Hit(e.hits, Last(s)) \in e.hits
  BY <1>7, HitIs, Zenon
<1> QED BY <1>1, <1>8, HitsAre, Zenon

\* A bar lasts some time.
LEMMA BarLasts ==
  ASSUME grid \in Grids, HasGrid(grid), NEW b \in Int, NEW bar, bar = BarAt(grid, b)
  PROVE  Seconds(grid, BeatUnits * (bar.startBeat + bar.numerator))
           - Seconds(grid, BeatUnits * bar.startBeat) \in Nat \ {0}
<1>1. Ready(grid, Divisions)
  BY GridIs, Zenon
<1>2. PICK s \in Int, n \in Nat \ {0} : s = bar.startBeat /\ n = bar.numerator
  BY <1>1, BarHas, Zenon
<1>3. s + n \in Int /\ s < s + n
  OBVIOUS
<1>4. PICK c \in Int : c = s + n
  BY <1>3, Zenon
<1>5. s < c
  BY <1>3, <1>4
<1>6. /\ Seconds(grid, BeatUnits * s) \in Int /\ Seconds(grid, BeatUnits * c) \in Int
      /\ Seconds(grid, BeatUnits * s) < Seconds(grid, BeatUnits * c)
  BY <1>1, <1>5, BeatsGoOn, Zenon
<1>7. Seconds(grid, BeatUnits * c) - Seconds(grid, BeatUnits * s) \in Nat \ {0}
  BY <1>6
<1> QED BY <1>2, <1>4, <1>7, Zenon

\* Where a duplicate goes.
LEMMA DuplicateIs ==
  ASSUME EdInv(ed), Typed, Duplicate
  PROVE  \E t \in Int : Do(Inserted(ed, Copied(ed).clip, t))
<1>1. EdSane(ed) /\ grid \in Grids /\ ed.selection # <<>>
  BY Zenon DEF Typed, Duplicate
<1>2. PICK order : order = InOrder(Selected(ed))
  OBVIOUS
<1>3. PICK first \in Int, last \in Int : first = Hit(ed.hits, order[1]).t /\ last = Hit(ed.hits, Last(order)).t
  BY <1>1, <1>2, EndsAre, Zenon
<1>4. PICK b : b = BarAt(grid, Beat(grid, first) \div BeatUnits)
  OBVIOUS
<1>5. PICK bar : bar = IF HasGrid(grid)
                       THEN Seconds(grid, BeatUnits * (b.startBeat + b.numerator))
                              - Seconds(grid, BeatUnits * b.startBeat)
                       ELSE DefaultBar
  OBVIOUS
<1>6. bar \in Nat \ {0}
  <2>1. CASE HasGrid(grid)
    <3>1. Beat(grid, first) \in Int
      BY <1>1, <2>1, GridIs, BeatWhole, Zenon
    <3>2. Beat(grid, first) \div BeatUnits \in Int
      BY <3>1, BeatGridAssumption
    <3>3. Seconds(grid, BeatUnits * (b.startBeat + b.numerator)) - Seconds(grid, BeatUnits * b.startBeat) \in Nat \ {0}
      BY <1>1, <1>4, <2>1, <3>2, BarLasts, Zenon
    <3> QED BY <1>5, <2>1, <3>3, Zenon
  <2>2. CASE ~HasGrid(grid)
    <3>1. bar = DefaultBar
      BY <1>5, <2>2, Zenon
    <3> QED BY <3>1, EditAssumption
  <2> QED BY <2>1, <2>2, Zenon
<1>7. first + ((last - first) \div bar + 1) * bar \in Int
  BY <1>3, <1>6
<1>8. Do(Inserted(ed, Copied(ed).clip, first + ((last - first) \div bar + 1) * bar))
  BY <1>2, <1>3, <1>4, <1>5, Zenon DEF Duplicate
<1> QED BY <1>7, <1>8, Zenon

LEMMA OperateTyped ==
  ASSUME EdInv(ed), Typed, Operate
  PROVE  TypedNext
<1>0. EdSane(ed) /\ Dragged(ed, drag) /\ grid \in Grids
  BY DEF Typed
<1>1. ASSUME NEW e, Stays(ed, e), Do(e)  PROVE TypedNext
  BY <1>1, DoTyped, Zenon
<1>2. CASE Undo
  BY <1>0, <1>1, <1>2, UndoneStays, Zenon DEF Undo
<1>3. CASE Redo
  BY <1>0, <1>1, <1>3, RedoneStays, Zenon DEF Redo
<1>4. CASE DeleteSelection
  BY <1>0, <1>1, <1>4, RemovedStays, Zenon DEF DeleteSelection
<1>5. CASE Copy
  BY <1>0, <1>1, <1>5, CopiedStays, Zenon DEF Copy
<1>6. CASE Duplicate
  <2>1. PICK t \in Int : Do(Inserted(ed, Copied(ed).clip, t))
    BY <1>6, DuplicateIs, Zenon
  <2>2. Items(Copied(ed).clip) /\ Plain(Copied(ed).clip)
    <3>1. Items(Copied(ed).clip)
      BY <1>0, CopiedStays, Zenon
    <3>2. Plain(Copied(ed).clip)
      BY CopiedDoes
    <3> QED BY <3>1, <3>2, Zenon
  <2>3. Stays(ed, Inserted(ed, Copied(ed).clip, t))
    BY <1>0, <2>2, InsertedStays, Zenon
  <2> QED BY <1>1, <2>1, <2>3, Zenon
<1>7. CASE Compress
  BY <1>0, <1>1, <1>7, CompressedStays, Zenon DEF Compress
<1>8. CASE Release
  <2>1. PICK e : e = IF drag.kind = "press" THEN ed ELSE Ended(ed)
    OBVIOUS
  <2>2. Becomes(e) /\ drag' = NoDrag
    BY <1>8, <2>1, Zenon DEF Release
  <2>3. EdSane(e) /\ ~e.gesture.on
    <3>1. CASE drag.kind = "press"
      <4>1. "press" \notin Gestures
        BY DEF Gestures
      <4> QED BY <1>0, <2>1, <3>1, <4>1, Zenon DEF Dragged
    <3>2. CASE drag.kind # "press"
      <4>1. e = Ended(ed)
        BY <2>1, <3>2, Zenon
      <4> QED BY <1>0, <4>1, EndedStays, Zenon
    <3> QED BY <3>1, <3>2, Zenon
  <2>4. Dragged(e, drag')
    BY <2>2, <2>3, NoDragged, Zenon
  <2> QED BY <2>2, <2>3, <2>4, DragTyped, Zenon
<1>9. CASE SliderDown
  <2>1. Becomes(Begun(ed)) /\ drag' = [NoDrag EXCEPT !.kind = "slider"]
    BY <1>9, Zenon DEF SliderDown
  <2>2. EdSane(Begun(ed)) /\ Begun(ed).gesture.on
    BY <1>0, BegunStays, Zenon
  <2>3. drag'.kind \in Gestures /\ drag'.base = {} /\ DOMAIN drag' = {"kind", "base"}
    BY <2>1 DEF NoDrag, Gestures
  <2>4. Dragged(Begun(ed), drag')
    BY <2>2, <2>3, Zenon DEF Dragged
  <2> QED BY <2>1, <2>2, <2>4, DragTyped, Zenon
<1>10. ASSUME NEW dir \in {-1, 1}, NudgeFine(dir)  PROVE TypedNext
  <2>1. dir * FineNudge \in Int
    BY EditAssumption
  <2> QED BY <1>0, <1>1, <1>10, <2>1, NudgedStays, Zenon DEF NudgeFine
<1>11. ASSUME NEW dir \in {-1, 1}, ChangeVel(dir * VelStep)  PROVE TypedNext
  <2>1. dir * VelStep \in Int
    BY EditAssumption
  <2> QED BY <1>0, <1>1, <1>11, <2>1, VelAddStays, Zenon DEF ChangeVel
<1>12. ASSUME NEW i, SelectAllInView(i)  PROVE TypedNext
  <2>1. PICK from, to, arts : Do(SelectRange(ed, from, to, arts))
    BY <1>12, Zenon DEF SelectAllInView
  <2>2. Stays(ed, SelectRange(ed, from, to, arts))
    BY <1>0, SelectRangeStays, Zenon
  <2> QED BY <1>1, <2>1, <2>2, Zenon
<1>13. ASSUME NEW art \in Sounds, SetArt(art)  PROVE TypedNext
  <2>1. art \in Arts
    BY EditAssumption
  <2> QED BY <1>0, <1>1, <1>13, <2>1, WithArtStays, Zenon DEF SetArt
<1>14. ASSUME NEW n \in Divisions, NEW dir \in {-1, 1}, NudgeGrid(dir, n)  PROVE TypedNext
  <2>1. ed.selection # <<>>
    BY <1>14, Zenon DEF NudgeGrid
  <2>2. PICK t \in Int : t = Hit(ed.hits, Last(ed.selection)).t
    BY <1>0, <2>1, PrimaryIs, Zenon
  <2>3. GridStep(t, n, dir) \in Int
    BY <1>0, GridStepIs, Zenon
  <2>4. GridStep(t, n, dir) - t \in Int
    BY <2>3
  <2>5. Do(Nudged(ed, GridStep(t, n, dir) - t))
    BY <1>14, <2>2, Zenon DEF NudgeGrid
  <2> QED BY <1>0, <1>1, <2>4, <2>5, NudgedStays, Zenon
<1>15. ASSUME NEW n \in Divisions, NEW strength \in {1, 2}, QuantizeSelection(n, strength)  PROVE TypedNext
  <2>1. Ready(grid, Divisions)
    BY <1>0, <1>15, GridIs, Zenon DEF QuantizeSelection
  <2>2. strength \in 1..2
    OBVIOUS
  <2> QED BY <1>0, <1>1, <1>15, <2>1, <2>2, QuantizedStays, Zenon DEF QuantizeSelection
<1>16. ASSUME NEW t \in Times, NEW snap \in BOOLEAN, NEW n \in Divisions, Paste(t, snap, n)  PROVE TypedNext
  <2>1. t \in Int
    BY EditAssumption
  <2>2. SnapTime(t, snap, n) \in Int
    BY <1>0, <2>1, SnapTimeIs, Zenon
  <2>3. Plain(ed.clip) /\ Items(ed.clip)
    BY <1>0, Zenon DEF EdInv, EdSane
  <2> QED BY <1>0, <1>1, <1>16, <2>2, <2>3, InsertedStays, Zenon DEF Paste
<1>17. ASSUME NEW t \in Times, NEW snap \in BOOLEAN, NEW n \in Divisions, NEW art \in Sounds, AddHit(art, t, snap, n)
       PROVE  TypedNext
  <2>1. t \in Int /\ art \in Arts
    BY EditAssumption
  <2>2. SnapTime(t, snap, n) \in Int
    BY <1>0, <2>1, SnapTimeIs, Zenon
  <2> QED BY <1>0, <1>1, <1>17, <2>1, <2>2, AddedStays, Zenon DEF AddHit
<1> QED
  BY <1>2, <1>3, <1>4, <1>5, <1>6, <1>7, <1>8, <1>9, <1>10, <1>11, <1>12, <1>13, <1>14, <1>15, <1>16, <1>17, Zenon
     DEF Operate

LEMMA KindsAre ==
  /\ "none" \notin Gestures /\ "press" \notin Gestures /\ "move" \in Gestures
  /\ "erase" \in Gestures /\ "velocity" \in Gestures /\ "slider" \in Gestures
BY DEF Gestures

\* A drag of the pointer begins or goes on with e.
LEMMA GestureTyped ==
  ASSUME Typed, NEW e, Becomes(e), EdSane(e), e.gesture.on, NEW kind \in Gestures,
         drag' = [NoDrag EXCEPT !.kind = kind]
  PROVE  TypedNext
<1>1. drag'.kind = kind /\ drag'.base = {} /\ DOMAIN drag' = {"kind", "base"}
  BY DEF NoDrag
<1>2. Dragged(e, drag')
  BY <1>1, Zenon DEF Dragged
<1> QED BY <1>2, DragTyped, Zenon

LEMMA GrabTyped ==
  ASSUME EdInv(ed), Typed, NEW id \in Ids(ed.hits), NEW shift \in BOOLEAN, GrabHit(id, shift)
  PROVE  TypedNext
<1>0. EdInv(ed) /\ EdSane(ed) /\ ~ed.gesture.on
  BY FreeIs, Zenon DEF Typed, GrabHit
<1>1. PICK mode : mode = IF shift THEN "toggle" ELSE IF id \in ToSet(ed.selection) THEN "add" ELSE "replace"
  OBVIOUS
<1>2. mode \in {"replace", "add", "toggle"}
  BY <1>1
<1>3. Once(<<id>>, {id})
  <2>1. <<id>> \in Seq({id}) /\ DOMAIN <<id>> = {1}
    OBVIOUS
  <2> QED BY <2>1, Zenon DEF Once
<1>4. PICK e : e = SelectIds(ed, <<id>>, mode)
  OBVIOUS
<1>5. EdSane(e) /\ ~e.gesture.on
  <2>1. Stays(ed, SelectIds(ed, <<id>>, mode))
    BY <1>0, <1>2, <1>3, SelectIdsStays, Zenon
  <2> QED BY <1>0, <1>4, <2>1, Zenon DEF Stays
<1>6. /\ Becomes(e)
      /\ drag' = IF shift /\ id \in ToSet(ed.selection) THEN NoDrag ELSE [kind |-> "press", base |-> Selected(e)]
  BY <1>1, <1>4, Zenon DEF GrabHit
<1>7. CASE shift /\ id \in ToSet(ed.selection)
  <2>1. drag' = NoDrag
    BY <1>6, <1>7, Zenon
  <2>2. Dragged(e, drag')
    BY <1>5, <2>1, NoDragged, Zenon
  <2> QED BY <1>5, <1>6, <2>2, DragTyped, Zenon
<1>8. CASE ~(shift /\ id \in ToSet(ed.selection))
  <2>1. drag' = [kind |-> "press", base |-> Selected(e)]
    BY <1>6, <1>8, Zenon
  <2>2. drag'.kind = "press" /\ drag'.base = Selected(e) /\ DOMAIN drag' = {"kind", "base"}
    BY <2>1
  <2>3. Selected(e) \subseteq e.hits
    BY DEF Selected
  <2>4. \A h \in e.hits : h.t \in Int /\ h.art \in Arts
    <3>1. \A h \in e.hits : h.t \in InSong /\ h.art \in Arts
      BY <1>5, Zenon DEF EdSane, Sane
    <3>2. InSong \subseteq Int
      BY DEF InSong
    <3> QED BY <3>1, <3>2, Zenon
  <2>5. Dragged(e, drag')
    BY <1>5, <2>2, <2>3, <2>4, KindsAre, Zenon DEF Dragged
  <2> QED BY <1>5, <1>6, <2>5, DragTyped, Zenon
<1> QED BY <1>7, <1>8, Zenon

LEMMA MoveTyped ==
  ASSUME EdInv(ed), Typed, NEW dt \in Int, NEW art \in SUBSET Arts, NEW snap, NEW n \in Divisions, NEW lead,
         DragTo(dt, art, snap, n, lead)
  PROVE  TypedNext
<1>0. EdInv(ed) /\ EdSane(ed) /\ Dragged(ed, drag) /\ grid \in Grids
  BY Zenon DEF Typed
<1>1. PICK by : by = IF snap /\ HasGrid(grid) THEN Snap(grid, lead.t + dt, n) - lead.t ELSE dt
  OBVIOUS
<1>2. drag.kind \in {"press", "move"} /\ lead \in drag.base
  BY Zenon DEF DragTo
<1>3. PICK e : e = IF drag.kind = "press" THEN Begun(ed) ELSE ed
  OBVIOUS
<1>4. Becomes(MovedTo(e, drag.base, by, art)) /\ drag' = [drag EXCEPT !.kind = "move"]
  BY <1>1, <1>3, Zenon DEF DragTo
<1>5. \A h \in drag.base : h.t \in Int /\ h.art \in Arts
  BY <1>0, Zenon DEF Dragged
<1>6. by \in Int
  <2>1. PICK t \in Int : t = lead.t
    BY <1>2, <1>5, Zenon
  <2>2. CASE snap /\ HasGrid(grid)
    <3>1. t + dt \in Int
      OBVIOUS
    <3>2. Snap(grid, t + dt, n) \in Int
      BY <1>0, <2>2, <3>1, GridIs, SnapNear, Zenon
    <3>3. Snap(grid, t + dt, n) - t \in Int
      BY <3>2
    <3> QED BY <1>1, <2>1, <2>2, <3>3, Zenon
  <2>3. CASE ~(snap /\ HasGrid(grid))
    BY <1>1, <2>3, Zenon
  <2> QED BY <2>2, <2>3, Zenon
<1>7. EdInv(e) /\ EdSane(e) /\ e.gesture.on
  <2>1. CASE drag.kind = "press"
    <3>1. e = Begun(ed)
      BY <1>3, <2>1, Zenon
    <3>2. EdInv(Begun(ed))
      BY <1>0, BegunKeeps, Zenon
    <3> QED BY <1>0, <3>1, <3>2, BegunStays, Zenon
  <2>2. CASE drag.kind # "press"
    <3>1. e = ed /\ drag.kind = "move"
      BY <1>2, <1>3, <2>2, Zenon
    <3> QED BY <1>0, <3>1, KindsAre, Zenon DEF Dragged
  <2> QED BY <2>1, <2>2, Zenon
<1>8. Stays(e, MovedTo(e, drag.base, by, art))
  BY <1>5, <1>6, <1>7, MovedToStays, Zenon
<1>9. EdSane(MovedTo(e, drag.base, by, art)) /\ MovedTo(e, drag.base, by, art).gesture.on
  BY <1>7, <1>8, Zenon DEF Stays
<1>10. Dragged(MovedTo(e, drag.base, by, art), drag')
  <2>1. DOMAIN drag = {"kind", "base"}
    BY <1>0, Zenon DEF Dragged
  <2>2. drag'.kind = "move" /\ drag'.base = drag.base /\ DOMAIN drag' = {"kind", "base"}
    BY <1>4, <2>1
  <2> QED BY <1>5, <1>9, <2>2, KindsAre, Zenon DEF Dragged
<1> QED BY <1>4, <1>9, <1>10, DragTyped, Zenon

LEMMA PointTyped ==
  ASSUME EdInv(ed), Typed, Point
  PROVE  TypedNext
<1>0. EdInv(ed) /\ EdSane(ed) /\ Dragged(ed, drag) /\ grid \in Grids
  BY Zenon DEF Typed
<1>1. ASSUME NEW e, Stays(ed, e), Do(e)  PROVE TypedNext
  BY <1>1, DoTyped, Zenon
<1>2. EdInv(Begun(ed)) /\ EdSane(Begun(ed)) /\ Begun(ed).gesture.on
  <2>1. EdInv(Begun(ed))
    BY BegunKeeps, Zenon
  <2> QED BY <1>0, <2>1, BegunStays, Zenon
<1>3. ASSUME NEW e, Stays(Begun(ed), e), Becomes(e), NEW kind \in Gestures, drag' = [NoDrag EXCEPT !.kind = kind]
      PROVE  TypedNext
  <2>1. EdSane(e) /\ e.gesture.on
    BY <1>2, <1>3, Zenon DEF Stays
  <2> QED BY <1>3, <2>1, GestureTyped, Zenon
<1>4. ASSUME NEW id, EraseOver(id)  PROVE TypedNext
  BY <1>0, <1>1, <1>4, RemovedStays, Zenon DEF EraseOver
<1>5. ASSUME NEW id \in Ids(ed.hits), NEW shift \in BOOLEAN, GrabHit(id, shift)  PROVE TypedNext
  BY <1>5, GrabTyped, Zenon
<1>6. ASSUME NEW ids, EraseDown(ids)  PROVE TypedNext
  <2>1. Stays(Begun(ed), Removed(Begun(ed), ids))
    BY <1>2, RemovedStays, Zenon
  <2>2. Becomes(Removed(Begun(ed), ids)) /\ drag' = [NoDrag EXCEPT !.kind = "erase"]
    BY <1>6, Zenon DEF EraseDown
  <2> QED BY <1>3, <2>1, <2>2, KindsAre, Zenon
<1>7. ASSUME NEW t \in Times, SetTime(t)  PROVE TypedNext
  <2>1. t \in Int
    BY EditAssumption
  <2> QED BY <1>0, <1>1, <1>7, <2>1, WithTimeStays, Zenon DEF SetTime
<1>8. ASSUME NEW t, NEW u, NEW A, NEW shift \in BOOLEAN, Marquee(t, u, A, shift)  PROVE TypedNext
  <2>1. PICK inside : inside = SelectRange(ed, t, u, A).selection
    OBVIOUS
  <2>2. PICK keep : keep = IF shift THEN ed.selection ELSE <<>>
    OBVIOUS
  <2>3. Stays(ed, SelectIds(ed, Without(keep, ToSet(inside)) \o inside, "replace"))
    BY <1>0, <2>1, <2>2, MarqueeStays, Zenon
  <2>4. Do(SelectIds(ed, Without(keep, ToSet(inside)) \o inside, "replace"))
    BY <1>8, <2>1, <2>2, Zenon DEF Marquee
  <2> QED BY <1>1, <2>3, <2>4, Zenon
<1>9. ASSUME NEW v \in Vels  PROVE v \in Int
  BY EditAssumption
<1>10. ASSUME NEW t, NEW i, NEW v \in Vels, VelDown(t, i, v)  PROVE TypedNext
  <2>1. Stays(Begun(ed), VelDrawn(Begun(ed), Near(t, i), v))
    BY <1>2, <1>9, VelDrawnStays, Zenon
  <2>2. Becomes(VelDrawn(Begun(ed), Near(t, i), v)) /\ drag' = [NoDrag EXCEPT !.kind = "velocity"]
    BY <1>10, Zenon DEF VelDown
  <2> QED BY <1>3, <2>1, <2>2, KindsAre, Zenon
<1>11. ASSUME NEW t, NEW i, NEW v \in Vels, VelOver(t, i, v)  PROVE TypedNext
  BY <1>0, <1>1, <1>9, <1>11, VelDrawnStays, Zenon DEF VelOver
<1>12. ASSUME NEW v \in Vels, SliderTo(v)  PROVE TypedNext
  BY <1>0, <1>1, <1>9, <1>12, WithVelStays, Zenon DEF SliderTo
<1>13. ASSUME NEW lead \in drag.base, NEW t \in Times, NEW snap \in BOOLEAN, NEW n \in Divisions,
              NEW art \in {{}} \cup {{a} : a \in Sounds}, DragTo(t - lead.t, art, snap, n, lead)
       PROVE  TypedNext
  <2>1. PICK s \in Int : s = lead.t
    BY <1>0, Zenon DEF Dragged
  <2>2. t - s \in Int
    BY EditAssumption
  <2>3. t - lead.t \in Int
    BY <2>1, <2>2, Zenon
  <2>4. art \in SUBSET Arts
    BY EditAssumption
  <2> QED BY <1>0, <1>13, <2>3, <2>4, MoveTyped, Zenon
<1> QED
  BY <1>4, <1>5, <1>6, <1>7, <1>8, <1>10, <1>11, <1>12, <1>13, Zenon DEF Point

LEMMA EditTyped ==
  ASSUME EdInv(ed), Typed, [EditNext]_editVars
  PROVE  TypedNext
<1>0. EdInv(ed) /\ EdSane(ed) /\ Dragged(ed, drag) /\ grid \in Grids
  BY Zenon DEF Typed
<1>1. CASE UNCHANGED editVars
  <2>1. ed' = ed /\ drag' = drag /\ grid' = grid
    BY <1>1
  <2> QED BY <1>0, <2>1, Zenon DEF TypedNext
<1>2. ASSUME NEW H \in Documents, Reload(H)  PROVE TypedNext
  <2>1. ed' = Loaded(ed, H) /\ drag' = NoDrag /\ grid' = grid
    BY <1>2, Zenon DEF Reload
  <2>2. EdSane(Loaded(ed, H)) /\ ~Loaded(ed, H).gesture.on
    BY <1>0, LoadedStays, Zenon
  <2>3. Dragged(Loaded(ed, H), NoDrag)
    BY <2>2, NoDragged, Zenon
  <2> QED BY <1>0, <2>1, <2>2, <2>3, Zenon DEF TypedNext
<1>3. CASE EditNext
  BY <1>0, <1>2, <1>3, OperateTyped, PointTyped, Zenon DEF EditNext
<1> QED BY <1>1, <1>3, Zenon

LEMMA EditBegins ==
  ASSUME NEW n, NEW g \in Grids, NEW H \in Documents, EditInit(n, g, H)
  PROVE  Typed
<1>1. /\ ed.hits = H /\ ed.past = <<>> /\ ed.future = <<>> /\ ed.clip = <<>> /\ ed.selection = <<>>
      /\ ed.gesture = NoGesture /\ ed.lastVel = DefaultVel
  BY DEF EditInit
<1>2. ~NoGesture.on
  BY DEF NoGesture
<1>3. DefaultVel \in 1..MaxVel
  BY EditAssumption
<1>4. SaneAll(<<>>) /\ Once(<<>>, Ids(H)) /\ Items(<<>>)
  <2>1. {} \subseteq Ids(H)
    OBVIOUS
  <2> QED BY <2>1, SaneNone, OnceIn, Zenon
<1>5. Sane(H)
  BY DocumentSane, Zenon
<1>6. EdSane(ed)
  BY <1>1, <1>2, <1>3, <1>4, <1>5, Zenon DEF EdSane
<1>7. ~ed.gesture.on /\ drag = NoDrag /\ grid = g
  BY <1>1, <1>2, Zenon DEF EditInit
<1>8. Dragged(ed, NoDrag)
  BY <1>7, NoDragged, Zenon
<1> QED BY <1>6, <1>7, <1>8, Zenon DEF Typed

\* What the types say of the editor.
LEMMA EditTypes ==
  ASSUME EdInv(ed), Typed
  PROVE  EditTypeOK
<1>0. EdSane(ed) /\ Dragged(ed, drag)
  BY Zenon DEF Typed
<1>1. \A h \in ed.hits : h.art \in Arts /\ h.t \in InSong /\ h.vel \in 1..MaxVel
  BY <1>0, Zenon DEF EdSane, Sane
<1>2. Cardinality(Ids(ed.hits)) = Cardinality(ed.hits)
  <2>1. IsFiniteSet(ed.hits) /\ OneEach(ed.hits)
    BY <1>0, Zenon DEF EdSane, Sane, EdInv, Doc
  <2> QED BY <2>1, IdsCount, Zenon
<1>3. ToSet(ed.selection) \subseteq Ids(ed.hits) /\ Len(ed.selection) = Cardinality(ToSet(ed.selection))
  <2>1. Once(ed.selection, Ids(ed.hits))
    BY <1>0, Zenon DEF EdSane
  <2> QED BY <2>1, OnceHas, Zenon
<1>4. Len(ed.past) + Len(ed.future) <= HistoryLimit
  BY Zenon DEF EdInv
<1>5. ed.gesture.on <=> drag.kind \in {"move", "erase", "velocity", "slider"}
  BY <1>0, Zenon DEF Dragged, Gestures
<1> QED BY <1>1, <1>2, <1>3, <1>4, <1>5, Zenon DEF EditTypeOK

-----------------------------------------------------------------------------
(* What the grid promises *)

LEMMA LinesAlwaysAgree ==
  ASSUME grid \in Grids
  PROVE  LinesAgree
<1>1. SUFFICES ASSUME HasGrid(grid), NEW n \in Divisions
               PROVE  LET times == Head(grid.beats) - 2..Last(grid.beats) + 2 IN
                      /\ \A t \in times :
                           LET line == BeatUnits \div n
                               off == Beat(grid, t) - Beat(grid, Snap(grid, t, n)) IN
                           2 * off <= line /\ 2 * off >= -line
                      /\ \A l \in Lines(grid, Head(grid.beats) - 2, Last(grid.beats) + 2, n) :
                           /\ Snap(grid, l.t, n) = l.t
                           /\ Step(grid, Step(grid, l.t, n, 1), n, -1) = l.t
  BY Zenon DEF LinesAgree
<1>2. Ready(grid, Divisions)
  BY <1>1, GridIs, Zenon
<1>3. PICK low \in Int, high \in Int : low = Head(grid.beats) - 2 /\ high = Last(grid.beats) + 2
  <2>1. PICK m \in Nat : m = Len(grid.beats) /\ m >= 2 /\ \A j \in 1..m : grid.beats[j] \in Int
    BY <1>2, GridHas, Zenon
  <2>2. grid.beats[1] \in Int /\ grid.beats[Len(grid.beats)] \in Int
    <3>1. 1 \in 1..m /\ m \in 1..m
      BY <2>1
    <3> QED BY <2>1, <3>1, Zenon
  <2>3. Head(grid.beats) = grid.beats[1] /\ Last(grid.beats) = grid.beats[Len(grid.beats)]
    <3>1. grid.beats \in Seq(Int)
      BY <1>2, Zenon DEF Ready, IsGrid
    <3>2. Head(grid.beats) = grid.beats[1]
      BY <2>1, <3>1
    <3> QED BY <3>2, Zenon DEF Last
  <2>4. grid.beats[1] - 2 \in Int /\ grid.beats[Len(grid.beats)] + 2 \in Int
    BY <2>2
  <2> QED BY <2>3, <2>4, Zenon
<1>4. ASSUME NEW t \in low..high
      PROVE  /\ 2 * (Beat(grid, t) - Beat(grid, Snap(grid, t, n))) <= BeatUnits \div n
             /\ 2 * (Beat(grid, t) - Beat(grid, Snap(grid, t, n))) >= -(BeatUnits \div n)
  <2>1. t \in Int
    OBVIOUS
  <2> QED BY <1>2, <2>1, SnapNear, Zenon
<1>5. ASSUME NEW l \in Lines(grid, low, high, n)
      PROVE  Snap(grid, l.t, n) = l.t /\ Step(grid, Step(grid, l.t, n, 1), n, -1) = l.t
  BY <1>2, LinesAreSnapped, Zenon
<1> QED BY <1>3, <1>4, <1>5, Zenon

LEMMA BarsAlwaysFollow ==
  ASSUME grid \in Grids
  PROVE  BarsFollow
<1>1. SUFFICES ASSUME HasGrid(grid), NEW b \in 0..grid.offset + Len(grid.beats)
               PROVE  LET bar == BarAt(grid, b)
                          next == BarAt(grid, b + 1) IN
                      /\ bar.startBeat <= b
                      /\ next = bar \/ (next.startBeat = b + 1 /\ next.bar = bar.bar + 1)
  BY Zenon DEF BarsFollow
<1>2. Ready(grid, Divisions)
  BY <1>1, GridIs, Zenon
<1>3. b \in Nat
  <2>1. PICK k \in Int : k = grid.offset + Len(grid.beats)
    <3>1. grid.offset + Len(grid.beats) \in Int
      BY <1>2, GridHas
    <3> QED BY <3>1, Zenon
  <2> QED BY <2>1
<1> QED BY <1>2, <1>3, BarsAreNext, Zenon

LEMMA ViewInEditor ==
  ASSUME SpanKnown, [EditorNext]_editorVars
  PROVE  SpanKnown'
<1>1. CASE UNCHANGED view
  BY <1>1 DEF SpanKnown, ViewKnown, ViewInSong
<1>2. ASSUME NEW loop \in Regions, LookStep(loop)  PROVE SpanKnown'
  <2>1. loop.start \in Int /\ loop.end \in Int
    BY KitAssumption
  <2>2. ViewNext(loop)
    BY <1>2, Zenon DEF LookStep
  <2> QED BY <2>1, <2>2, ViewStep, Zenon
<1>3. CASE EditStep \/ KitStep \/ (\E key \in RowKeys : ToggleRow(key)) \/ UNCHANGED editorVars
  BY <1>1, <1>3 DEF EditStep, KitStep, ToggleRow, viewVars
<1> QED BY <1>2, <1>3 DEF EditorNext

LEMMA TypesInEditor ==
  ASSUME EdInv(ed), Typed, [EditorNext]_editorVars
  PROVE  Typed'
<1>1. CASE EditStep
  BY <1>1, EditTyped, TypedPrimes DEF EditStep
<1>2. CASE UNCHANGED editVars
  <2>1. [EditNext]_editVars
    BY <1>2
  <2> QED BY <2>1, EditTyped, TypedPrimes, Zenon
<1>3. CASE KitStep \/ (\E loop \in Regions \ {NoLoop} : LookStep(loop)) \/ (\E key \in RowKeys : ToggleRow(key))
  BY <1>2, <1>3 DEF KitStep, LookStep, ToggleRow
<1> QED BY <1>1, <1>2, <1>3 DEF EditorNext

-----------------------------------------------------------------------------
(* The session *)

LEMMA EditorBegins ==
  ASSUME EditorInit
  PROVE  EditIInv /\ DocsOf(ed) = <<ed.hits>> /\ PlaceOf(ed) = 1 /\ ed.hits \in Documents
<1>1. PICK b \in Budgets : EditInit(b.edits, b.grid, b.hits)
  BY DEF EditorInit, EditorStart
<1>2. PICK H \in Documents : H = b.hits
  BY EditorAssumption
<1>3. /\ DOMAIN ed = Fields /\ ed.hits = H /\ ed.past = <<>> /\ ed.future = <<>> /\ ed.clip = <<>>
      /\ ed.nextId = NextId(H, 1) /\ ed.gesture = NoGesture /\ ed.changes = 0
      /\ watched = [changes |-> 0, hits |-> H]
  BY <1>1, <1>2 DEF EditInit, Fields
<1>4. DOMAIN NoGesture = GestureFields /\ ~NoGesture.on /\ NoGesture.on \in BOOLEAN /\ NoGesture.touched \in BOOLEAN
  BY DEF NoGesture, GestureFields
<1>5. ed.nextId \in Int /\ Doc(ed.hits, ed.nextId)
  BY <1>3, LoadableDoc
<1>6. /\ \A n : Trail(<<>>, n)
      /\ Plain(<<>>) /\ Len(<<>>) = 0 /\ Len(<<>>) + Len(<<>>) <= HistoryLimit
  BY EmptyTrail, EditAssumption
<1>7. EdInv(ed)
  BY <1>3, <1>4, <1>5, <1>6 DEF EdInv
<1>8. watched = Seen(ed)
  BY <1>3, <1>4 DEF Seen
<1>9. DocsOf(ed) = <<ed.hits>> /\ PlaceOf(ed) = 1
  BY <1>3, <1>4, <1>6, OneDocument DEF DocsOf, PlaceOf
<1> QED BY <1>3, <1>7, <1>8, <1>9 DEF EditIInv

LEMMA EditorStepIs ==
  ASSUME EditIInv, [EditorNext]_editorVars
  PROVE  EditIInv' /\ (UNCHANGED ed \/ HistoryGoes(DocsOf(ed), PlaceOf(ed), DocsOf(ed'), PlaceOf(ed')))
<1>1. CASE EditStep
  BY <1>1, EditStepIs DEF EditStep
<1>2. CASE UNCHANGED editVars
  BY <1>2 DEF EditIInv
<1>3. CASE KitStep \/ (\E loop \in Regions \ {NoLoop} : LookStep(loop)) \/ (\E key \in RowKeys : ToggleRow(key))
  BY <1>2, <1>3 DEF KitStep, LookStep, ToggleRow
<1> QED BY <1>1, <1>2, <1>3 DEF EditorNext

\* Ids name their hits for the session, through undo, redo and reloads, and
\* outside a gesture the autosave has what the page shows (lib/drums/model.ts
\* and the autosave effect of the editor).
THEOREM EditorKeepsIds == EditorSpec => [](IdsAreNew /\ SavedAsShown)
<1>1. EditorInit => EditIInv
  BY EditorBegins
<1>2. EditIInv /\ [EditorNext]_editorVars => EditIInv'
  BY EditorStepIs
<1>3. EditIInv => IdsAreNew /\ SavedAsShown
  <2>1. ASSUME EditIInv PROVE IdsAreNew
    <3>1. \A H \in {ed.hits} \cup ToSet(ed.past) \cup ToSet(ed.future) : Doc(H, ed.nextId)
      BY <2>1 DEF EditIInv, EdInv, Trail, ToSet
    <3> QED BY <3>1 DEF IdsAreNew, Doc, Ids
  <2>2. ASSUME EditIInv PROVE SavedAsShown
    BY <2>2 DEF EditIInv, SavedAsShown, Seen
  <2> QED BY <2>1, <2>2
<1> QED BY <1>1, <1>2, <1>3, PTL DEF EditorSpec

\* Whatever is edited, muted, played or sought, each hit sounds once in a pass
\* and in time, none that is gone, and never together with the drum stem
\* (player/kit/scheduler.ts under the effects of use-kit-audition.ts).
THEOREM KitCorrect == EditorSpec => []KitInv
<1>1. ASSUME EditorInit  PROVE KitIInv
  <2>1. PICK b \in Budgets : EditorStart(b)
    BY <1>1, Zenon DEF EditorInit
  <2>2. KitInit(b.frames) /\ plays = Sound(ed.hits, muted, solo)
    BY <2>1, Zenon DEF EditorStart
  <2>3. \A h \in Sound(ed.hits, muted, solo) : h = [id |-> h.id, t |-> h.t]
    BY SoundIs
  <2>4. \A h \in plays : h = [id |-> h.id, t |-> h.t]
    BY <2>2, <2>3, Zenon
  <2> QED BY <2>2, <2>4, KitBegins, Zenon
<1>2. KitIInv /\ [EditorNext]_editorVars => KitIInv'
  BY KitInEditor
<1> QED BY <1>1, <1>2, KitPromises, PTL DEF EditorSpec

\* Everything a run checks of the editor, of every document, grid, loop and
\* budget: hits, selection and history keep their types and ids through every
\* operation and drag (lib/drums/model.ts), the view stays in the song and a
\* click means the articulation that is drawn (use-drum-editor.ts, rows.ts),
\* hits snap to the lines that are drawn and bars follow each other (grid.ts),
\* and the kit sounds the edited hits (player/kit/scheduler.ts).
THEOREM EditorCorrect == EditorSpec => []EditorInv
<1>1. ASSUME EditorInit  PROVE Typed /\ SpanKnown
  <2>1. PICK b \in Budgets : EditInit(b.edits, b.grid, b.hits) /\ ViewInit(b.looks)
    BY <1>1, Zenon DEF EditorInit, EditorStart
  <2>2. b.grid \in Grids /\ b.hits \in Documents
    BY EditorAssumption, Zenon
  <2> QED BY <2>1, <2>2, EditBegins, ViewBegins, Zenon
<1>2. EditorInit => EditIInv
  BY EditorBegins
<1>3. EditIInv /\ [EditorNext]_editorVars => EditIInv'
  BY EditorStepIs
<1>4. EditIInv /\ Typed /\ [EditorNext]_editorVars => Typed'
  BY TypesInEditor, Zenon DEF EditIInv
<1>5. SpanKnown /\ [EditorNext]_editorVars => SpanKnown'
  BY ViewInEditor
<1>6. EditIInv /\ Typed => EditTypeOK
  BY EditTypes, Zenon DEF EditIInv
<1>7. SpanKnown => ViewInSong
  BY Zenon DEF SpanKnown
<1>8. PickedAsDrawn
  BY PickedRow, Zenon DEF PickedAsDrawn
<1>9. Typed => LinesAgree /\ BarsFollow
  BY LinesAlwaysAgree, BarsAlwaysFollow, Zenon DEF Typed
<1>10. EditorSpec => [](EditIInv /\ Typed /\ SpanKnown)
  BY <1>1, <1>2, <1>3, <1>4, <1>5, PTL DEF EditorSpec
<1>11. EditTypeOK /\ IdsAreNew /\ SavedAsShown /\ ViewInSong /\ PickedAsDrawn /\ LinesAgree /\ BarsFollow /\ KitInv
         => EditorInv
  BY Zenon DEF EditorInv, EditInv
<1> QED BY <1>6, <1>7, <1>8, <1>9, <1>10, <1>11, EditorKeepsIds, KitCorrect, PTL

\* The editor implements the abstract history: every operation, drag and
\* reload, in whatever order, is an edit, an undo, a redo or nothing to it.
THEOREM EditorIsAHistory == EditorSpec => HistoryIsKept
<1>1. HistoryDocs = DocsOf(ed) /\ HistoryAt = PlaceOf(ed)
  BY Zenon DEF HistoryDocs, HistoryAt, DocsOf, PlaceOf, Row
<1>2. HistoryDocs' = DocsOf(ed') /\ HistoryAt' = PlaceOf(ed')
  BY Zenon DEF HistoryDocs, HistoryAt, DocsOf, PlaceOf, Row
<1>3. EditorInit => EditIInv /\ History!HistoryInit
  BY <1>1, EditorBegins DEF History!HistoryInit
<1>4. EditIInv /\ [EditorNext]_editorVars => EditIInv' /\ [History!HistoryNext]_(History!historyVars)
  <2>1. SUFFICES ASSUME EditIInv, [EditorNext]_editorVars
                 PROVE  EditIInv' /\ [History!HistoryNext]_(History!historyVars)
    OBVIOUS
  <2>2. EditIInv' /\ (UNCHANGED ed \/ HistoryGoes(DocsOf(ed), PlaceOf(ed), DocsOf(ed'), PlaceOf(ed')))
    BY <2>1, EditorStepIs
  <2>3. ASSUME UNCHANGED ed  PROVE [History!HistoryNext]_(History!historyVars)
    BY <1>1, <1>2, <2>3 DEF History!historyVars
  <2>4. ASSUME HistoryGoes(HistoryDocs, HistoryAt, HistoryDocs', HistoryAt')
        PROVE  [History!HistoryNext]_(History!historyVars)
    BY <2>4, Zenon DEF HistoryGoes, History!historyVars, History!HistoryNext, History!Load, History!Edit, History!Undo, History!Redo
  <2> QED BY <1>1, <1>2, <2>2, <2>3, <2>4
<1> QED BY <1>3, <1>4, PTL DEF EditorSpec, HistoryIsKept, History!HistorySpec

HIDE DEF editVars, editorVars

USE DEF drumVars

-----------------------------------------------------------------------------
(* The inductive invariant *)

Revisions == [rev : Nat, doc : Docs]
PageStates == {"loading", "read", "ready", "error", "left"}
SaveStates == {"idle", "pending", "saving", "saved", "conflict", "error"}
ExportSteps == {"none", "flushing", "checking", "posting"}
PageRecs == [status : PageStates, answer : Revisions, doc : Docs, made : Nat, loads : Nat,
             gesture : BOOLEAN]
Autosaves == [load : Nat, alive : BOOLEAN, status : SaveStates, rev : Nat,
              pending : SUBSET Docs, timer : BOOLEAN, inFlight : BOOLEAN, queued : BOOLEAN]
Puts == [tab : Tabs, load : Nat, base : Nat, doc : Docs, answer : Answers, rev : Nat]
Exports == [step : ExportSteps, asked : Docs, rev : Nat, count : Nat]

Types ==
  /\ server \in Revisions
  /\ page \in [Tabs -> PageRecs]
  /\ autosave \in [Tabs -> Autosaves]
  /\ puts \subseteq Puts
  /\ export \in [Tabs -> Exports]

\* A save on the way at the current revision has seen everything that is on
\* the server; an answered one is behind the server.
HasSeen(p) ==
  /\ p.base <= server.rev /\ p.load <= page[p.tab].loads
  /\ p.answer = "none" /\ p.base = server.rev => server.doc \subseteq p.doc
  /\ p.answer = "saved" =>
       /\ p.base < p.rev /\ p.rev <= server.rev /\ p.doc \subseteq server.doc
       /\ p.rev = server.rev => server.doc \subseteq p.doc
  /\ p.answer = "conflict" => p.base < server.rev

\* The save its Autosave waits for: it has what the page had when it started,
\* and so has whatever waits behind it.
Awaited(p) == Listens(p) =>
  LET a == autosave[p.tab]  pg == page[p.tab]  x == export[p.tab] IN
  /\ a.inFlight /\ p.base = a.rev /\ p.doc \subseteq pg.doc
  /\ \A d \in a.pending : p.doc \subseteq d
  /\ a.pending = {} /\ ~pg.gesture => pg.doc \subseteq p.doc
  /\ a.pending = {} /\ x.step = "flushing" => x.asked \subseteq p.doc

OneAwaited ==
  \A p, q \in puts : Listens(p) /\ Listens(q) /\ p.tab = q.tab => p = q

\* The Autosave of a page: at the current revision it has seen the server's
\* document, and what waits in it is what the page shows.
SaveInv(t) ==
  LET a == autosave[t]  pg == page[t] IN
  /\ a.load = pg.loads /\ a.rev <= server.rev
  /\ a.alive => a.load > 0 /\ (pg.status = "ready" \/ a.status = "conflict")
  /\ pg.status = "ready" => a.alive
  /\ pg.status = "left" => ~a.alive
  /\ a.alive /\ a.rev = server.rev =>
       server.doc \subseteq pg.doc /\ \A d \in a.pending : server.doc \subseteq d
  /\ a.alive /\ a.inFlight => \E p \in puts : p.tab = t /\ p.load = a.load
  /\ \A d, e \in a.pending : d = e
  /\ \A d \in a.pending : d \subseteq pg.doc
  /\ a.pending # {} => a.alive /\ (~pg.gesture => pg.doc \in a.pending)
  /\ a.status = "conflict" => a.pending = {} /\ ~a.inFlight
  /\ a.alive /\ ~a.inFlight /\ a.pending = {} => a.status \in {"idle", "saved", "conflict"}
  /\ pg.status = "ready" /\ a.status \in {"idle", "saved"} /\ ~pg.gesture =>
       pg.doc \subseteq server.doc

LoadInv(t) ==
  LET r == page[t].answer IN
  page[t].status = "read" =>
    r.rev <= server.rev /\ r.doc \subseteq server.doc /\ (r.rev = server.rev => r.doc = server.doc)

\* An export waits for a save that has the edits it was asked for with, or has
\* a revision at which the server has them.
ExportInv(t) ==
  LET a == autosave[t]  pg == page[t]  x == export[t] IN
  /\ x.step = "flushing" =>
       /\ pg.status = "ready" /\ a.alive /\ a.inFlight
       /\ x.asked \subseteq pg.doc /\ \A d \in a.pending : x.asked \subseteq d
  /\ x.step \in {"checking", "posting"} =>
       /\ x.rev <= server.rev
       /\ pg.status # "left" /\ x.rev = server.rev => x.asked \subseteq server.doc

Counts == \A t \in Tabs : page[t].made \in 0..MaxEdits[t]

DrumIInv ==
  /\ Types /\ Counts
  /\ \A p \in puts : HasSeen(p) /\ Awaited(p)
  /\ OneAwaited
  /\ \A t \in Tabs : SaveInv(t) /\ LoadInv(t) /\ ExportInv(t)

-----------------------------------------------------------------------------
(* The operators of the Autosave *)

LEMMA StartedFields ==
  ASSUME NEW a \in Autosaves
  PROVE  /\ Started(a) \in Autosaves
         /\ Started(a).load = a.load /\ Started(a).alive = a.alive /\ Started(a).rev = a.rev
         /\ CanStart(a) => /\ Started(a).pending = {} /\ Started(a).inFlight
                           /\ Started(a).status = "saving"
         /\ ~CanStart(a) => Started(a) = a
BY Zenon DEF Started, Autosaves, SaveStates

LEMMA NoTimerFields ==
  ASSUME NEW a \in Autosaves
  PROVE  /\ NoTimer(a) \in Autosaves
         /\ NoTimer(a).load = a.load /\ NoTimer(a).alive = a.alive /\ NoTimer(a).rev = a.rev
         /\ NoTimer(a).status = a.status /\ NoTimer(a).pending = a.pending
         /\ NoTimer(a).inFlight = a.inFlight
BY Zenon DEF NoTimer, Autosaves

LEMMA DisposedFields ==
  ASSUME NEW a \in Autosaves
  PROVE  /\ Disposed(a) \in Autosaves
         /\ Disposed(a).load = a.load /\ ~Disposed(a).alive /\ Disposed(a).rev = a.rev
         /\ Disposed(a).status = a.status /\ Disposed(a).pending = {}
         /\ Disposed(a).inFlight = a.inFlight
BY Zenon DEF Disposed, Autosaves

LEMMA UpdatedFields ==
  ASSUME NEW a \in Autosaves, NEW doc \in Docs
  PROVE  /\ Updated(a, doc) \in Autosaves
         /\ Updated(a, doc).load = a.load /\ Updated(a, doc).alive = a.alive
         /\ Updated(a, doc).rev = a.rev /\ Updated(a, doc).inFlight = a.inFlight
         /\ ~a.alive \/ a.status = "conflict" => Updated(a, doc) = a
         /\ a.alive /\ a.status # "conflict" => /\ Updated(a, doc).pending = {doc}
                                               /\ Updated(a, doc).status \in {"saving", "pending"}
BY Zenon DEF Updated, Autosaves, SaveStates

LEMMA SettledFields ==
  ASSUME NEW a \in Autosaves
  PROVE  /\ Settled(a) \in Autosaves /\ Settled(a).pending = a.pending
         /\ Settled(a).load = a.load /\ Settled(a).alive = a.alive /\ Settled(a).rev = a.rev
         /\ Settled(a).status = a.status /\ ~Settled(a).inFlight
BY Zenon DEF Settled, Autosaves

LEMMA SavedFields ==
  ASSUME NEW a \in Autosaves, NEW rev \in Nat
  PROVE  /\ Saved(a, rev) \in Autosaves
         /\ Saved(a, rev).load = a.load /\ Saved(a, rev).alive = a.alive
         /\ Saved(a, rev).rev = rev /\ Saved(a, rev).pending = a.pending
         /\ ~Saved(a, rev).inFlight
         /\ a.pending = {} => Saved(a, rev).status = "saved"
<1> DEFINE b == Settled(a)
<1>1. b \in Autosaves /\ b.load = a.load /\ b.alive = a.alive /\ b.pending = a.pending
      /\ ~b.inFlight
  BY SettledFields
<1>2. Saved(a, rev) = [b EXCEPT !.rev = rev, !.status = IF a.pending = {} THEN "saved" ELSE "pending"]
  BY DEF Saved
<1> HIDE DEF b
<1> QED BY <1>1, <1>2, Zenon DEF Autosaves, SaveStates

LEMMA ConflictedFields ==
  ASSUME NEW a \in Autosaves
  PROVE  /\ Conflicted(a) \in Autosaves
         /\ Conflicted(a).load = a.load /\ Conflicted(a).alive = a.alive
         /\ Conflicted(a).rev = a.rev /\ Conflicted(a).pending = {}
         /\ ~Conflicted(a).inFlight /\ Conflicted(a).status = "conflict"
<1> DEFINE b == Settled(a)
<1>1. b \in Autosaves /\ b.load = a.load /\ b.alive = a.alive /\ b.rev = a.rev /\ ~b.inFlight
  BY SettledFields
<1>2. Conflicted(a) = [b EXCEPT !.pending = {}, !.status = "conflict"]
  BY DEF Conflicted
<1> HIDE DEF b
<1> QED BY <1>1, <1>2, Zenon DEF Autosaves, SaveStates

LEMMA SaveFailedFields ==
  ASSUME NEW a \in Autosaves, NEW doc \in Docs
  PROVE  /\ SaveFailed(a, doc) \in Autosaves
         /\ SaveFailed(a, doc).load = a.load /\ SaveFailed(a, doc).alive = a.alive
         /\ SaveFailed(a, doc).rev = a.rev /\ ~SaveFailed(a, doc).inFlight
         /\ SaveFailed(a, doc).status = "error"
         /\ a.pending = {} => SaveFailed(a, doc).pending = {doc}
         /\ a.pending # {} => SaveFailed(a, doc).pending = a.pending
<1> DEFINE b == Settled(a)
<1>1. b \in Autosaves /\ b.load = a.load /\ b.alive = a.alive /\ b.rev = a.rev /\ ~b.inFlight
      /\ b.pending = a.pending /\ a.queued \in BOOLEAN
  BY SettledFields DEF Autosaves
<1> DEFINE held == IF a.pending = {} THEN {doc} ELSE a.pending
<1>2. SaveFailed(a, doc) = [b EXCEPT !.pending = held, !.status = "error", !.timer = a.queued]
  BY <1>1 DEF SaveFailed
<1>3. held \in SUBSET Docs
  BY DEF Autosaves
<1> HIDE DEF b, held
<1>4. /\ SaveFailed(a, doc) \in Autosaves /\ SaveFailed(a, doc).pending = held
      /\ SaveFailed(a, doc).load = a.load /\ SaveFailed(a, doc).alive = a.alive
      /\ SaveFailed(a, doc).rev = a.rev /\ ~SaveFailed(a, doc).inFlight
      /\ SaveFailed(a, doc).status = "error"
  BY <1>1, <1>2, <1>3, ZenonT(60) DEF Autosaves, SaveStates
<1> QED BY <1>4 DEF held

LEMMA NewAutosaveFields ==
  ASSUME NEW n \in Nat, NEW rev \in Nat
  PROVE  /\ NewAutosave(n, rev) \in Autosaves
         /\ NewAutosave(n, rev).load = n /\ NewAutosave(n, rev).alive
         /\ NewAutosave(n, rev).rev = rev /\ NewAutosave(n, rev).pending = {}
         /\ ~NewAutosave(n, rev).inFlight /\ NewAutosave(n, rev).status = "idle"
BY DEF NewAutosave, Autosaves, SaveStates

LEMMA RequestPut ==
  ASSUME NEW t \in Tabs, NEW a \in Autosaves
  PROVE  /\ Request(t, a) \subseteq Puts
         /\ \A p \in Request(t, a) : /\ p.tab = t /\ p.load = a.load /\ p.base = a.rev
                                     /\ p.doc \in a.pending /\ p.answer = "none"
         /\ CanStart(a) => Request(t, a) # {}
         /\ ~CanStart(a) => Request(t, a) = {}
         /\ (\A d, e \in a.pending : d = e) => \A p, q \in Request(t, a) : p = q
<1> DEFINE put(d) == [tab |-> t, load |-> a.load, base |-> a.rev, doc |-> d, answer |-> "none", rev |-> 0]
<1>1. /\ a.pending \subseteq Docs /\ a.load \in Nat /\ a.rev \in Nat
  BY DEF Autosaves
<1>2. \A d \in Docs : put(d) \in Puts
  BY <1>1 DEF Puts, Answers
<1>3. \A d : /\ put(d).tab = t /\ put(d).load = a.load /\ put(d).base = a.rev
             /\ put(d).doc = d /\ put(d).answer = "none"
  OBVIOUS
<1>4. Request(t, a) = IF CanStart(a) THEN {put(d) : d \in a.pending} ELSE {}
  BY DEF Request
<1>5. CanStart(a) => a.pending # {}
  BY DEF CanStart
<1> HIDE DEF put
<1> QED BY <1>1, <1>2, <1>3, <1>4, <1>5

-----------------------------------------------------------------------------
(* Steps of one tab *)

\* Tab u is left alone.
Still(u) == page'[u] = page[u] /\ autosave'[u] = autosave[u] /\ export'[u] = export[u]

\* A step of tab t leaves the server, the other tabs and their saves alone.
LEMMA OneTab ==
  ASSUME DrumIInv, NEW t \in Tabs, server' = server, Types', page'[t].made \in 0..MaxEdits[t],
         \A u \in Tabs : u # t => Still(u),
         \A p : p.tab # t => (p \in puts <=> p \in puts'),
         \A p \in puts' : p.tab = t => HasSeen(p)' /\ Awaited(p)',
         \A p, q \in puts' : p.tab = t /\ q.tab = t /\ Listens(p)' /\ Listens(q)' => p = q,
         SaveInv(t)', LoadInv(t)', ExportInv(t)'
  PROVE  DrumIInv' /\ server.doc \subseteq server'.doc
<1> USE DEF DrumIInv
<1>1. \A p \in puts' : p.tab \in Tabs
  BY DEF Types, Puts
<1>2. ASSUME NEW p \in puts'  PROVE HasSeen(p)' /\ Awaited(p)'
  <2>1. CASE p.tab = t
    BY <2>1
  <2>2. CASE p.tab # t
    <3>1. p \in puts /\ Still(p.tab)
      BY <1>1, <2>2
    <3>2. HasSeen(p) /\ Awaited(p)
      BY <3>1
    <3> QED BY <3>1, <3>2 DEF HasSeen, Awaited, Listens, Still
  <2> QED BY <2>1, <2>2
<1>3. OneAwaited'
  <2> SUFFICES ASSUME NEW p \in puts', NEW q \in puts', Listens(p)', Listens(q)', p.tab = q.tab
               PROVE  p = q
    BY DEF OneAwaited
  <2>1. CASE p.tab = t
    BY <2>1, Zenon
  <2>2. CASE p.tab # t
    <3>1. p \in puts /\ q \in puts /\ Still(p.tab)
      BY <1>1, <2>2
    <3> QED BY <3>1 DEF OneAwaited, Listens, Still
  <2> QED BY <2>1, <2>2
<1>4. ASSUME NEW u \in Tabs, u # t  PROVE SaveInv(u)' /\ LoadInv(u)' /\ ExportInv(u)'
  <2>1. SaveInv(u) /\ LoadInv(u) /\ ExportInv(u) /\ Still(u)
    BY <1>4
  <2>2. \A p : p.tab = u => (p \in puts <=> p \in puts')
    BY <1>4
  <2>3. (\E p \in puts : p.tab = u /\ p.load = autosave[u].load)
          => \E p \in puts' : p.tab = u /\ p.load = autosave'[u].load
    BY <2>1, <2>2 DEF Still
  <2>4. SaveInv(u)'
    BY <2>1, <2>3 DEF SaveInv, Still
  <2> QED BY <2>1, <2>4 DEF LoadInv, ExportInv, Still
<1>5. Counts'
  BY DEF Counts, Still
<1> QED BY <1>2, <1>3, <1>4, <1>5

\* The page of t changes, and its autosave, saves and export do not.
LEMMA PageOnly ==
  ASSUME DrumIInv, NEW t \in Tabs, UNCHANGED <<server, autosave, puts, export>>,
         NEW pg \in PageRecs, page' = [page EXCEPT ![t] = pg],
         pg.doc = page[t].doc, pg.made = page[t].made, pg.loads = page[t].loads,
         page[t].status # "left", pg.status # "left",
         \/ pg.gesture = page[t].gesture /\ page[t].status # "ready" /\ pg.status # "ready"
         \/ autosave[t].status = "conflict" /\ pg.status = "loading"
         \/ ~autosave[t].alive /\ page[t].status # "ready" /\ pg.status # "ready",
         pg.status = "read" => pg.answer = server
  PROVE  DrumIInv' /\ server.doc \subseteq server'.doc
<1>1. Types /\ page'[t] = pg /\ \A u \in Tabs : u # t => Still(u)
  BY DEF DrumIInv, Types, Still
<1>2. Types'
  BY <1>1 DEF Types
<1>3. SaveInv(t) /\ LoadInv(t) /\ ExportInv(t) /\ server \in Revisions /\ Counts
  BY DEF DrumIInv, Types
<1>4. SaveInv(t)'
  BY <1>1, <1>3 DEF SaveInv
<1>5. LoadInv(t)'
  BY <1>1, <1>3 DEF LoadInv, Revisions
<1>6. ExportInv(t)'
  BY <1>1, <1>3 DEF ExportInv, SaveInv
<1>7. \A p \in puts' : p.tab = t => HasSeen(p)' /\ Awaited(p)'
  <2> SUFFICES ASSUME NEW p \in puts, p.tab = t  PROVE HasSeen(p)' /\ Awaited(p)'
    OBVIOUS
  <2>1. HasSeen(p) /\ Awaited(p)
    BY DEF DrumIInv
  <2>2. HasSeen(p)'
    BY <1>1, <2>1 DEF HasSeen
  <2>3. Awaited(p)'
    BY <1>1, <1>3, <2>1 DEF Awaited, Listens, SaveInv
  <2> QED BY <2>2, <2>3
<1>8. \A p, q \in puts' : p.tab = t /\ q.tab = t /\ Listens(p)' /\ Listens(q)' => p = q
  BY DEF DrumIInv, OneAwaited, Listens
<1>9. page'[t].made \in 0..MaxEdits[t]
  BY <1>1, <1>3 DEF Counts
<1> QED BY <1>1, <1>2, <1>4, <1>5, <1>6, <1>7, <1>8, <1>9, OneTab

LEMMA LoadReadStep ==
  ASSUME DrumIInv, NEW t \in Tabs, LoadRead(t)
  PROVE  DrumIInv' /\ server.doc \subseteq server'.doc
<1> DEFINE pg == [page[t] EXCEPT !.status = "read", !.answer = server]
<1>1. Types /\ page[t] \in PageRecs /\ server \in Revisions
  BY DEF DrumIInv, Types
<1>2. /\ pg \in PageRecs /\ pg.doc = page[t].doc /\ pg.made = page[t].made
      /\ pg.loads = page[t].loads /\ pg.gesture = page[t].gesture /\ pg.status = "read"
      /\ pg.answer = server
  BY <1>1, Zenon DEF PageRecs, PageStates
<1>3. page' = [page EXCEPT ![t] = pg] /\ UNCHANGED <<server, autosave, puts, export>>
  BY <1>1, Zenon DEF LoadRead, Types
<1>4. page[t].status = "loading"
  BY DEF LoadRead
<1> HIDE DEF pg
<1> QED BY <1>2, <1>3, <1>4, PageOnly, Zenon

LEMMA LoadFailsStep ==
  ASSUME DrumIInv, NEW t \in Tabs, LoadFails(t)
  PROVE  DrumIInv' /\ server.doc \subseteq server'.doc
<1> DEFINE pg == [page[t] EXCEPT !.status = "error"]
<1>1. Types /\ page[t] \in PageRecs
  BY DEF DrumIInv, Types
<1>2. /\ pg \in PageRecs /\ pg.doc = page[t].doc /\ pg.made = page[t].made
      /\ pg.loads = page[t].loads /\ pg.gesture = page[t].gesture /\ pg.status = "error"
  BY <1>1 DEF PageRecs, PageStates
<1>3. page' = [page EXCEPT ![t] = pg] /\ UNCHANGED <<server, autosave, puts, export>>
  BY <1>1 DEF LoadFails, Types
<1>4. page[t].status \in {"loading", "read"}
  BY DEF LoadFails
<1> HIDE DEF pg
<1> QED BY <1>2, <1>3, <1>4, PageOnly, Zenon

LEMMA ReloadDocStep ==
  ASSUME DrumIInv, NEW t \in Tabs, ReloadDoc(t)
  PROVE  DrumIInv' /\ server.doc \subseteq server'.doc
<1> DEFINE pg == [page[t] EXCEPT !.status = "loading", !.gesture = FALSE]
<1>1. Types /\ page[t] \in PageRecs /\ SaveInv(t)
  BY DEF DrumIInv, Types
<1>2. /\ pg \in PageRecs /\ pg.doc = page[t].doc /\ pg.made = page[t].made
      /\ pg.loads = page[t].loads /\ pg.status = "loading"
  BY <1>1, Zenon DEF PageRecs, PageStates
<1>3. page' = [page EXCEPT ![t] = pg] /\ UNCHANGED <<server, autosave, puts, export>>
  BY <1>1, Zenon DEF ReloadDoc, Types
<1>4. /\ page[t].status # "left"
      /\ \/ autosave[t].status = "conflict"
         \/ ~autosave[t].alive /\ page[t].status # "ready"
  BY <1>1 DEF ReloadDoc, SaveInv
<1> HIDE DEF pg
<1> QED BY <1>2, <1>3, <1>4, PageOnly, Zenon

\* A new Autosave listens to no save yet.
LEMMA LoadArrivesStep ==
  ASSUME DrumIInv, NEW t \in Tabs, LoadArrives(t)
  PROVE  DrumIInv' /\ server.doc \subseteq server'.doc
<1> DEFINE r == page[t].answer
           pg == [page[t] EXCEPT !.status = "ready", !.doc = r.doc, !.loads = page[t].loads + 1,
                                 !.answer = NoAnswer]
           a == NewAutosave(page[t].loads + 1, r.rev)
<1>1. /\ Types /\ page[t] \in PageRecs /\ r \in Revisions /\ r.rev \in Nat /\ r.doc \in Docs
      /\ page[t].loads \in Nat /\ page[t].loads + 1 \in Nat
      /\ SaveInv(t) /\ LoadInv(t) /\ ExportInv(t) /\ Counts
      /\ server \in Revisions /\ server.rev \in Nat
  BY DEF DrumIInv, Types, PageRecs, Revisions
<1>2. NoAnswer \in Revisions
  BY DEF NoAnswer, Revisions, Docs
<1>3. /\ pg \in PageRecs /\ pg.doc = r.doc /\ pg.made = page[t].made
      /\ pg.loads = page[t].loads + 1 /\ pg.status = "ready"
  BY <1>1, <1>2, Zenon DEF PageRecs, PageStates
<1>4. /\ a \in Autosaves /\ a.load = page[t].loads + 1 /\ a.alive /\ a.rev = r.rev
      /\ a.pending = {} /\ ~a.inFlight /\ a.status = "idle"
  <2>1. page[t].loads + 1 \in Nat /\ r.rev \in Nat
    BY <1>1
  <2> HIDE DEF r
  <2> QED BY <2>1, NewAutosaveFields
<1>5. /\ page' = [page EXCEPT ![t] = pg] /\ autosave' = [autosave EXCEPT ![t] = a]
      /\ UNCHANGED <<server, puts, export>> /\ page[t].status = "read"
  BY <1>1, Zenon DEF LoadArrives, Types
<1> HIDE DEF a, pg
<1>6. page'[t] = pg /\ autosave'[t] = a /\ \A u \in Tabs : u # t => Still(u)
  BY <1>1, <1>5 DEF Types, Still
<1>7. Types'
  BY <1>1, <1>3, <1>4, <1>5 DEF Types
<1>8. r.rev <= server.rev /\ r.doc \subseteq server.doc /\ (r.rev = server.rev => r.doc = server.doc)
  BY <1>1, <1>5 DEF LoadInv
<1> HIDE DEF r
<1>9. SaveInv(t)'
  BY <1>1, <1>3, <1>4, <1>5, <1>6, <1>8 DEF SaveInv
<1>10. LoadInv(t)' /\ ExportInv(t)'
  BY <1>1, <1>3, <1>5, <1>6 DEF LoadInv, ExportInv
<1>11. \A p \in puts' : p.tab = t => HasSeen(p)' /\ ~Listens(p)'
  <2> SUFFICES ASSUME NEW p \in puts, p.tab = t  PROVE HasSeen(p)' /\ ~Listens(p)'
    BY <1>5
  <2>1. HasSeen(p) /\ p.load \in Nat
    BY <1>1 DEF DrumIInv, Types, Puts
  <2>2. p.load <= page[t].loads
    BY <2>1 DEF HasSeen
  <2>3. p.load # a.load /\ p.load <= pg.loads
    BY <1>1, <1>3, <1>4, <2>1, <2>2
  <2> QED BY <1>5, <1>6, <2>1, <2>3 DEF HasSeen, Listens
<1>12. page'[t].made \in 0..MaxEdits[t]
  BY <1>1, <1>3, <1>6 DEF Counts
<1> QED BY <1>5, <1>6, <1>7, <1>9, <1>10, <1>11, <1>12, OneTab DEF Awaited

-----------------------------------------------------------------------------
(* Edits *)

\* The page shows more; a gesture goes on, or the document is pushed.
LEMMA EditOnly ==
  ASSUME DrumIInv, NEW t \in Tabs, UNCHANGED <<server, puts, export>>,
         page[t].status = "ready",
         NEW doc \in Docs, page[t].doc \subseteq doc,
         NEW pg \in PageRecs, page' = [page EXCEPT ![t] = pg],
         pg.status = "ready", pg.doc = doc, pg.loads = page[t].loads, pg.made \in 0..MaxEdits[t],
         NEW a \in Autosaves, autosave' = [autosave EXCEPT ![t] = a],
         \/ pg.gesture = TRUE /\ a = autosave[t]
         \/ pg.gesture = FALSE /\ a = Updated(autosave[t], doc)
  PROVE  DrumIInv' /\ server.doc \subseteq server'.doc
<1> DEFINE b == autosave[t]
<1>1. /\ Types /\ b \in Autosaves /\ SaveInv(t) /\ LoadInv(t) /\ ExportInv(t)
      /\ server \in Revisions /\ server.rev \in Nat
  BY DEF DrumIInv, Types, Revisions
<1>2. page'[t] = pg /\ autosave'[t] = a /\ \A u \in Tabs : u # t => Still(u)
  BY <1>1 DEF Types, Still
<1>3. Types'
  BY <1>1 DEF Types
<1>4. /\ a.load = b.load /\ a.alive = b.alive /\ a.rev = b.rev /\ a.inFlight = b.inFlight
      /\ \/ a = b /\ (pg.gesture \/ ~b.alive \/ b.status = "conflict")
         \/ /\ b.alive /\ b.status # "conflict" /\ a.pending = {doc}
            /\ a.status \in {"saving", "pending"}
  BY <1>1, UpdatedFields
<1>5. b.alive /\ page[t].doc \subseteq doc
  BY <1>1 DEF SaveInv
<1>6. SaveInv(t)'
  <2>1. CASE a = b /\ (pg.gesture \/ b.status = "conflict")
    BY <1>1, <1>2, <1>5, <2>1 DEF SaveInv
  <2>2. CASE a.pending = {doc} /\ a.status \in {"saving", "pending"} /\ b.status # "conflict"
    <3>1. /\ b.load = page[t].loads /\ b.rev <= server.rev /\ b.load > 0
          /\ b.rev = server.rev => server.doc \subseteq doc
          /\ b.inFlight => \E p \in puts : p.tab = t /\ p.load = b.load
      BY <1>1, <1>5 DEF SaveInv
    <3>2. /\ a.load = b.load /\ a.alive /\ a.rev = b.rev /\ a.inFlight = b.inFlight
      BY <1>4, <1>5
    <3> QED BY <1>2, <2>2, <3>1, <3>2 DEF SaveInv
  <2> QED BY <1>4, <1>5, <2>1, <2>2
<1>7. LoadInv(t)'
  BY <1>2 DEF LoadInv
<1>8. ExportInv(t)'
  BY <1>1, <1>2, <1>4, <1>5, ZenonT(60) DEF ExportInv
<1>9. \A p \in puts' : p.tab = t => HasSeen(p)' /\ Awaited(p)'
  <2> SUFFICES ASSUME NEW p \in puts, p.tab = t  PROVE HasSeen(p)' /\ Awaited(p)'
    OBVIOUS
  <2>1. HasSeen(p) /\ Awaited(p)
    BY DEF DrumIInv
  <2>2. HasSeen(p)'
    BY <1>2, <2>1 DEF HasSeen
  <2>3. SUFFICES ASSUME Listens(p)'  PROVE Awaited(p)'
    BY <2>2 DEF Awaited
  <2>4. Listens(p)
    BY <1>2, <1>4, <2>3 DEF Listens
  <2>5. b.inFlight /\ b.status # "conflict" /\ p.base = b.rev /\ p.doc \subseteq page[t].doc
    BY <1>1, <2>1, <2>4 DEF Awaited, SaveInv
  <2>6. CASE a = b /\ pg.gesture
    BY <1>2, <1>5, <2>1, <2>4, <2>6 DEF Awaited
  <2>7. CASE a.pending = {doc}
    BY <1>2, <1>4, <1>5, <2>5, <2>7, ZenonT(60) DEF Awaited
  <2> QED BY <1>4, <1>5, <2>5, <2>6, <2>7
<1>10. \A p, q \in puts' : p.tab = t /\ q.tab = t /\ Listens(p)' /\ Listens(q)' => p = q
  BY <1>2, <1>4 DEF DrumIInv, OneAwaited, Listens
<1> QED BY <1>2, <1>3, <1>6, <1>7, <1>8, <1>9, <1>10, OneTab

LEMMA ChangeStep ==
  ASSUME DrumIInv, NEW t \in Tabs, NEW gesture \in BOOLEAN, Change(t, gesture)
  PROVE  DrumIInv' /\ server.doc \subseteq server'.doc
<1> DEFINE m == page[t].made + 1
           doc == page[t].doc \cup {<<t, m>>}
           pg == [page[t] EXCEPT !.doc = doc, !.made = m, !.gesture = gesture]
           a == IF gesture THEN autosave[t] ELSE Updated(autosave[t], doc)
<1>1. Types /\ page[t] \in PageRecs /\ autosave[t] \in Autosaves /\ Counts
  BY DEF DrumIInv, Types
<1>2. page[t].made \in 0..MaxEdits[t] /\ page[t].made < MaxEdits[t] /\ MaxEdits[t] \in Nat
  BY <1>1, DrumTabsAssumption DEF Counts, Change
<1>3. m \in 1..MaxEdits[t] /\ m \in 0..MaxEdits[t] /\ m \in Nat
  BY <1>2
<1>4. doc \in Docs
  <2> HIDE DEF m
  <2>1. <<t, m>> \in Edits
    BY <1>3 DEF Edits
  <2> QED BY <1>1, <2>1 DEF Docs, PageRecs
<1> HIDE DEF m
<1>5. /\ page[t].status = "ready" /\ page' = [page EXCEPT ![t] = pg]
      /\ autosave' = [autosave EXCEPT ![t] = a] /\ UNCHANGED <<server, puts, export>>
  BY <1>1, Zenon DEF Change, Types, m
<1>6. page[t].doc \subseteq doc
  OBVIOUS
<1> HIDE DEF doc
<1>7. /\ pg \in PageRecs /\ pg.doc = doc /\ pg.made = m /\ pg.loads = page[t].loads
      /\ pg.status = page[t].status /\ pg.gesture = gesture
  BY <1>1, <1>3, <1>4, Zenon DEF PageRecs
<1>8. a \in Autosaves /\ (gesture => a = autosave[t]) /\ (~gesture => a = Updated(autosave[t], doc))
  BY <1>1, <1>4, UpdatedFields
<1> HIDE DEF pg, a
<1> QED BY <1>3, <1>4, <1>5, <1>6, <1>7, <1>8, EditOnly, Zenon

LEMMA DropStep ==
  ASSUME DrumIInv, NEW t \in Tabs, Drop(t)
  PROVE  DrumIInv' /\ server.doc \subseteq server'.doc
<1> DEFINE pg == [page[t] EXCEPT !.gesture = FALSE]
           a == Updated(autosave[t], page[t].doc)
<1>1. Types /\ page[t] \in PageRecs /\ autosave[t] \in Autosaves /\ Counts
  BY DEF DrumIInv, Types
<1>2. page[t].doc \in Docs /\ page[t].made \in 0..MaxEdits[t]
  BY <1>1 DEF PageRecs, Counts
<1>3. /\ page[t].status = "ready" /\ page' = [page EXCEPT ![t] = pg]
      /\ autosave' = [autosave EXCEPT ![t] = a] /\ UNCHANGED <<server, puts, export>>
  BY <1>1 DEF Drop, Types
<1>4. /\ pg \in PageRecs /\ pg.doc = page[t].doc /\ pg.made = page[t].made
      /\ pg.loads = page[t].loads /\ pg.status = page[t].status /\ pg.gesture = FALSE
  BY <1>1, Zenon DEF PageRecs
<1>5. a \in Autosaves
  BY <1>1, <1>2, UpdatedFields
<1> HIDE DEF pg
<1> QED BY <1>2, <1>3, <1>4, <1>5, EditOnly, Zenon

-----------------------------------------------------------------------------
(* Saves and exports *)

\* A save starts from the Autosave of t when it can; the export of t waits for
\* it only with the edits it was asked for with.
LEMMA SaveStarts ==
  ASSUME DrumIInv, NEW t \in Tabs, UNCHANGED <<server, page>>, page[t].status # "left",
         autosave' = [autosave EXCEPT ![t] = Started(NoTimer(autosave[t]))],
         puts' = puts \cup Request(t, NoTimer(autosave[t])),
         NEW x \in Exports, export' = [export EXCEPT ![t] = x],
         x.step = "flushing" =>
           /\ page[t].status = "ready" /\ autosave'[t].alive /\ autosave'[t].inFlight
           /\ x = export[t] \/ (x.asked = page[t].doc /\ ~page[t].gesture),
         x.step \in {"checking", "posting"} =>
           /\ x.rev <= server.rev
           /\ x.rev = server.rev => x.asked \subseteq server.doc
  PROVE  DrumIInv' /\ server.doc \subseteq server'.doc
<1> DEFINE b == autosave[t]  n == NoTimer(b)  a == Started(n)  new == Request(t, n)  pg == page[t]
<1>1. /\ Types /\ b \in Autosaves /\ SaveInv(t) /\ LoadInv(t) /\ ExportInv(t)
      /\ server \in Revisions /\ server.rev \in Nat
  BY DEF DrumIInv, Types, Revisions
<1>2. /\ n \in Autosaves /\ n.load = b.load /\ n.alive = b.alive /\ n.rev = b.rev
      /\ n.status = b.status /\ n.pending = b.pending /\ n.inFlight = b.inFlight
  BY <1>1, NoTimerFields
<1> HIDE DEF n
<1>3. /\ a \in Autosaves /\ a.load = b.load /\ a.alive = b.alive /\ a.rev = b.rev
      /\ CanStart(n) => a.pending = {} /\ a.inFlight /\ a.status = "saving"
      /\ ~CanStart(n) => a = n
  BY <1>2, StartedFields
<1>4. CanStart(n) <=> b.alive /\ ~b.inFlight /\ b.pending # {}
  BY <1>2 DEF CanStart
<1>5. /\ new \subseteq Puts
      /\ \A p \in new : /\ p.tab = t /\ p.load = b.load /\ p.base = b.rev /\ p.doc \in b.pending
                       /\ p.answer = "none"
      /\ CanStart(n) => new # {}
      /\ ~CanStart(n) => new = {}
      /\ \A p, q \in new : p = q
  <2>1. \A d, e \in n.pending : d = e
    BY <1>1, <1>2 DEF SaveInv
  <2> QED BY <1>2, <2>1, RequestPut
<1>6. /\ autosave'[t] = a /\ page'[t] = page[t] /\ export'[t] = x /\ puts' = puts \cup new
      /\ \A u \in Tabs : u # t => Still(u)
  BY <1>1 DEF Types, Still, n
<1> HIDE DEF a, new
<1>7. Types'
  <2>1. autosave' \in [Tabs -> Autosaves] /\ export' \in [Tabs -> Exports]
    BY <1>1, <1>3 DEF Types, n, a
  <2>2. puts' \subseteq Puts
    BY <1>1, <1>5, <1>6 DEF Types
  <2> QED BY <1>1, <2>1, <2>2 DEF Types
<1>8. SaveInv(t)'
  <2>1. CASE CanStart(n)
    <3>1. \E p \in puts' : p.tab = t /\ p.load = a.load
      BY <1>3, <1>5, <1>6, <2>1
    <3> QED BY <1>1, <1>3, <1>4, <1>6, <2>1, <3>1 DEF SaveInv
  <2>2. CASE ~CanStart(n)
    <3>1. a.inFlight /\ a.alive => \E p \in puts' : p.tab = t /\ p.load = a.load
      BY <1>1, <1>2, <1>3, <1>6, <2>2 DEF SaveInv
    <3> QED BY <1>1, <1>2, <1>3, <1>6, <2>2, <3>1 DEF SaveInv
  <2> QED BY <2>1, <2>2
<1>9. \A p \in puts : p.tab = t /\ Listens(p)' => Listens(p) /\ ~CanStart(n)
  <2> SUFFICES ASSUME NEW p \in puts, p.tab = t, Listens(p)'  PROVE Listens(p) /\ ~CanStart(n)
    OBVIOUS
  <2>1. Listens(p)
    BY <1>3, <1>6 DEF Listens
  <2>2. b.inFlight
    BY <2>1 DEF DrumIInv, Awaited
  <2> QED BY <1>4, <2>1, <2>2
<1>10. \A d \in b.pending : ~pg.gesture => pg.doc \subseteq d
  BY <1>1 DEF SaveInv
<1>11. \A p \in puts' : p.tab = t => HasSeen(p)' /\ Awaited(p)'
  <2> SUFFICES ASSUME NEW p \in puts', p.tab = t  PROVE HasSeen(p)' /\ Awaited(p)'
    OBVIOUS
  <2>1. CASE p \in new
    <3>1. /\ p.load = b.load /\ p.base = b.rev /\ p.doc \in b.pending /\ p.answer = "none"
          /\ CanStart(n)
      BY <1>5, <2>1
    <3>2. HasSeen(p)'
      <4>1. pg.loads \in Nat /\ b.load = pg.loads /\ b.rev <= server.rev
        BY <1>1 DEF Types, PageRecs, SaveInv
      <4>2. b.rev = server.rev => server.doc \subseteq p.doc
        BY <1>1, <1>4, <3>1 DEF SaveInv
      <4> QED BY <1>6, <3>1, <4>1, <4>2 DEF HasSeen
    <3>3. x.step = "flushing" => x.asked \subseteq p.doc
      BY <1>1, <1>10, <3>1 DEF ExportInv
    <3>4. Awaited(p)'
      BY <1>1, <1>3, <1>6, <1>10, <3>1, <3>3 DEF Awaited, SaveInv
    <3> QED BY <3>2, <3>4
  <2>2. CASE p \in puts
    <3>1. HasSeen(p) /\ Awaited(p)
      BY <2>2 DEF DrumIInv
    <3>2. HasSeen(p)'
      BY <1>6, <3>1 DEF HasSeen
    <3>3. SUFFICES ASSUME Listens(p)'  PROVE Awaited(p)'
      BY <3>2 DEF Awaited
    <3>4. Listens(p) /\ ~CanStart(n) /\ a = n
      BY <1>3, <1>9, <2>2, <3>3
    <3>5. x.step = "flushing" /\ b.pending = {} => x.asked \subseteq p.doc
      BY <3>1, <3>4 DEF Awaited
    <3> QED BY <1>2, <1>6, <3>1, <3>4, <3>5 DEF Awaited
  <2> QED BY <1>6, <2>1, <2>2
<1>12. \A p, q \in puts' : p.tab = t /\ q.tab = t /\ Listens(p)' /\ Listens(q)' => p = q
  BY <1>5, <1>6, <1>9 DEF DrumIInv, OneAwaited
<1>13. LoadInv(t)'
  BY <1>1, <1>6 DEF LoadInv
<1>14. ExportInv(t)'
  <2>1. a.pending = {} \/ a.pending = b.pending
    BY <1>2, <1>3
  <2>2. x.step = "flushing" => x.asked \subseteq pg.doc /\ \A d \in a.pending : x.asked \subseteq d
    BY <1>1, <1>10, <2>1 DEF ExportInv
  <2> QED BY <1>6, <2>2 DEF ExportInv
<1>15. page'[t].made \in 0..MaxEdits[t]
  BY <1>6 DEF DrumIInv, Counts
<1>16. \A p : p.tab # t => (p \in puts <=> p \in puts')
  BY <1>5, <1>6
<1> QED BY <1>6, <1>7, <1>8, <1>11, <1>12, <1>13, <1>14, <1>15, <1>16, OneTab

\* An export that does not wait, or whose save is still under way, is as it was.
LEMMA SaveOnly ==
  ASSUME DrumIInv, NEW t \in Tabs, Debounce(t) \/ Hide(t)
  PROVE  DrumIInv' /\ server.doc \subseteq server'.doc
<1> DEFINE x == export[t]  a == Started(NoTimer(autosave[t]))
<1>1. Types /\ x \in Exports /\ autosave[t] \in Autosaves /\ SaveInv(t) /\ ExportInv(t)
  BY DEF DrumIInv, Types
<1>2. /\ autosave' = [autosave EXCEPT ![t] = a] /\ puts' = puts \cup Request(t, NoTimer(autosave[t]))
      /\ UNCHANGED <<server, page, export>>
  BY Zenon DEF Debounce, Hide, Saves
<1>3. /\ a.alive = autosave[t].alive /\ (autosave[t].inFlight => a.inFlight)
      /\ autosave'[t] = a
  BY <1>1, <1>2, NoTimerFields, StartedFields DEF Types
<1>4. page[t].status # "left"
  BY <1>1 DEF Debounce, Hide, SaveInv
<1>5. export' = [export EXCEPT ![t] = x]
  BY <1>1, <1>2 DEF Types
<1> HIDE DEF a
<1> QED BY <1>1, <1>2, <1>3, <1>4, <1>5, SaveStarts, Zenon DEF ExportInv, a

-----------------------------------------------------------------------------
(* Exports *)

LEMMA OverFields ==
  ASSUME NEW x \in Exports
  PROVE  Over(x) \in Exports /\ Over(x).step = "none"
<1>1. NoExport \in Exports /\ NoExport.step = "none"
  BY DEF NoExport, Exports, ExportSteps, Docs
<1> DEFINE e == NoExport
<1>2. e \in Exports /\ e.step = "none" /\ x.count \in Nat
  BY <1>1 DEF Exports
<1>3. Over(x) = [e EXCEPT !.count = x.count]
  BY DEF Over
<1> HIDE DEF e
<1> QED BY <1>2, <1>3 DEF Exports

LEMMA GoesOnFields ==
  ASSUME NEW x \in Exports, NEW a \in Autosaves
  PROVE  /\ ExportGoesOn(x, a) \in Exports
         /\ x.step # "flushing" \/ (a.inFlight /\ a.alive) => ExportGoesOn(x, a) = x
         /\ x.step = "flushing" /\ ~(a.inFlight /\ a.alive) =>
              \/ ExportGoesOn(x, a).step = "none"
              \/ /\ ExportGoesOn(x, a).step = "checking" /\ a.status \notin {"conflict", "error"}
                 /\ ExportGoesOn(x, a).rev = a.rev /\ ExportGoesOn(x, a).asked = x.asked
<1> DEFINE y == [x EXCEPT !.step = "checking", !.rev = a.rev]
<1>1. y \in Exports /\ y.step = "checking" /\ y.rev = a.rev /\ y.asked = x.asked
  BY Zenon DEF Exports, ExportSteps, Autosaves
<1>2. Over(x) \in Exports /\ Over(x).step = "none"
  BY OverFields
<1>3. ExportGoesOn(x, a) = IF x.step # "flushing" \/ (a.inFlight /\ a.alive) THEN x
                           ELSE IF a.status \in {"conflict", "error"} THEN Over(x) ELSE y
  BY DEF ExportGoesOn
<1> HIDE DEF y
<1> QED BY <1>1, <1>2, <1>3

\* What is asked for is on its way to the server, or there already.
LEMMA AskExportStep ==
  ASSUME DrumIInv, NEW t \in Tabs, AskExport(t)
  PROVE  DrumIInv' /\ server.doc \subseteq server'.doc
<1> DEFINE b == autosave[t]  n == NoTimer(b)  a == Started(n)  pg == page[t]
           asked == [step |-> "flushing", asked |-> pg.doc, rev |-> 0, count |-> export[t].count + 1]
           x == ExportGoesOn(asked, a)
<1>1. /\ Types /\ b \in Autosaves /\ SaveInv(t) /\ pg \in PageRecs /\ export[t] \in Exports
  BY DEF DrumIInv, Types
<1>2. asked \in Exports /\ asked.step = "flushing" /\ asked.asked = pg.doc
  BY <1>1 DEF Exports, ExportSteps, PageRecs
<1> HIDE DEF asked
<1>3. /\ n \in Autosaves /\ n.load = b.load /\ n.alive = b.alive /\ n.rev = b.rev
      /\ n.status = b.status /\ n.pending = b.pending /\ n.inFlight = b.inFlight
  BY <1>1, NoTimerFields
<1> HIDE DEF n
<1>4. /\ a \in Autosaves /\ a.alive = b.alive /\ a.rev = b.rev
      /\ CanStart(n) => a.inFlight
      /\ ~CanStart(n) => a = n
      /\ CanStart(n) <=> b.alive /\ ~b.inFlight /\ b.pending # {}
  BY <1>3, StartedFields DEF CanStart
<1>5. /\ pg.status = "ready" /\ b.status # "conflict" /\ ~pg.gesture
      /\ autosave' = [autosave EXCEPT ![t] = a] /\ puts' = puts \cup Request(t, n)
      /\ UNCHANGED <<server, page>>
      /\ export' = [export EXCEPT ![t] = ExportGoesOn(asked, autosave'[t])]
  BY DEF AskExport, ExportOffered, Saves, n, asked
<1>6. autosave'[t] = a
  BY <1>1, <1>5 DEF Types
<1> HIDE DEF a
<1>7. export' = [export EXCEPT ![t] = x] /\ x \in Exports
  BY <1>2, <1>4, <1>5, <1>6, GoesOnFields, Zenon
<1>8. b.alive /\ a.alive
  BY <1>1, <1>4, <1>5 DEF SaveInv
<1>9. /\ x.step = "flushing" => a.inFlight /\ x = asked
      /\ x.step \in {"checking", "posting"} =>
           ~a.inFlight /\ b.status # "error" /\ x.rev = b.rev /\ x.asked = pg.doc
  BY <1>2, <1>3, <1>4, <1>8, GoesOnFields
<1> HIDE DEF x
<1>10. x.step \in {"checking", "posting"} => x.rev <= server.rev /\ x.asked \subseteq server.doc
  <2> SUFFICES ASSUME x.step \in {"checking", "posting"}
               PROVE  x.rev <= server.rev /\ x.asked \subseteq server.doc
    OBVIOUS
  <2>1. ~b.inFlight /\ b.pending = {}
    BY <1>3, <1>4, <1>8, <1>9
  <2> QED BY <1>1, <1>5, <1>8, <1>9, <2>1 DEF SaveInv
<1>11. x.step = "flushing" => /\ page[t].status = "ready" /\ autosave'[t].alive /\ autosave'[t].inFlight
                              /\ x.asked = page[t].doc /\ ~page[t].gesture
  BY <1>2, <1>5, <1>6, <1>8, <1>9
<1>12. /\ UNCHANGED <<server, page>> /\ page[t].status # "left"
       /\ autosave' = [autosave EXCEPT ![t] = Started(NoTimer(autosave[t]))]
       /\ puts' = puts \cup Request(t, NoTimer(autosave[t]))
  BY <1>5 DEF a, n
<1> HIDE DEF b, pg
<1> QED BY <1>7, <1>10, <1>11, <1>12, SaveStarts, Zenon

\* The export of t goes on, with what it was asked for with, or is over.
LEMMA ExportOnly ==
  ASSUME DrumIInv, NEW t \in Tabs, UNCHANGED <<server, page, autosave, puts>>,
         NEW x \in Exports, export' = [export EXCEPT ![t] = x],
         \/ x.step = "none"
         \/ x.step = "posting" /\ export[t].step = "checking"
            /\ x.rev = export[t].rev /\ x.asked = export[t].asked
  PROVE  DrumIInv' /\ server.doc \subseteq server'.doc
<1>1. Types /\ export'[t] = x /\ \A u \in Tabs : u # t => Still(u)
  BY DEF DrumIInv, Types, Still
<1>2. Types'
  BY <1>1 DEF Types
<1>3. SaveInv(t)' /\ LoadInv(t)'
  BY DEF DrumIInv, SaveInv, LoadInv
<1>4. ExportInv(t)'
  BY <1>1 DEF DrumIInv, ExportInv
<1>5. \A p \in puts' : p.tab = t => HasSeen(p)' /\ Awaited(p)'
  <2> SUFFICES ASSUME NEW p \in puts, p.tab = t  PROVE HasSeen(p)' /\ Awaited(p)'
    OBVIOUS
  <2>1. HasSeen(p) /\ Awaited(p)
    BY DEF DrumIInv
  <2> QED BY <1>1, <2>1 DEF HasSeen, Awaited, Listens
<1>6. \A p, q \in puts' : p.tab = t /\ q.tab = t /\ Listens(p)' /\ Listens(q)' => p = q
  BY DEF DrumIInv, OneAwaited, Listens
<1>7. page'[t].made \in 0..MaxEdits[t]
  BY DEF DrumIInv, Counts
<1> QED BY <1>1, <1>2, <1>3, <1>4, <1>5, <1>6, <1>7, OneTab

LEMMA ExportStep ==
  ASSUME DrumIInv, NEW t \in Tabs, CheckExport(t) \/ PostExport(t)
  PROVE  DrumIInv' /\ server.doc \subseteq server'.doc
<1> DEFINE o == export[t]  y == [o EXCEPT !.step = "posting"]
           x == IF CheckExport(t) /\ server.rev = o.rev THEN y ELSE Over(o)
<1>1. o \in Exports
  BY DEF DrumIInv, Types
<1> HIDE DEF o
<1>2. /\ y \in Exports /\ y.step = "posting" /\ y.rev = o.rev /\ y.asked = o.asked
      /\ Over(o) \in Exports /\ Over(o).step = "none"
  BY <1>1, OverFields DEF Exports, ExportSteps
<1> HIDE DEF y
<1>3. /\ UNCHANGED <<server, page, autosave, puts>> /\ export' = [export EXCEPT ![t] = x]
  BY DEF DrumIInv, Types, CheckExport, PostExport, o, y
<1>4. x = y => o.step = "checking"
  <2>1. CASE CheckExport(t)
    BY <2>1 DEF CheckExport, o
  <2>2. CASE ~CheckExport(t)
    BY <1>2, <2>2
  <2> QED BY <2>1, <2>2
<1>5. x = y \/ x = Over(o)
  OBVIOUS
<1> HIDE DEF x
<1> QED BY <1>2, <1>3, <1>4, <1>5, ExportOnly, Zenon DEF o

-----------------------------------------------------------------------------
(* Leaving *)

\* The editor that is left listens to nothing more; its last save has seen the
\* server's document when it started.
LEMMA LeaveStep ==
  ASSUME DrumIInv, NEW t \in Tabs, Leave(t)
  PROVE  DrumIInv' /\ server.doc \subseteq server'.doc
<1> DEFINE b == autosave[t]  n == NoTimer(b)  c == Started(n)  a == Disposed(c)
           new == Request(t, n)  pg == [page[t] EXCEPT !.status = "left"]
           x == ExportGoesOn(export[t], a)
<1>1. /\ Types /\ b \in Autosaves /\ SaveInv(t) /\ ExportInv(t) /\ Counts
      /\ page[t] \in PageRecs /\ export[t] \in Exports /\ server \in Revisions /\ server.rev \in Nat
  BY DEF DrumIInv, Types, Revisions
<1>2. /\ n \in Autosaves /\ n.load = b.load /\ n.alive = b.alive /\ n.rev = b.rev
      /\ n.pending = b.pending
  BY <1>1, NoTimerFields
<1>3. /\ page' = [page EXCEPT ![t] = pg] /\ puts' = puts \cup new
      /\ autosave' = [autosave EXCEPT ![t] = a] /\ UNCHANGED server
      /\ export' = [export EXCEPT ![t] = ExportGoesOn(export[t], autosave'[t])]
  BY <1>1 DEF Leave, Types
<1> HIDE DEF n
<1>4. c \in Autosaves /\ c.load = b.load /\ c.rev = b.rev /\ (c.status = "saving" \/ c = n)
  BY <1>2, StartedFields
<1> HIDE DEF c
<1>5. a \in Autosaves /\ a.load = b.load /\ ~a.alive /\ a.rev = b.rev /\ a.pending = {}
      /\ a.inFlight = c.inFlight /\ a.status = c.status
  BY <1>4, DisposedFields
<1>6. /\ pg \in PageRecs /\ pg.doc = page[t].doc /\ pg.made = page[t].made
      /\ pg.loads = page[t].loads /\ pg.status = "left" /\ pg.gesture = page[t].gesture
  BY <1>1 DEF PageRecs, PageStates
<1> HIDE DEF pg
<1>7. /\ new \subseteq Puts
      /\ \A p \in new : /\ p.tab = t /\ p.load = b.load /\ p.base = b.rev /\ p.doc \in b.pending
                        /\ p.answer = "none" /\ b.alive
  BY <1>2, RequestPut DEF CanStart
<1> HIDE DEF new, a
<1>8. autosave'[t] = a /\ export'[t] = x /\ export' = [export EXCEPT ![t] = x] /\ page'[t] = pg
      /\ \A u \in Tabs : u # t => Still(u)
  BY <1>1, <1>3 DEF Types, Still
<1>9. /\ x \in Exports /\ x.step # "flushing"
      /\ x = export[t] \/ x.step = "none" \/ (x.step = "checking" /\ x.rev = b.rev)
  BY <1>1, <1>5, GoesOnFields
<1> HIDE DEF x
<1>10. Types'
  <2>1. puts' \subseteq Puts
    BY <1>1, <1>3, <1>7 DEF Types
  <2> QED BY <1>1, <1>3, <1>5, <1>6, <1>8, <1>9, <2>1 DEF Types
<1>11. b.status = "conflict" => ~b.inFlight
  BY <1>1 DEF SaveInv
<1>12. SaveInv(t)'
  <2>1. a.status = "conflict" => ~a.inFlight
    BY <1>1, <1>2, <1>4, <1>5, <1>11, NoTimerFields, ZenonT(60) DEF n
  <2> QED BY <1>1, <1>3, <1>5, <1>6, <1>8, <2>1 DEF SaveInv
<1>13. LoadInv(t)' /\ ExportInv(t)'
  BY <1>1, <1>3, <1>6, <1>8, <1>9 DEF LoadInv, ExportInv, SaveInv
<1>14. \A p \in puts' : p.tab = t => HasSeen(p)' /\ ~Listens(p)'
  <2> SUFFICES ASSUME NEW p \in puts', p.tab = t  PROVE HasSeen(p)'
    BY <1>5, <1>8 DEF Listens
  <2>1. CASE p \in puts
    <3>1. HasSeen(p)
      BY <2>1 DEF DrumIInv
    <3> QED BY <1>3, <1>6, <1>8, <3>1 DEF HasSeen
  <2>2. CASE p \in new
    <3>1. /\ p.load = b.load /\ p.base = b.rev /\ p.doc \in b.pending /\ p.answer = "none"
          /\ b.alive
      BY <1>7, <2>2
    <3>2. pg.loads \in Nat /\ b.load = pg.loads /\ b.rev <= server.rev
      BY <1>1, <1>6 DEF PageRecs, SaveInv
    <3>3. b.rev = server.rev => server.doc \subseteq p.doc
      BY <1>1, <3>1 DEF SaveInv
    <3> QED BY <1>3, <1>6, <1>8, <3>1, <3>2, <3>3 DEF HasSeen
  <2> QED BY <1>3, <2>1, <2>2
<1>15. page'[t].made \in 0..MaxEdits[t]
  BY <1>1, <1>6, <1>8 DEF Counts
<1>16. \A p : p.tab # t => (p \in puts <=> p \in puts')
  BY <1>3, <1>7
<1> QED BY <1>3, <1>8, <1>10, <1>12, <1>13, <1>14, <1>15, <1>16, OneTab DEF Awaited

-----------------------------------------------------------------------------
(* The server *)

\* p is answered: q takes its place, and the document stays or becomes that of p.
LEMMA Answer ==
  ASSUME DrumIInv, NEW p \in puts, NEW q \in Puts,
         puts' = (puts \ {p}) \cup {q}, UNCHANGED <<page, autosave, export>>,
         q.tab = p.tab, q.load = p.load, q.base = p.base, q.doc = p.doc, HasSeen(q)',
         server' \in Revisions, server.doc \subseteq server'.doc,
         \/ server' = server
         \/ server'.rev = server.rev + 1
  PROVE  DrumIInv' /\ server.doc \subseteq server'.doc
<1>1. /\ Types /\ OneAwaited /\ server.rev \in Nat /\ server'.rev \in Nat
      /\ server.rev <= server'.rev /\ Awaited(p)
      /\ server'.rev = server.rev => server' = server
  BY DEF DrumIInv, Types, Revisions
<1>2. Types'
  BY <1>1 DEF Types
<1>3. \A r \in Puts : r.base \in Nat /\ r.load \in Nat /\ r.rev \in Nat
  BY DEF Puts
<1>4. ASSUME NEW r \in puts', r # q  PROVE HasSeen(r)' /\ Awaited(r)'
  <2>1. HasSeen(r) /\ Awaited(r) /\ r \in Puts
    BY <1>1, <1>4 DEF DrumIInv, Types
  <2>2. HasSeen(r)'
    BY <1>1, <1>3, <2>1 DEF HasSeen
  <2> QED BY <2>1, <2>2 DEF Awaited, Listens
<1>5. Awaited(q)'
  BY <1>1 DEF Awaited, Listens
<1>6. OneAwaited'
  <2>1. ASSUME NEW r \in puts \ {p}  PROVE ~(Listens(r)' /\ Listens(q)' /\ r.tab = q.tab)
    BY <1>1 DEF OneAwaited, Listens
  <2>2. ASSUME NEW r \in puts \ {p}, NEW w \in puts \ {p}, Listens(r)', Listens(w)', r.tab = w.tab
        PROVE  r = w
    BY <1>1, <2>2 DEF OneAwaited, Listens
  <2> QED BY <2>1, <2>2 DEF OneAwaited
<1>7. ASSUME NEW t \in Tabs  PROVE SaveInv(t)' /\ LoadInv(t)' /\ ExportInv(t)'
  <2>1. SaveInv(t) /\ LoadInv(t) /\ ExportInv(t)
    BY DEF DrumIInv
  <2>2. /\ page[t].answer.rev \in Nat /\ autosave[t].rev \in Nat /\ export[t].rev \in Nat
    BY <1>1 DEF Types, PageRecs, Revisions, Autosaves, Exports
  <2>3. (\E r \in puts : r.tab = t /\ r.load = autosave[t].load)
          => \E r \in puts' : r.tab = t /\ r.load = autosave'[t].load
    OBVIOUS
  <2>4. autosave[t].rev = server'.rev => server' = server
    BY <1>1, <2>1, <2>2 DEF SaveInv
  <2>5. SaveInv(t)'
    BY <1>1, <2>1, <2>2, <2>3, <2>4 DEF SaveInv
  <2>6. LoadInv(t)'
    BY <1>1, <2>1, <2>2 DEF LoadInv
  <2>7. ExportInv(t)'
    BY <1>1, <2>1, <2>2 DEF ExportInv
  <2> QED BY <2>5, <2>6, <2>7
<1>8. Counts'
  BY DEF DrumIInv, Counts
<1> QED BY <1>2, <1>4, <1>5, <1>6, <1>7, <1>8 DEF DrumIInv

\* What is accepted has seen the whole document.
LEMMA ServeStep ==
  ASSUME DrumIInv, NEW p \in puts, Serve(p)
  PROVE  DrumIInv' /\ server.doc \subseteq server'.doc
<1>0. PICK n \in Nat : n = server.rev + 1
  BY DEF DrumIInv, Types, Revisions
<1> DEFINE q == [p EXCEPT !.answer = "saved", !.rev = n]
           r == [p EXCEPT !.answer = "conflict"]
           w == [rev |-> n, doc |-> p.doc]
<1>1. /\ Types /\ p \in Puts /\ HasSeen(p) /\ server.rev \in Nat /\ p.base \in Nat
      /\ p.tab \in Tabs /\ page[p.tab].loads \in Nat /\ p.load \in Nat /\ server \in Revisions
  BY DEF DrumIInv, Types, Revisions, Puts, PageRecs
<1>2. p.answer = "none" /\ UNCHANGED <<page, autosave, export>>
  BY DEF Serve
<1>3. /\ q \in Puts /\ q.tab = p.tab /\ q.load = p.load /\ q.base = p.base /\ q.doc = p.doc
      /\ q.answer = "saved" /\ q.rev = n
  BY <1>1, Zenon DEF Puts, Answers
<1>4. /\ r \in Puts /\ r.tab = p.tab /\ r.load = p.load /\ r.base = p.base /\ r.doc = p.doc
      /\ r.answer = "conflict"
  BY <1>1 DEF Puts, Answers
<1>5. w \in Revisions /\ w.rev = n /\ w.doc = p.doc
  BY <1>1 DEF Revisions, Puts
<1>6. CASE Accepts(p)
  <2>1. server' = w /\ puts' = (puts \ {p}) \cup {q}
    BY <1>0, <1>6 DEF Serve
  <2>2. p.base = server.rev
    BY <1>6 DEF Accepts
  <2> HIDE DEF q, r, w
  <2>3. server.doc \subseteq server'.doc
    BY <1>1, <1>2, <1>5, <2>1, <2>2 DEF HasSeen
  <2>4. q.base < q.rev /\ q.rev <= server'.rev /\ q.base <= server'.rev
    BY <1>0, <1>1, <1>3, <1>5, <2>1, <2>2
  <2>5. /\ server'.rev = server.rev + 1 /\ server' \in Revisions /\ q.doc = server'.doc
        /\ q.load <= page'[q.tab].loads
    BY <1>0, <1>1, <1>2, <1>3, <1>5, <2>1 DEF HasSeen
  <2>6. HasSeen(q)'
    BY <1>3, <2>4, <2>5 DEF HasSeen
  <2> QED BY <1>2, <1>3, <2>1, <2>3, <2>5, <2>6, Answer, Zenon
<1>7. CASE ~Accepts(p)
  <2>1. server' = server /\ puts' = (puts \ {p}) \cup {r}
    BY <1>7 DEF Serve
  <2> HIDE DEF q, r, w
  <2>2. r.base < server.rev
    BY <1>1, <1>4, <1>7 DEF Accepts, HasSeen
  <2>3. HasSeen(r)'
    BY <1>1, <1>2, <1>4, <2>1, <2>2 DEF HasSeen
  <2> QED BY <1>1, <1>2, <1>4, <2>1, <2>3, Answer
<1> QED BY <1>6, <1>7

-----------------------------------------------------------------------------
(* The answers *)

\* Nobody listens to p any more: nothing changes in its tab.
LEMMA Unheard ==
  ASSUME DrumIInv, NEW p \in puts, ~Listens(p), UNCHANGED <<server, page, autosave>>,
         NEW new \in SUBSET Puts, puts' = (puts \ {p}) \cup new,
         \A q \in new : q.tab = p.tab /\ HasSeen(q) /\ ~Listens(q),
         export' = [export EXCEPT ![p.tab] = ExportGoesOn(@, autosave'[p.tab])]
  PROVE  DrumIInv' /\ server.doc \subseteq server'.doc
<1> DEFINE t == p.tab
<1>1. Types /\ t \in Tabs /\ export[t] \in Exports /\ autosave[t] \in Autosaves
      /\ ExportInv(t) /\ SaveInv(t) /\ LoadInv(t) /\ Counts
  BY DEF DrumIInv, Types, Puts
<1>2. ExportGoesOn(export[t], autosave[t]) = export[t]
  BY <1>1, GoesOnFields DEF ExportInv
<1>3. export' = export
  BY <1>1, <1>2 DEF Types
<1>4. Types'
  BY <1>1, <1>3 DEF Types
<1>5. \A q \in puts' : q.tab = t => HasSeen(q)' /\ Awaited(q)'
  <2> SUFFICES ASSUME NEW q \in puts', q.tab = t  PROVE HasSeen(q)' /\ Awaited(q)'
    OBVIOUS
  <2>1. HasSeen(q) /\ Awaited(q)
    BY DEF DrumIInv, Awaited
  <2> QED BY <1>3, <2>1 DEF HasSeen, Awaited, Listens
<1>6. \A q, r \in puts' : q.tab = t /\ r.tab = t /\ Listens(q)' /\ Listens(r)' => q = r
  BY DEF DrumIInv, OneAwaited, Listens
<1>7. SaveInv(t)'
  <2>1. (\E q \in puts : q.tab = t /\ q.load = autosave[t].load) /\ autosave[t].alive
          => \E q \in puts' : q.tab = t /\ q.load = autosave'[t].load
    BY <1>1 DEF Listens
  <2> QED BY <1>1, <2>1 DEF SaveInv
<1>8. LoadInv(t)' /\ ExportInv(t)'
  BY <1>1, <1>3 DEF LoadInv, ExportInv
<1>9. page'[t].made \in 0..MaxEdits[t] /\ \A u \in Tabs : u # t => Still(u)
  BY <1>1, <1>3 DEF Counts, Still
<1>10. \A q : q.tab # t => (q \in puts <=> q \in puts')
  OBVIOUS
<1> HIDE DEF t
<1> QED BY <1>1, <1>4, <1>5, <1>6, <1>7, <1>8, <1>9, <1>10, OneTab

\* The answer to p makes c of its Autosave; of the saves on the way, only new
\* ones are listened to then.
LEMMA Heard ==
  ASSUME DrumIInv, NEW p \in puts, Listens(p), UNCHANGED <<server, page>>,
         NEW c \in Autosaves, autosave' = [autosave EXCEPT ![p.tab] = c],
         c.load = autosave[p.tab].load, c.alive = autosave[p.tab].alive,
         NEW new \in SUBSET Puts, puts' = (puts \ {p}) \cup new,
         \A q \in new : q.tab = p.tab /\ HasSeen(q)' /\ Awaited(q)',
         \A q, r \in new : Listens(q)' /\ Listens(r)' => q = r,
         export' = [export EXCEPT ![p.tab] = ExportGoesOn(@, autosave'[p.tab])],
         SaveInv(p.tab)', ExportInv(p.tab)'
  PROVE  DrumIInv' /\ server.doc \subseteq server'.doc
<1> DEFINE t == p.tab
<1>1. Types /\ t \in Tabs /\ export[t] \in Exports /\ LoadInv(t) /\ Counts
  BY DEF DrumIInv, Types, Puts
<1>2. autosave'[t] = c /\ ExportGoesOn(export[t], c) \in Exports
  BY <1>1, GoesOnFields DEF Types
<1>3. Types'
  BY <1>1, <1>2 DEF Types
<1>4. \A q \in puts \ {p} : q.tab = t => ~Listens(q)'
  BY <1>2 DEF DrumIInv, OneAwaited, Listens
<1>5. \A q \in puts' : q.tab = t => HasSeen(q)' /\ Awaited(q)'
  <2> SUFFICES ASSUME NEW q \in puts \ {p}, q.tab = t  PROVE HasSeen(q)' /\ Awaited(q)'
    OBVIOUS
  <2>1. HasSeen(q)
    BY DEF DrumIInv
  <2> QED BY <1>4, <2>1 DEF HasSeen, Awaited
<1>6. \A q, r \in puts' : q.tab = t /\ r.tab = t /\ Listens(q)' /\ Listens(r)' => q = r
  BY <1>4
<1>7. LoadInv(t)'
  BY <1>1 DEF LoadInv
<1>8. page'[t].made \in 0..MaxEdits[t] /\ \A u \in Tabs : u # t => Still(u)
  BY <1>1 DEF Counts, Still, Types
<1>9. \A q : q.tab # t => (q \in puts <=> q \in puts')
  OBVIOUS
<1> HIDE DEF t
<1> QED BY <1>1, <1>3, <1>5, <1>6, <1>7, <1>8, <1>9, OneTab DEF t

\* The Autosave that hears an answer sends at once what waits in it.
LEMMA HearsStep ==
  ASSUME DrumIInv, NEW p \in puts, Listens(p), UNCHANGED <<server, page>>,
         NEW a \in Autosaves, Hears(p, a),
         a.load = autosave[p.tab].load, a.alive = autosave[p.tab].alive, ~a.inFlight,
         a.rev <= server.rev, a.rev = server.rev => server.doc \subseteq p.doc,
         \/ /\ a.pending = autosave[p.tab].pending /\ p.doc \subseteq server.doc
            /\ a.pending = {} => a.status = "saved"
         \/ a.pending = {} /\ a.status = "conflict"
  PROVE  DrumIInv' /\ server.doc \subseteq server'.doc
<1> DEFINE t == p.tab  b == autosave[t]  pg == page[t]
<1>1. /\ Types /\ p \in Puts /\ t \in Tabs /\ b \in Autosaves /\ export[t] \in Exports
      /\ Awaited(p) /\ HasSeen(p) /\ SaveInv(t) /\ ExportInv(t)
      /\ server \in Revisions /\ server.rev \in Nat
  BY DEF DrumIInv, Types, Puts, Revisions
<1>2. /\ b.load = p.load /\ b.alive /\ b.inFlight /\ p.doc \subseteq pg.doc
      /\ \A d \in b.pending : p.doc \subseteq d /\ d \subseteq pg.doc
      /\ b.pending = {} /\ ~pg.gesture => pg.doc \subseteq p.doc
      /\ b.pending = {} /\ export[t].step = "flushing" => export[t].asked \subseteq p.doc
  BY <1>1 DEF Awaited, Listens, SaveInv
<1>3. CanStart(a) <=> a.pending # {}
  BY <1>2 DEF CanStart
<1>4. PICK c \in Autosaves : c = Started(a)
  BY StartedFields
<1>5. /\ c.load = b.load /\ c.alive /\ c.rev = a.rev /\ c.pending = {}
      /\ a.pending # {} => c.inFlight /\ c.status = "saving"
      /\ a.pending = {} => ~c.inFlight /\ c.status = a.status
  BY <1>2, <1>3, <1>4, StartedFields, Zenon
<1>6. PICK new \in SUBSET Puts :
        /\ new = Request(t, a)
        /\ \A q \in new : /\ q.tab = t /\ q.load = a.load /\ q.base = a.rev
                          /\ q.doc \in a.pending /\ q.answer = "none"
        /\ a.pending # {} => new # {}
        /\ a.pending = {} => new = {}
        /\ (\A d, e \in a.pending : d = e) => \A q, r \in new : q = r
  BY <1>1, <1>3, RequestPut
<1>7. /\ puts' = (puts \ {p}) \cup new /\ autosave' = [autosave EXCEPT ![t] = c]
      /\ export' = [export EXCEPT ![t] = ExportGoesOn(@, autosave'[t])]
  BY <1>4, <1>6 DEF Hears
<1>8. PICK x \in Exports : x = ExportGoesOn(export[t], c)
  BY <1>1, GoesOnFields
<1>9. /\ c.inFlight => x = export[t]
      /\ ~c.inFlight => \/ x = export[t] /\ x.step # "flushing"
                        \/ x.step = "none"
                        \/ /\ x.step = "checking" /\ x.rev = c.rev /\ x.asked = export[t].asked
                           /\ export[t].step = "flushing" /\ c.status # "conflict"
  BY <1>1, <1>5, <1>8, GoesOnFields
<1>10. autosave'[t] = c /\ export'[t] = x /\ page'[t] = pg
  BY <1>1, <1>7, <1>8 DEF Types
<1>11. \A d, e \in a.pending : d = e
  BY <1>1 DEF SaveInv
<1>12. a.pending = {} /\ a.status # "conflict" => b.pending = {} /\ p.doc \subseteq server.doc
  OBVIOUS
<1>13. SaveInv(t)'
  <2>1. c.inFlight => \E q \in puts' : q.tab = t /\ q.load = c.load
    BY <1>5, <1>6, <1>7
  <2>2. /\ b.load = pg.loads /\ b.load > 0 /\ (pg.status = "ready" \/ b.status = "conflict")
        /\ b.status = "conflict" => ~b.inFlight
        /\ pg.status # "left"
    BY <1>1, <1>2 DEF SaveInv
  <2>3. c.rev = server.rev => server.doc \subseteq pg.doc
    BY <1>2, <1>5
  <2>4. c.status \in {"idle", "saved"} /\ ~pg.gesture => pg.doc \subseteq server.doc
    BY <1>2, <1>5, <1>12
  <2>5. ~c.inFlight => c.status \in {"idle", "saved", "conflict"}
    BY <1>5
  <2>6. c.status = "conflict" => ~c.inFlight
    BY <1>5
  <2> HIDE DEF b, pg
  <2> QED BY <1>2, <1>5, <1>10, <2>1, <2>2, <2>3, <2>4, <2>5, <2>6 DEF SaveInv
<1>14. ExportInv(t)'
  <2>1. CASE x = export[t]
    BY <1>1, <1>2, <1>5, <1>9, <1>10, <2>1 DEF ExportInv
  <2>2. CASE x.step = "none"
    BY <1>10, <2>2 DEF ExportInv
  <2>3. CASE ~c.inFlight /\ x.step = "checking" /\ x.rev = c.rev /\ x.asked = export[t].asked
             /\ export[t].step = "flushing" /\ c.status # "conflict"
    <3>1. a.pending = {} /\ a.status # "conflict"
      BY <1>5, <2>3
    <3>2. x.asked \subseteq server.doc
      BY <1>2, <1>12, <2>3, <3>1
    <3> QED BY <1>5, <1>10, <2>3, <3>2 DEF ExportInv
  <2> QED BY <1>9, <2>1, <2>2, <2>3
<1>15. ASSUME NEW q \in new  PROVE q.tab = t /\ HasSeen(q)' /\ Awaited(q)'
  <2>1. /\ q.tab = t /\ q.load = b.load /\ q.base = a.rev /\ q.doc \in a.pending
        /\ q.answer = "none" /\ a.pending # {}
    BY <1>6
  <2>2. a.pending = b.pending
    BY <2>1
  <2>3. b.load = pg.loads /\ pg.loads \in Nat
    BY <1>1 DEF SaveInv, Types, PageRecs
  <2>4. p.doc \subseteq q.doc /\ q.doc \subseteq pg.doc
    BY <1>2, <2>1, <2>2
  <2>5. HasSeen(q)'
    BY <1>10, <2>1, <2>3, <2>4 DEF HasSeen
  <2>6. ~pg.gesture => pg.doc \subseteq q.doc
    BY <1>1, <2>1, <2>2 DEF SaveInv
  <2>7. x.step = "flushing" => x.asked \subseteq q.doc
    BY <1>1, <1>5, <1>9, <2>1, <2>2 DEF ExportInv
  <2>8. Awaited(q)'
    BY <1>5, <1>10, <2>1, <2>4, <2>6, <2>7 DEF Awaited
  <2> QED BY <2>1, <2>5, <2>8
<1>16. /\ c.load = autosave[p.tab].load /\ c.alive = autosave[p.tab].alive
       /\ \A q, r \in new : q = r
       /\ \A q \in new : q.tab = p.tab /\ HasSeen(q)' /\ Awaited(q)'
  BY <1>2, <1>5, <1>6, <1>11, <1>15
<1>17. /\ puts' = (puts \ {p}) \cup new /\ autosave' = [autosave EXCEPT ![p.tab] = c]
       /\ export' = [export EXCEPT ![p.tab] = ExportGoesOn(@, autosave'[p.tab])]
       /\ SaveInv(p.tab)' /\ ExportInv(p.tab)'
  BY <1>7, <1>13, <1>14
<1> HIDE DEF b, t, pg
<1> QED BY <1>16, <1>17, Heard, Zenon

LEMMA HearStep ==
  ASSUME DrumIInv, NEW p \in puts, HearSaved(p) \/ HearConflict(p)
  PROVE  DrumIInv' /\ server.doc \subseteq server'.doc
<1> DEFINE b == autosave[p.tab]
<1>1. /\ p \in Puts /\ b \in Autosaves /\ HasSeen(p) /\ Awaited(p) /\ p.rev \in Nat
      /\ p.base \in Nat /\ server.rev \in Nat
  BY DEF DrumIInv, Types, Puts, Revisions
<1>2. PICK a \in Autosaves : /\ Hears(p, a)
                             /\ \/ p.answer = "saved" /\ a = Saved(b, p.rev)
                                \/ p.answer = "conflict" /\ a = Conflicted(b)
  BY <1>1, SavedFields, ConflictedFields, Zenon DEF HearSaved, HearConflict
<1>3. UNCHANGED <<server, page>>
  BY DEF HearSaved, HearConflict
<1>4. CASE ~Listens(p)
  <2>1. /\ puts' = (puts \ {p}) \cup {} /\ autosave' = autosave
        /\ export' = [export EXCEPT ![p.tab] = ExportGoesOn(@, autosave'[p.tab])]
    BY <1>2, <1>4 DEF Hears, DrumIInv, Types
  <2>2. {} \in SUBSET Puts
    OBVIOUS
  <2> QED BY <1>3, <1>4, <2>1, <2>2, Unheard, Zenon
<1>5. CASE Listens(p)
  <2>1. a.load = b.load /\ a.alive = b.alive /\ ~a.inFlight
    <3>1. \A x \in Autosaves, r \in Nat :
            Saved(x, r).load = x.load /\ Saved(x, r).alive = x.alive /\ ~Saved(x, r).inFlight
      BY SavedFields
    <3>2. \A x \in Autosaves :
            Conflicted(x).load = x.load /\ Conflicted(x).alive = x.alive /\ ~Conflicted(x).inFlight
      BY ConflictedFields
    <3>3. b \in Autosaves /\ p.rev \in Nat
      BY <1>1
    <3> HIDE DEF b
    <3> QED BY <1>2, <3>1, <3>2, <3>3
  <2>2. CASE p.answer = "saved" /\ a = Saved(b, p.rev)
    <3>1. /\ a.rev = p.rev /\ a.pending = b.pending /\ (a.pending = {} => a.status = "saved")
      <4>1. \A x \in Autosaves, r \in Nat :
              /\ Saved(x, r).rev = r /\ Saved(x, r).pending = x.pending
              /\ x.pending = {} => Saved(x, r).status = "saved"
        BY SavedFields
      <4>2. b \in Autosaves /\ p.rev \in Nat
        BY <1>1
      <4> HIDE DEF b
      <4> QED BY <2>2, <4>1, <4>2
    <3>2. /\ p.rev <= server.rev /\ p.doc \subseteq server.doc
          /\ p.rev = server.rev => server.doc \subseteq p.doc
      BY <1>1, <2>2 DEF HasSeen
    <3> QED BY <1>2, <1>3, <1>5, <2>1, <3>1, <3>2, HearsStep
  <2>3. CASE p.answer = "conflict" /\ a = Conflicted(b)
    <3>1. a.rev = b.rev /\ a.pending = {} /\ a.status = "conflict"
      <4>1. \A x \in Autosaves : /\ Conflicted(x).rev = x.rev /\ Conflicted(x).pending = {}
                                 /\ Conflicted(x).status = "conflict"
        BY ConflictedFields
      <4>2. b \in Autosaves
        BY <1>1
      <4> HIDE DEF b
      <4> QED BY <2>3, <4>1, <4>2
    <3>2. a.rev < server.rev
      BY <1>1, <1>5, <2>3, <3>1 DEF HasSeen, Awaited
    <3>3. a.rev <= server.rev /\ a.rev # server.rev
      BY <1>1, <3>2 DEF Autosaves
    <3> QED BY <1>2, <1>3, <1>5, <2>1, <3>1, <3>3, HearsStep
  <2> QED BY <1>2, <2>2, <2>3
<1> QED BY <1>4, <1>5

\* Lost on the way or given up: what it carried waits again, and the server may
\* still come to it with nobody listening.
LEMMA LosePutStep ==
  ASSUME DrumIInv, NEW p \in puts, NEW late \in BOOLEAN, LosePut(p, late)
  PROVE  DrumIInv' /\ server.doc \subseteq server'.doc
<1> DEFINE t == p.tab  b == autosave[t]  pg == page[t]  orphan == [p EXCEPT !.load = 0]
           new == IF late THEN {orphan} ELSE {}
<1>1. /\ Types /\ p \in Puts /\ t \in Tabs /\ b \in Autosaves /\ HasSeen(p) /\ Awaited(p)
      /\ SaveInv(t) /\ ExportInv(t) /\ export[t] \in Exports /\ p.doc \in Docs /\ pg.loads \in Nat
      /\ p.base \in Nat /\ p.rev \in Nat /\ server.rev \in Nat /\ p.answer \in Answers
  BY DEF DrumIInv, Types, Puts, PageRecs, Revisions
<1>2. /\ orphan \in Puts /\ orphan.tab = t /\ orphan.load = 0 /\ orphan.base = p.base
      /\ orphan.doc = p.doc /\ orphan.answer = p.answer /\ orphan.rev = p.rev
  BY <1>1 DEF Puts
<1> HIDE DEF orphan
<1>3. /\ puts' = (puts \ {p}) \cup new /\ UNCHANGED <<server, page>>
      /\ autosave' = [autosave EXCEPT ![t] = IF Listens(p) THEN SaveFailed(b, p.doc) ELSE @]
      /\ export' = [export EXCEPT ![p.tab] = ExportGoesOn(@, autosave'[p.tab])]
  BY DEF LosePut, orphan
<1>4. new \in SUBSET Puts /\ \A q \in new : q = orphan
  BY <1>2
<1> HIDE DEF new
<1>5. HasSeen(orphan)
  BY <1>1, <1>2 DEF HasSeen
<1>6. b.alive => b.load > 0 /\ b.load # 0
  BY <1>1 DEF SaveInv
<1>7. CASE ~Listens(p)
  <2>1. autosave' = autosave
    BY <1>1, <1>3, <1>7 DEF Types
  <2>2. \A q \in new : q.tab = p.tab /\ HasSeen(q) /\ ~Listens(q)
    BY <1>2, <1>4, <1>5, <1>6 DEF Listens
  <2> HIDE DEF t, b, pg
  <2> QED BY <1>3, <1>4, <1>7, <2>1, <2>2, Unheard, Zenon
<1>8. CASE Listens(p)
  <2>1. PICK c \in Autosaves :
          /\ c = SaveFailed(b, p.doc) /\ c.load = b.load /\ c.alive = b.alive /\ c.rev = b.rev
          /\ ~c.inFlight /\ c.status = "error"
          /\ b.pending = {} => c.pending = {p.doc}
          /\ b.pending # {} => c.pending = b.pending
    BY <1>1, SaveFailedFields
  <2>2. autosave' = [autosave EXCEPT ![t] = c] /\ autosave'[t] = c /\ page'[t] = pg
    BY <1>1, <1>3, <1>8, <2>1 DEF Types
  <2>3. /\ b.alive /\ p.doc \subseteq pg.doc /\ p.base = b.rev
        /\ b.pending = {} /\ ~pg.gesture => pg.doc = p.doc
    BY <1>1, <1>8, Zenon DEF Awaited, Listens
  <2>4. c.alive /\ c.pending # {} /\ \A d, e \in c.pending : d = e
    BY <1>1, <2>1, <2>3 DEF SaveInv
  <2>5. p.base = server.rev => p.answer = "none"
    BY <1>1 DEF HasSeen, Answers
  <2>6. c.rev = server.rev => server.doc \subseteq p.doc
    BY <1>1, <2>1, <2>3, <2>5 DEF HasSeen
  <2>7. /\ \A d \in c.pending : d \subseteq pg.doc
        /\ ~pg.gesture => pg.doc \in c.pending
    BY <1>1, <2>1, <2>3 DEF SaveInv
  <2>8. c.rev = server.rev => \A d \in c.pending : server.doc \subseteq d
    BY <1>1, <2>1, <2>3, <2>6 DEF SaveInv
  <2>9. /\ (b.load = pg.loads /\ b.load > 0 /\ pg.status = "ready") \/ b.status = "conflict"
        /\ b.rev <= server.rev /\ b.status # "conflict" /\ pg.status # "left"
    BY <1>1, <1>8, <2>3 DEF SaveInv, Awaited
  <2>10. SaveInv(t)'
    <3>1. c.load = pg.loads /\ c.load > 0 /\ pg.status = "ready" /\ c.rev <= server.rev
      BY <1>1, <2>1, <2>3, <2>9 DEF SaveInv
    <3>2. c.rev = server.rev => server.doc \subseteq pg.doc
      BY <2>3, <2>6
    <3> HIDE DEF b, pg, t
    <3> QED BY <1>3, <2>1, <2>2, <2>4, <2>7, <2>8, <3>1, <3>2 DEF SaveInv
  <2>11. ExportInv(t)'
    <3> DEFINE x == ExportGoesOn(export[t], c)
    <3>1. export'[t] = x
      BY <1>1, <1>3, <2>2 DEF Types
    <3>2. x.step = "none" \/ (x = export[t] /\ x.step # "flushing")
      BY <1>1, <2>1, GoesOnFields
    <3> HIDE DEF x
    <3> QED BY <1>1, <1>3, <2>2, <3>1, <3>2 DEF ExportInv
  <2>12. \A q \in new : q.tab = p.tab /\ HasSeen(q)' /\ Awaited(q)'
    <3>1. HasSeen(orphan)'
      BY <1>3, <1>5 DEF HasSeen
    <3>2. ~Listens(orphan)'
      BY <1>2, <1>6, <2>1, <2>2 DEF Listens
    <3> QED BY <1>2, <1>4, <3>1, <3>2 DEF Awaited
  <2>13. \A q, r \in new : q = r
    BY <1>4
  <2>14. c.load = autosave[p.tab].load /\ c.alive = autosave[p.tab].alive
    BY <2>1
  <2>15. SaveInv(p.tab)' /\ ExportInv(p.tab)' /\ autosave' = [autosave EXCEPT ![p.tab] = c]
    BY <2>2, <2>10, <2>11
  <2>16. /\ UNCHANGED <<server, page>> /\ puts' = (puts \ {p}) \cup new
         /\ export' = [export EXCEPT ![p.tab] = ExportGoesOn(@, autosave'[p.tab])]
    BY <1>3
  <2> HIDE DEF b, pg, t
  <2> QED BY <1>4, <1>8, <2>12, <2>13, <2>14, <2>15, <2>16, Heard, Zenon
<1> QED BY <1>7, <1>8

-----------------------------------------------------------------------------
(* The invariant, and what follows from it *)

LEMMA DrumStarts == DrumInit => DrumIInv
<1> SUFFICES ASSUME DrumInit  PROVE DrumIInv
  OBVIOUS
<1> DEFINE pg == [status |-> "loading", answer |-> NoAnswer, doc |-> {}, made |-> 0, loads |-> 0,
                  gesture |-> FALSE]
           n == NewAutosave(0, 0)  a == Disposed(n)
<1>1. {} \in Docs
  BY DEF Docs
<1>2. /\ pg \in PageRecs /\ pg.status = "loading" /\ pg.doc = {} /\ pg.made = 0 /\ pg.loads = 0
  BY <1>1 DEF PageRecs, PageStates, Revisions, NoAnswer
<1>3. n \in Autosaves /\ n.load = 0 /\ n.rev = 0 /\ n.status = "idle" /\ ~n.inFlight
  BY NewAutosaveFields
<1> HIDE DEF n
<1>4. /\ a \in Autosaves /\ a.load = 0 /\ ~a.alive /\ a.rev = 0 /\ a.pending = {}
      /\ a.status = "idle" /\ ~a.inFlight
  BY <1>3, DisposedFields
<1>5. NoExport \in Exports /\ NoExport.step = "none"
  BY <1>1 DEF NoExport, Exports, ExportSteps
<1> HIDE DEF pg, a
<1>6. /\ server = [rev |-> 0, doc |-> {}] /\ page = [t \in Tabs |-> pg] /\ puts = {}
      /\ autosave = [t \in Tabs |-> a] /\ export = [t \in Tabs |-> NoExport]
  BY DEF DrumInit, pg, a, n
<1>7. server \in Revisions /\ server.rev = 0 /\ server.doc = {}
  BY <1>1, <1>6 DEF Revisions
<1>8. Types
  BY <1>2, <1>4, <1>5, <1>6, <1>7 DEF Types
<1>9. \A t \in Tabs : page[t] = pg /\ autosave[t] = a /\ export[t] = NoExport
  BY <1>6
<1>10. Counts
  <2>1. \A t \in Tabs : 0 \in 0..MaxEdits[t]
    BY DrumTabsAssumption
  <2> QED BY <1>2, <1>9, <2>1 DEF Counts
<1>11. OneAwaited /\ \A p \in puts : HasSeen(p) /\ Awaited(p)
  BY <1>6 DEF OneAwaited
<1>12. ASSUME NEW t \in Tabs  PROVE SaveInv(t) /\ LoadInv(t) /\ ExportInv(t)
  BY <1>2, <1>4, <1>5, <1>7, <1>9 DEF SaveInv, LoadInv, ExportInv
<1> QED BY <1>8, <1>10, <1>11, <1>12 DEF DrumIInv

LEMMA DrumStays ==
  ASSUME DrumIInv, [DrumNext]_drumVars
  PROVE  DrumIInv' /\ server.doc \subseteq server'.doc
<1>1. CASE UNCHANGED drumVars
  <2>1. UNCHANGED <<server, page, autosave, puts, export>>
    BY <1>1
  <2> QED BY <2>1 DEF DrumIInv, Types, Counts, HasSeen, Awaited, Listens, OneAwaited, SaveInv,
                      LoadInv, ExportInv
<1>2. ASSUME NEW t \in Tabs, TabNext(t)  PROVE DrumIInv' /\ server.doc \subseteq server'.doc
  <2>1. CASE LoadRead(t)
    BY <2>1, LoadReadStep
  <2>2. CASE LoadArrives(t)
    BY <2>2, LoadArrivesStep
  <2>3. CASE LoadFails(t)
    BY <2>3, LoadFailsStep
  <2>4. CASE ReloadDoc(t)
    BY <2>4, ReloadDocStep
  <2>5. CASE EditDoc(t) \/ Drag(t)
    BY <2>5, ChangeStep, Zenon DEF EditDoc, Drag
  <2>6. CASE Drop(t)
    BY <2>6, DropStep
  <2>7. CASE Debounce(t) \/ Hide(t)
    BY <2>7, SaveOnly
  <2>8. CASE Leave(t)
    BY <2>8, LeaveStep
  <2>9. CASE AskExport(t)
    BY <2>9, AskExportStep
  <2>10. CASE CheckExport(t) \/ PostExport(t)
    BY <2>10, ExportStep
  <2> QED BY <1>2, <2>1, <2>2, <2>3, <2>4, <2>5, <2>6, <2>7, <2>8, <2>9, <2>10 DEF TabNext
<1>3. ASSUME NEW p \in puts, PutNext(p)  PROVE DrumIInv' /\ server.doc \subseteq server'.doc
  <2>1. CASE Serve(p)
    BY <2>1, ServeStep
  <2>2. CASE HearSaved(p) \/ HearConflict(p)
    BY <2>2, HearStep
  <2>3. CASE \E late \in BOOLEAN : LosePut(p, late)
    BY <2>3, LosePutStep
  <2> QED BY <1>3, <2>1, <2>2, <2>3 DEF PutNext
<1> QED BY <1>1, <1>2, <1>3 DEF DrumNext

LEMMA DrumSafe == DrumSpec => []DrumIInv
<1>1. DrumInit => DrumIInv
  BY DrumStarts
<1>2. DrumIInv /\ [DrumNext]_drumVars => DrumIInv'
  BY DrumStays
<1> QED BY <1>1, <1>2, PTL DEF DrumSpec

LEMMA DrumTypes == DrumIInv => DrumTypeOK
<1> SUFFICES ASSUME DrumIInv  PROVE DrumTypeOK
  OBVIOUS
<1>1. Types /\ Counts /\ OneAwaited
  BY DEF DrumIInv
<1>2. server.rev \in Nat /\ server.doc \in Docs
  BY <1>1 DEF Types, Revisions
<1>3. ASSUME NEW t \in Tabs
      PROVE  /\ page[t].status \in PageStates /\ page[t].doc \in Docs
             /\ page[t].made \in 0..MaxEdits[t]
             /\ autosave[t].status \in SaveStates /\ export[t].step \in ExportSteps
  BY <1>1 DEF Types, Counts, PageRecs, Autosaves, Exports
<1>4. ASSUME NEW t \in Tabs  PROVE Cardinality(autosave[t].pending) <= 1
  <2>1. \A d, e \in autosave[t].pending : d = e
    BY DEF DrumIInv, SaveInv
  <2>2. CASE autosave[t].pending = {}
    BY <2>2, FS_EmptySet
  <2>3. CASE autosave[t].pending # {}
    <3>1. PICK d \in autosave[t].pending : autosave[t].pending = {d}
      BY <2>1, <2>3
    <3>2. Cardinality({d}) = 1
      BY FS_Singleton
    <3> QED BY <3>1, <3>2
  <2> QED BY <2>2, <2>3
<1>5. ASSUME NEW t \in Tabs, autosave[t].inFlight, autosave[t].alive
      PROVE  Cardinality({p \in puts : p.tab = t /\ p.load = autosave[t].load}) = 1
  <2> DEFINE S == {p \in puts : p.tab = t /\ p.load = autosave[t].load}
  <2>1. PICK p \in puts : p \in S
    BY <1>5 DEF DrumIInv, SaveInv
  <2>2. \A q \in S : q = p
    BY <1>1, <1>5, <2>1 DEF OneAwaited, Listens
  <2>3. S = {p}
    BY <2>1, <2>2
  <2> QED BY <2>3, FS_Singleton, Zenon
<1>6. \A p \in puts : p.answer \in Answers /\ p.doc \in Docs /\ p.base \in Nat
  BY <1>1 DEF Types, Puts
<1> QED BY <1>2, <1>3, <1>4, <1>5, <1>6 DEF DrumTypeOK, PageStates, SaveStates, ExportSteps

LEMMA DrumTruths == DrumIInv => AutosavedIsTrue /\ ExportHasTheEdits
<1> SUFFICES ASSUME DrumIInv  PROVE AutosavedIsTrue /\ ExportHasTheEdits
  OBVIOUS
<1>1. AutosavedIsTrue
  <2> SUFFICES ASSUME NEW t \in Tabs, page[t].status = "ready", ~page[t].gesture,
                      Says(autosave[t]) = "autosaved"
               PROVE  page[t].doc \subseteq server.doc
    BY DEF AutosavedIsTrue
  <2>1. autosave[t].status \in SaveStates
    BY DEF DrumIInv, Types, Autosaves
  <2>2. autosave[t].status \in {"idle", "saved"}
    BY <2>1 DEF Says, SaveStates
  <2> QED BY <2>2 DEF DrumIInv, SaveInv
<1>2. ExportHasTheEdits
  BY DEF DrumIInv, ExportInv, ExportHasTheEdits
<1> QED BY <1>1, <1>2

\* The editor tells no lies, however many tabs save, lose, retry, export and
\* reload: "autosaved" means on the server, and an archive that the server would
\* answer with has the edits of the screen it was asked for on (autosave.ts,
\* api/drum-edits.ts and the save of internal/drumedit).
THEOREM DrumTellsTheTruth == DrumSpec => []DrumInv
<1>1. DrumIInv => DrumInv
  BY DrumTypes, DrumTruths DEF DrumInv
<1> QED BY <1>1, DrumSafe, PTL

\* No save overwrites edits it has not seen: a save is accepted at the current
\* revision only, and what is saved from there has the document of that revision
\* in it, through every retry, late arrival and reload.
THEOREM DrumLineNeverForks == DrumSpec => LineNeverForks
<1>1. DrumIInv /\ [DrumNext]_drumVars => [server.doc \subseteq server'.doc]_drumVars
  BY DrumStays
<1> QED BY <1>1, DrumSafe, PTL DEF DrumSpec, LineNeverForks
=============================================================================
