------------------------------ MODULE BeatGrid ------------------------------
(***************************************************************************)
(* The beat grid of the drum editor (web/src/lib/drums/grid.ts): the map   *)
(* between times and beat positions, the lines to snap to and the bars.    *)
(* Times are whole units; a beat position counts BeatUnits to the beat, so *)
(* that positions of whole times and times of grid lines are whole too.    *)
(* A grid g has the times of its beats (g.beats), the number of the first  *)
(* one (g.offset) and signature changes (g.signatures).                    *)
(***************************************************************************)
EXTENDS Integers, FiniteSets, Sequences

CONSTANT BeatUnits

ASSUME BeatGridAssumption == BeatUnits \in Nat \ {0}

NoGrid == [beats |-> <<>>, offset |-> 0, signatures |-> <<>>]

HasGrid(g) == Len(g.beats) >= 2

\* What the arithmetic below needs to be exact.
IsGrid(g, divisions) ==
  /\ g.beats \in Seq(Int) /\ g.offset \in Int
  /\ g.signatures \in Seq([beat : Int, numerator : Nat \ {0}])
  /\ \A k \in 1..Len(g.beats) - 1 :
       LET interval == g.beats[k + 1] - g.beats[k] IN
       /\ interval > 0 /\ BeatUnits % interval = 0
       /\ \A n \in divisions : interval % n = 0 /\ BeatUnits % n = 0

-----------------------------------------------------------------------------
(* Times and beat positions                                                *)

\* interval: outside the beats the first or the last one goes on.
Interval(g, k) ==
  LET n == Len(g.beats)
      i == IF k < 0 THEN 0 ELSE IF k >= n - 1 THEN n - 2 ELSE k IN
  g.beats[i + 2] - g.beats[i + 1]

\* intervalIndexAt
IndexAt(g, sec) ==
  LET before == {k \in 0..Len(g.beats) - 2 : g.beats[k + 1] <= sec} IN
  IF before = {} THEN 0 ELSE CHOOSE k \in before : \A j \in before : j <= k

Beat(g, sec) ==
  LET k == IndexAt(g, sec) IN
  BeatUnits * (g.offset + k) + (sec - g.beats[k + 1]) * (BeatUnits \div Interval(g, k))

Seconds(g, beat) ==
  LET n == Len(g.beats)
      whole == beat \div BeatUnits - g.offset
      i == IF whole < 0 THEN 0 ELSE IF whole > n - 2 THEN n - 2 ELSE whole IN
  g.beats[i + 1] + ((beat - BeatUnits * (g.offset + i)) * Interval(g, i)) \div BeatUnits

\* Math.round
Rounded(x, unit) == (2 * x + unit) \div (2 * unit)

\* Mutant of Snap: the line before, not the nearest one.
SnapDown(g, sec, n) ==
  Seconds(g, (Beat(g, sec) \div (BeatUnits \div n)) * (BeatUnits \div n))

\* snap: the nearest of n lines per beat, in beat space.
Snap(g, sec, n) ==
  Seconds(g, Rounded(Beat(g, sec), BeatUnits \div n) * (BeatUnits \div n))

\* step: the time one line further or back.
Step(g, sec, n, dir) == Seconds(g, Beat(g, sec) + dir * (BeatUnits \div n))

-----------------------------------------------------------------------------
(* Bars                                                                    *)

\* The positions at which a signature begins: an earlier one than the first is
\* counted from beat 0, and of two at the same beat the later one counts.
Changes(g) ==
  LET given == {[beat |-> g.signatures[i].beat, numerator |-> g.signatures[i].numerator] :
                  i \in {i \in DOMAIN g.signatures :
                           \A j \in DOMAIN g.signatures :
                             j > i => g.signatures[j].beat # g.signatures[i].beat}}
      Earlier(i, j) == \/ g.signatures[i].beat < g.signatures[j].beat
                       \/ g.signatures[i].beat = g.signatures[j].beat /\ i <= j
      first == CHOOSE i \in DOMAIN g.signatures : \A j \in DOMAIN g.signatures : Earlier(i, j) IN
  IF given = {} THEN {[beat |-> 0, numerator |-> 4]}
  ELSE IF g.signatures[first].beat > 0
  THEN given \cup {[beat |-> 0, numerator |-> g.signatures[first].numerator]}
  ELSE given

\* Mutant of BarsOf: a short bar before a change is not counted.
WholeBars(g, s) ==
  LET later == {r.beat : r \in {r \in Changes(g) : r.beat > s.beat}}
      next == CHOOSE b \in later : \A c \in later : b <= c IN
  IF later = {} THEN 0 ELSE (next - s.beat) \div s.numerator

\* The bars from s to the next change, a short one at its end included.
BarsOf(g, s) ==
  LET later == {r.beat : r \in {r \in Changes(g) : r.beat > s.beat}}
      next == CHOOSE b \in later : \A c \in later : b <= c IN
  IF later = {} THEN 0 ELSE (next - s.beat + s.numerator - 1) \div s.numerator

\* The number of the bar that begins with s: after the bars of what is before.
FirstBar(g, s) ==
  1 + Cardinality(UNION {{r} \X (1..BarsOf(g, r)) : r \in {r \in Changes(g) : r.beat < s.beat}})

\* barAt, for a whole beat.
BarAt(g, beat) ==
  LET segments == {s \in Changes(g) : s.beat <= beat}
      lowest == CHOOSE s \in Changes(g) : \A r \in Changes(g) : s.beat <= r.beat
      seg == IF segments = {} THEN lowest
             ELSE CHOOSE s \in segments : \A r \in segments : r.beat <= s.beat
      k == IF beat < seg.beat THEN 0 ELSE (beat - seg.beat) \div seg.numerator IN
  [bar |-> FirstBar(g, seg) + k, startBeat |-> seg.beat + k * seg.numerator,
   numerator |-> seg.numerator]

\* lines: what the division shows of an interval of time.
Lines(g, from, to, n) ==
  IF ~HasGrid(g) THEN {}
  ELSE LET line == BeatUnits \div n
           first == (Beat(g, from) + line - 1) \div line
           last == Beat(g, to) \div line
           kind(k) == IF k % n # 0 THEN "sub"
                      ELSE IF BarAt(g, k \div n).startBeat = k \div n THEN "bar" ELSE "beat" IN
       {[t |-> Seconds(g, k * line), beat |-> k * line, kind |-> kind(k)] : k \in first..last}
=============================================================================
