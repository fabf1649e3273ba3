------------------------------ MODULE PlayPlan ------------------------------
(***************************************************************************)
(* The arithmetic of the streaming player (web/src/player/engine): play    *)
(* plans, ring positions and the decision to fetch.  Positions are frames; *)
(* the counters in shared memory are words of WordHalf * 2 values.         *)
(***************************************************************************)
EXTENDS Integers

CONSTANTS RingFrames,   (* capacity of a ring                              *)
          MinLoop,      (* MIN_LOOP_FRAMES                                 *)
          WordHalf      (* 2^31 in the code                                *)

ASSUME PlayPlanAssumption ==
  /\ RingFrames \in Nat \ {0} /\ MinLoop \in Nat \ {0}
  /\ WordHalf \in Nat /\ WordHalf > RingFrames
  /\ (2 * WordHalf) % RingFrames = 0

Least(a, b) == IF a <= b THEN a ELSE b
Greatest(a, b) == IF a >= b THEN a ELSE b
Clamp(x, total) == Greatest(0, Least(x, total))

\* Mutant of Word: counters beyond 32 bits.
WordUnbounded(x) == x

\* x | 0
Word(x) == ((x + WordHalf) % (2 * WordHalf)) - WordHalf

\* w & mask: the slot of a position, also of a negative word.
Slot(p) == p % RingFrames

NoLoop == [start |-> 0, end |-> 0]
Endless == -1

\* validateLoop: clamped to the song; NoLoop when it is too short.
ValidLoop(loop, total) ==
  LET start == Clamp(loop.start, total)
      end == Clamp(loop.end, total) IN
  IF end - start < MinLoop THEN NoLoop ELSE [start |-> start, end |-> end]

\* new PlayPlan(startFrame, totalFrames, loop): up to the end of the loop, then
\* the loop for ever; from behind the loop, or without one, to the end.
NewPlan(frame, total, loop) ==
  LET start == Clamp(frame, total)
      valid == ValidLoop(loop, total) IN
  IF valid # NoLoop /\ start < valid.end
  THEN [start |-> start, loop |-> valid, prefix |-> valid.end - start,
        length |-> Endless, total |-> total]
  ELSE [start |-> start, loop |-> NoLoop, prefix |-> total - start,
        length |-> total - start, total |-> total]

LoopFrames(plan) == plan.loop.end - plan.loop.start

SongFrameAt(plan, streamFrame) ==
  LET s == Greatest(0, streamFrame) IN
  IF s < plan.prefix THEN plan.start + s
  ELSE IF plan.loop = NoLoop THEN plan.total
  ELSE plan.loop.start + ((s - plan.prefix) % LoopFrames(plan))

NoChunk == [song |-> 0, frames |-> 0]

\* nextChunk: at most max frames, within one segment.
NextChunk(plan, pos, max) ==
  LET offset == (pos - plan.prefix) % LoopFrames(plan) IN
  IF plan.length # Endless /\ pos >= plan.length THEN NoChunk
  ELSE IF pos < plan.prefix
  THEN [song |-> plan.start + pos, frames |-> Least(max, plan.prefix - pos)]
  ELSE [song |-> plan.loop.start + offset, frames |-> Least(max, LoopFrames(plan) - offset)]

\* Mutant of ShouldFetch: the lead alone decides.
ShouldFetchAnyway(buffered, frames, prefetch) == buffered < prefetch

\* shouldFetch: room for the whole chunk, and a lead below the window.
ShouldFetch(buffered, frames, prefetch) ==
  RingFrames - buffered >= frames /\ buffered < prefetch
=============================================================================
