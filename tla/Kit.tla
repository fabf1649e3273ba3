-------------------------------- MODULE Kit --------------------------------
(***************************************************************************)
(* The MIDI KIT audition of the drum editor (player/use-kit-audition.ts,   *)
(* player/kit/scheduler.ts): while it is on, the drum stem is muted and    *)
(* the edited hits are scheduled on the clock of the engine.  Times are    *)
(* frames: of the song, of the stream that the engine plays (PlayPlan),    *)
(* and of the audio context, that runs on whatever is played.              *)
(***************************************************************************)
EXTENDS PlayPlan, FiniteSets

CONSTANTS Total,       (* frames of the song                               *)
          Lookahead, Late, (* of the scheduler                             *)
          Regions      (* loops the engine may play, NoLoop among them     *)

ASSUME KitAssumption ==
  /\ Total \in Nat \ {0} /\ Lookahead \in Nat \ {0} /\ Late \in Nat /\ Late < Lookahead
  /\ NoLoop \in Regions /\ \A r \in Regions : r.start \in Int /\ r.end \in Int

VARIABLES
  clock,   (* the engine: created, playing, flushing; the audio context    *)
           (* and the offset that the audio thread publishes               *)
  kit,     (* mode, loading status, and the forced mute of the drum stem   *)
  sched,   (* KitScheduler                                                 *)
  plays,   (* the hits it plays: those of rows that are not muted          *)
  voices,  (* its queued voices                                            *)
  heard,   (* history: what has sounded, and whether anything did twice    *)
  steady,  (* history: hits it has had since it saw the generation         *)
  frames   (* bound: how long the audio runs; a new plan counts as a frame *)

kitVars == <<clock, kit, sched, plays, voices, heard, steady, frames>>

-----------------------------------------------------------------------------
(* The clock                                                               *)

\* clock() answers only while the engine plays and no flush is under way.
Clocked == clock.playing /\ ~clock.flushing
StreamNow == clock.now - clock.offset

InPlan(f) == f >= 0 /\ (clock.plan.length = Endless \/ f < clock.plan.length)

\* The audio context is at now: what is queued for now begins to sound.
Sounding == {v \in voices : v.start = clock.now}

Runs(c) ==
  /\ frames > 0 /\ frames' = frames - 1
  /\ clock' = c
  /\ voices' = voices \ Sounding
  /\ heard' = [all |-> heard.all \cup {<<v.of, v.id, v.sf>> : v \in Sounding},
               twice |-> heard.twice \/ \E v \in Sounding : <<v.of, v.id, v.sf>> \in heard.all]
  /\ sched' = [sched EXCEPT !.room = Greatest(0, @ - 1), !.slow = @ \/ sched.room = 0]
  /\ UNCHANGED <<kit, plays, steady>>

\* One frame of audio: of the stream, or silence while none plays.
Advance == Runs([clock EXCEPT !.now = @ + 1, !.offset = IF Clocked THEN @ ELSE @ + 1])

\* The rings are empty: the context runs on, the stream does not.
Underrun == Clocked /\ Runs([clock EXCEPT !.now = @ + 1, !.offset = @ + 1, !.underruns = @ + 1])

-----------------------------------------------------------------------------
(* The scheduler                                                           *)

\* History: from is where the stream was when its generation was seen; room is
\* how long the next tick may take, since when a reschedule waits for it, and
\* slow that it took too long, or came to neither of two reschedules.
NoSched == [alive |-> FALSE, cursor |-> -1, generation |-> -1, underruns |-> 0,
            from |-> 0, room |-> 0, since |-> 0, slow |-> FALSE]

\* Mutant of KeptFrom: what waits to sound is kept.
KeptAll(now) == voices

\* cancelFrom: what is due at now or later is taken back.
KeptFrom(now) == {v \in voices : v.when < now}

\* Mutant of StartOf: a late hit is queued for when it was due.
DueAt(when) == when

\* A late hit sounds at once.
StartOf(when) == Greatest(clock.now, when)

\* queueRange over the segments of the plan: the hits between two frames of
\* the stream.
Voices(from, to) ==
  UNION {{[id |-> h.id, t |-> h.t, of |-> clock.generation, sf |-> f, when |-> clock.now + f - StreamNow,
           start |-> StartOf(clock.now + f - StreamNow)] :
            f \in {f \in from..to - 1 : InPlan(f) /\ SongFrameAt(clock.plan, f) = h.t}} : h \in plays}

\* The first tick of a generation: what is queued belongs to the old stream.
NewGeneration == clock.generation # sched.generation
Stalled == ~NewGeneration /\ clock.underruns # sched.underruns

\* From where the hits are queued: as far back as may be late.
Resumed(cursor) == IF cursor < 0 THEN StreamNow ELSE Greatest(cursor, StreamNow - Late)

Ticked == [sched EXCEPT !.room = Lookahead, !.since = -1, !.slow = @ /\ ~NewGeneration]

\* tick without a clock: the engine stopped, or flushes.
TickIdle ==
  /\ sched.alive /\ ~Clocked
  /\ voices # {}
  /\ voices' = {}
  /\ sched' = [Ticked EXCEPT !.cursor = -1, !.generation = -1]
  /\ UNCHANGED <<clock, kit, plays, heard, steady, frames>>

\* tick after an underrun: what has not sounded is dropped.
TickStalled ==
  /\ sched.alive /\ Clocked /\ Stalled
  /\ voices' = KeptFrom(clock.now)
  /\ sched' = [Ticked EXCEPT !.underruns = clock.underruns, !.cursor = StreamNow]
  /\ UNCHANGED <<clock, kit, plays, heard, steady, frames>>

Tick ==
  LET cursor == Resumed(IF NewGeneration THEN -1 ELSE sched.cursor)
      horizon == StreamNow + Lookahead IN
  /\ sched.alive /\ Clocked /\ ~Stalled
  /\ voices' = (IF NewGeneration THEN {} ELSE voices) \cup Voices(cursor, horizon)
  /\ sched' = [Ticked EXCEPT !.generation = clock.generation, !.underruns = clock.underruns,
                             !.cursor = Greatest(cursor, horizon),
                             !.from = IF NewGeneration THEN StreamNow ELSE @]
  /\ steady' = IF NewGeneration THEN plays ELSE steady
  /\ UNCHANGED <<clock, kit, plays, heard, frames>>

\* Mutant of Rescanned: the next tick goes on where the last one came to.
RescannedOn == sched.cursor

\* reschedule: the next tick starts at what sounds now.
Rescanned == IF Clocked /\ ~NewGeneration THEN StreamNow ELSE -1

\* setHits, with the hits of the rows that sound: reschedule.
SetHits(H) ==
  /\ plays' = H
  /\ IF ~sched.alive THEN UNCHANGED <<sched, voices, steady>>
     ELSE /\ steady' = steady \cap H
          /\ voices' = IF Clocked THEN KeptFrom(clock.now) ELSE {}
          /\ sched' = [sched EXCEPT !.cursor = Rescanned,
                                    !.room = Least(@, Late),
                                    !.since = IF @ = -1 THEN clock.now ELSE @,
                                    !.slow = @ \/ (sched.since # -1 /\ sched.since # clock.now)]
  /\ UNCHANGED <<clock, kit, heard, frames>>

-----------------------------------------------------------------------------
(* The mode                                                                *)

\* Mutant of ForcedMute: the kit is on, whatever its engine.
NeverMuted(k, c) == FALSE

\* The effect that mutes the drum stem: of an engine, while the mode is on.
ForcedMute(k, c) == k.midi /\ c.created

\* The effects of the mode, of the status and of the engine: the scheduler
\* lives while all three are there.
Becoming(k, c) ==
  LET alive == k.midi /\ k.status = "ready" /\ c.created IN
  /\ clock' = c
  /\ kit' = [k EXCEPT !.stemMuted = ForcedMute(k, c),
                      !.status = IF @ = "idle" /\ k.midi /\ c.created THEN "loading" ELSE @]
  /\ sched' = IF alive = sched.alive THEN sched ELSE [NoSched EXCEPT !.alive = alive]
  /\ voices' = IF sched.alive /\ ~alive THEN {} ELSE voices
  /\ UNCHANGED <<plays, steady, heard>>

SetMode(midi) ==
  midi # kit.midi /\ Becoming([kit EXCEPT !.midi = midi], clock) /\ UNCHANGED frames

KitLoads(status) ==
  /\ kit.status = "loading"
  /\ Becoming([kit EXCEPT !.status = status], clock) /\ UNCHANGED frames

\* play, seek and a change of the loop: a new plan, from after the flush.
Replan(f, loop) ==
  /\ frames > 0 /\ frames' = frames - 1
  /\ Becoming(kit, [clock EXCEPT !.created = TRUE, !.playing = TRUE, !.flushing = TRUE,
                                 !.generation = @ + 1, !.plan = NewPlan(f, Total, loop)])

\* The audio thread begins with the stream.
Flushed ==
  /\ clock.flushing
  /\ clock' = [clock EXCEPT !.flushing = FALSE, !.offset = clock.now]
  /\ UNCHANGED <<kit, sched, plays, voices, heard, steady, frames>>

StopPlaying ==
  /\ clock.playing
  /\ clock' = [clock EXCEPT !.playing = FALSE]
  /\ UNCHANGED <<kit, sched, plays, voices, heard, steady, frames>>

KitInit(n) ==
  /\ clock = [created |-> FALSE, playing |-> FALSE, flushing |-> FALSE, now |-> 0, offset |-> 0,
              underruns |-> 0, generation |-> 0, plan |-> NewPlan(0, Total, NoLoop)]
  /\ kit = [midi |-> FALSE, status |-> "idle", stemMuted |-> FALSE]
  /\ sched = NoSched /\ voices = {} /\ steady = {} /\ frames = n
  /\ heard = [all |-> {}, twice |-> FALSE]

KitNext ==
  \/ Advance \/ Underrun \/ Tick \/ TickIdle \/ TickStalled \/ Flushed \/ StopPlaying
  \/ \E midi \in BOOLEAN : SetMode(midi)
  \/ \E s \in {"ready", "error"} : KitLoads(s)
  \/ \E f \in 0..Total - 1, loop \in Regions : Replan(f, loop)

-----------------------------------------------------------------------------
(* What the audition promises *)

KitTypeOK ==
  /\ clock.now \in Nat /\ clock.offset \in Nat
  /\ sched.cursor = -1 \/ sched.cursor >= 0
  /\ \A v \in voices : v.start >= clock.now /\ v.t \in 0..Total
  /\ sched.alive => kit.status = "ready" /\ clock.created

\* Without an underrun every hit sounds at most once in a pass of the loop,
\* whatever is edited, muted or sought meanwhile.
OncePerPass == clock.underruns = 0 => ~heard.twice

\* Ticks lose nothing that come within the lookahead, and after an edit within
\* the tolerance and before the next one: what was there since the stream began
\* has sounded wherever the stream has been.
NothingMissed ==
  sched.alive /\ Clocked /\ ~NewGeneration /\ clock.underruns = 0 /\ ~sched.slow =>
    \A h \in steady, f \in sched.from..StreamNow - 1 - Late :
      InPlan(f) /\ SongFrameAt(clock.plan, f) = h.t => <<clock.generation, h.id, f>> \in heard.all

\* What is deleted, moved away or muted before it is due is not heard.
NothingStale ==
  \A v \in voices : v.when >= clock.now => [id |-> v.id, t |-> v.t] \in plays

\* The kit and the stem of the drums are never heard together, and without
\* the kit the stem is heard.
StemOrKit ==
  /\ sched.alive \/ voices # {} => kit.stemMuted
  /\ ~kit.midi => ~kit.stemMuted

\* What the kit plays: each hit in each pass once and none that is gone, and
\* never together with the stem.
KitInv == KitTypeOK /\ OncePerPass /\ NothingMissed /\ NothingStale /\ StemOrKit
=============================================================================
