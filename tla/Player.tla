------------------------------- MODULE Player -------------------------------
(***************************************************************************)
(* The streaming player: StreamEngine on the main thread, a StemStreamer   *)
(* per stem that fetches ranges into its ring, and the audio thread        *)
(* (public/stream-processor.js) that consumes all rings in lockstep.  They *)
(* share the control words and the rings without a lock; a seek goes       *)
(* through a flush message and its acknowledgement.                        *)
(***************************************************************************)
EXTENDS Faults, PlayPlan, Sequences, FiniteSets

CONSTANTS Stems,
          Total,        (* frames of the song                              *)
          ChunkFrames, FirstChunk, Prefetch, MinFill, Quantum,
          Seeks,        (* positions the user seeks to                     *)
          Regions,      (* loop regions the user chooses                   *)
          MaxStream,    (* bound: an endless stream is fetched up to here  *)
          MaxStarts     (* bound on the generations of the stream          *)

\* The first chunk and a full one fit the ring with what playing waits for.  A
\* WAV file has less than 2^32 bytes of samples, two or more to the frame.
ASSUME PlayerAssumption ==
  /\ Stems # {}
  /\ Total \in 1..WordHalf - 1 /\ Quantum \in Nat \ {0} /\ MaxStream \in Nat
  /\ ChunkFrames \in Nat /\ FirstChunk \in 1..ChunkFrames
  /\ Prefetch \in Nat /\ MinFill \in 1..Prefetch
  /\ ChunkFrames + MinFill <= RingFrames
  /\ Seeks \subseteq 0..Total /\ MaxStarts \in Nat
  /\ \A r \in Regions : r.start \in Int /\ r.end \in Int

VARIABLES
  state,     (* EngineState, from "ready" on                               *)
  generation, pendingFlush, anchor, plan, region, loopOn,
  timers,    (* generations whose flush waits for its 20 ms                *)
  interval,  (* the 50 ms tick runs                                        *)
  stream,    (* stream[s]: the streamer of stem s                          *)
  ctx,       (* the AudioContext runs, with "resuming" when asked to       *)
  toWorklet, toMain, (* the two message ports                              *)
  word,      (* control words: state, read, eof, ended                     *)
  written,   (* written[s]: WRITE_POS of stem s                            *)
  ring,      (* ring[s]: song frames in the slots, -1 for none             *)
  audio,     (* the quantum the audio thread copies: first position and    *)
             (* frames, or that it is ending; Silent between two           *)
  consumed   (* history: frames consumed since the flush, not wrapped      *)

mainVars == <<state, generation, pendingFlush, anchor, plan, timers, interval>>
loopVars == <<region, loopOn>>
portVars == <<toWorklet, toMain>>
sharedVars == <<word, written, ring>>
audioVars == <<audio, consumed>>
playerVars == <<mainVars, loopVars, stream, ctx, portVars, sharedVars, audioVars, faults>>

None == 0
Silent == [read |-> 0, need |-> 0]
Ending == [read |-> 0, need |-> -1]
NoPlan == [start |-> 0, loop |-> NoLoop, prefix |-> 0, length |-> -2, total |-> 0]
Busy == [song |-> -1, frames |-> 0]
Off == [on |-> FALSE, pos |-> 0, first |-> TRUE, fetch |-> NoChunk, eof |-> FALSE]

IsPlaying == state \in {"playing", "priming"}
LoopRange == IF loopOn THEN region ELSE NoLoop

\* currentFrame and position: what the plan says of READ_POS while playing.
CurrentFrame ==
  IF IsPlaying /\ plan # NoPlan THEN SongFrameAt(plan, word.read) ELSE anchor

-----------------------------------------------------------------------------
(* Streamers *)

Buffered(wd, wr, s) == Word(wr[s] - wd.read)

\* StemStreamer.tick: the next range is requested, one at a time.
Ticked(p, wd, wr, str, s) ==
  LET st == str[s]
      chunk == NextChunk(p, st.pos, IF st.first THEN FirstChunk ELSE ChunkFrames) IN
  IF ~st.on \/ st.fetch # NoChunk \/ st.eof \/ st.pos >= MaxStream THEN st
  ELSE IF chunk = NoChunk THEN [st EXCEPT !.eof = TRUE]
  ELSE IF ShouldFetch(Buffered(wd, wr, s), chunk.frames, Prefetch)
  THEN [st EXCEPT !.fetch = chunk]
  ELSE st

Aborted(st) == [st EXCEPT !.on = FALSE, !.fetch = NoChunk]

-----------------------------------------------------------------------------
(* Transport *)

\* haltStream: the worklet stops, fetches are aborted, the interval ends.
Halt ==
  /\ generation' = generation + 1
  /\ word' = [word EXCEPT !.state = "stopped"]
  /\ stream' = [s \in Stems |-> Aborted(stream[s])]
  /\ interval' = FALSE

\* Mutant of Resumed: a start does not wake the context.
StillSuspended == ctx

\* resumeContext: a context that does not run is asked to.
Resumed == IF ctx = "suspended" THEN "resuming" ELSE ctx

\* startFrom: silence, then after 20 ms a flush.
StartFrom(frame) ==
  /\ generation < MaxStarts
  /\ ctx' = Resumed
  /\ Halt
  /\ anchor' = frame /\ state' = "priming"
  /\ pendingFlush' = generation + 1
  /\ timers' = timers \cup {generation + 1}
  /\ UNCHANGED <<plan, portVars, written, ring, audioVars, faults>>

Idle == UNCHANGED <<mainVars, stream, ctx, portVars, sharedVars, audioVars, faults>>

Play ==
  /\ ~IsPlaying
  /\ StartFrom(IF state = "ended" \/ anchor >= Total
               THEN (IF loopOn THEN region.start ELSE 0) ELSE anchor)
  /\ UNCHANGED loopVars

Stop ==
  /\ state \notin {"stopped", "ready"}
  /\ Halt
  /\ anchor' = CurrentFrame /\ state' = "stopped" /\ pendingFlush' = None
  /\ UNCHANGED <<plan, timers, loopVars, ctx, portVars, written, ring, audioVars, faults>>

Seek(frame) ==
  /\ IF IsPlaying THEN StartFrom(frame)
     ELSE /\ anchor' = frame
          /\ state' = IF state = "ended" THEN "stopped" ELSE state
          /\ UNCHANGED <<generation, pendingFlush, plan, timers, interval, stream, ctx,
                         portVars, sharedVars, audioVars, faults>>
  /\ UNCHANGED loopVars

\* replan: a changed loop restarts the stream where it is.
Replan == IF IsPlaying THEN StartFrom(CurrentFrame) ELSE Idle

SetLoopRegion(r) ==
  /\ ValidLoop(r, Total) # NoLoop
  /\ region' = ValidLoop(r, Total)
  /\ IF loopOn THEN Replan ELSE Idle
  /\ UNCHANGED loopOn

SetLoopEnabled(on) ==
  /\ (on /\ region # NoLoop) # loopOn
  /\ loopOn' = (on /\ region # NoLoop)
  /\ Replan
  /\ UNCHANGED region

ClearLoop ==
  /\ region' = NoLoop /\ loopOn' = FALSE
  /\ Replan

Fail ==
  /\ Halt
  /\ state' = "error" /\ pendingFlush' = None
  /\ UNCHANGED <<anchor, plan, timers, loopVars, portVars, written, ring, audioVars>>

-----------------------------------------------------------------------------
(* Flush *)

FlushTimer(g) ==
  /\ g \in timers
  /\ timers' = timers \ {g}
  /\ toWorklet' = IF pendingFlush = g THEN Append(toWorklet, g) ELSE toWorklet
  /\ UNCHANGED <<state, generation, pendingFlush, anchor, plan, interval, loopVars, stream,
                 ctx, toMain, sharedVars, audioVars, faults>>

\* Mutant of EndHeard: the song is over when it is fetched.
EndFetched(wd, str) == \A s \in Stems : str[s].eof

\* The audio thread has reached the end of the stream.
EndHeard(wd, str) == wd.ended

\* tick of the engine: the streamers, then from priming to playing, then the
\* end.  wd, wr and str are the control words, positions and streamers it finds.
EngineTick(p, wd, wr, str) ==
  LET ticked == [s \in Stems |-> Ticked(p, wd, wr, str, s)]
      needed == IF p.length # Endless THEN Least(MinFill, p.length) ELSE MinFill
      filled == \A s \in Stems : Word(wr[s] - wd.read) >= needed
      starts == state = "priming" /\ (filled \/ \A s \in Stems : ticked[s].eof)
      ends == (state = "playing" \/ starts) /\ EndHeard(wd, ticked) IN
  /\ state' = IF ends THEN "ended" ELSE IF starts THEN "playing" ELSE state
  /\ word' = [wd EXCEPT !.state = IF ends THEN "stopped" ELSE IF starts THEN "playing" ELSE @]
  /\ stream' = IF ends THEN [s \in Stems |-> Aborted(ticked[s])] ELSE ticked
  /\ generation' = IF ends THEN generation + 1 ELSE generation
  /\ anchor' = IF ends THEN Total ELSE anchor

\* Mutant of Settled: an acknowledgement of an older flush is taken.
SettledAny(g) == pendingFlush # None

\* The acknowledgement belongs to the last start.
Settled(g) == pendingFlush = g /\ generation = g

\* onWorkletMessage "flushed": writers reset, a plan made, streamers restarted.
Flushed ==
  /\ toMain # <<>>
  /\ toMain' = Tail(toMain)
  /\ IF Settled(Head(toMain))
     THEN /\ plan' = NewPlan(anchor, Total, LoopRange)
          /\ pendingFlush' = None /\ interval' = TRUE
          /\ written' = [s \in Stems |-> 0]
          /\ EngineTick(plan', [word EXCEPT !.state = "priming", !.eof = plan'.length,
                                            !.ended = FALSE],
                        written', [s \in Stems |-> [Off EXCEPT !.on = TRUE]])
     ELSE UNCHANGED <<plan, pendingFlush, interval, written, stream, word, state,
                      generation, anchor>>
  /\ UNCHANGED <<timers, loopVars, ctx, toWorklet, ring, audioVars, faults>>

\* The interval ends with the stream.
EndsInterval == interval' = (interval /\ state' # "ended")

Tick ==
  /\ interval /\ IsPlaying
  /\ EngineTick(plan, word, written, stream)
  /\ EndsInterval
  /\ UNCHANGED <<pendingFlush, plan, timers, loopVars, ctx, portVars, written, ring,
                 audioVars, faults>>

-----------------------------------------------------------------------------
(* Fetches: the streamers' promises *)

\* SharedRings.write: frames of the song from one position on, or no room.
HasRoom(s, frames) == frames <= RingFrames - Buffered(word, written, s)

Filled(r, from, song, frames) ==
  [i \in 0..RingFrames - 1 |->
     LET k == (i - from) % RingFrames IN IF k < frames THEN song + k ELSE r[i]]

\* fetchChunk: the frames are written and the engine ticks; only then may the
\* streamer fetch again.
FetchDone(s) ==
  LET chunk == stream[s].fetch
      wr == [written EXCEPT ![s] = Word(@ + chunk.frames)]
      str == [stream EXCEPT ![s].pos = @ + chunk.frames, ![s].first = FALSE] IN
  /\ chunk \notin {NoChunk, Busy}
  /\ HasRoom(s, chunk.frames)
  /\ ring' = [ring EXCEPT ![s] = Filled(@, Slot(written[s]), chunk.song, chunk.frames)]
  /\ written' = wr
  /\ EngineTick(plan, word, wr, [str EXCEPT ![s].fetch = Busy])
  /\ EndsInterval
  /\ UNCHANGED <<pendingFlush, plan, timers, loopVars, ctx, portVars, audioVars, faults>>

\* finally: the streamer is free again.
FetchSettles(s) ==
  /\ stream[s].fetch = Busy
  /\ stream' = [stream EXCEPT ![s].fetch = NoChunk]
  /\ UNCHANGED <<mainVars, loopVars, ctx, portVars, sharedVars, audioVars, faults>>

\* A bad answer, a short body, or a ring without room.
FetchFails(s) ==
  /\ stream[s].fetch \notin {NoChunk, Busy}
  /\ IF HasRoom(s, stream[s].fetch.frames) THEN Fault("fetch") ELSE UNCHANGED faults
  /\ Fail
  /\ UNCHANGED ctx

-----------------------------------------------------------------------------
(* The AudioContext and the audio thread *)

\* The device is interrupted; while playing, the context is asked to resume.
Suspends ==
  /\ ctx = "running" /\ audio = Silent
  /\ Fault("suspend")
  /\ ctx' = IF IsPlaying THEN "resuming" ELSE "suspended"
  /\ UNCHANGED <<mainVars, loopVars, stream, portVars, sharedVars, audioVars>>

Resumes ==
  /\ ctx = "resuming"
  /\ ctx' = "running"
  /\ UNCHANGED <<mainVars, loopVars, stream, portVars, sharedVars, audioVars, faults>>

\* As often as it likes, once something suspended the context.
ResumeFails ==
  /\ ctx = "resuming"
  /\ ctx' = "suspended"
  /\ UNCHANGED faults
  /\ IF state = "error"
     THEN UNCHANGED <<mainVars, loopVars, stream, portVars, sharedVars, audioVars>>
     ELSE Fail

Consuming == ctx = "running" /\ audio = Silent

AudioFlush ==
  /\ Consuming /\ toWorklet # <<>>
  /\ toWorklet' = Tail(toWorklet)
  /\ toMain' = Append(toMain, Head(toWorklet))
  /\ word' = [word EXCEPT !.read = 0, !.ended = FALSE]
  /\ consumed' = 0
  /\ UNCHANGED <<mainVars, loopVars, stream, ctx, written, ring, audio, faults>>

Left == Word(word.eof - word.read)

\* Frames of the next quantum: the last one of a song is shorter.
Need == IF word.eof # Endless THEN Least(Quantum, Left) ELSE Quantum

\* process, up to the copy: the end of the stream, an underrun, or a quantum.
AudioBegin ==
  /\ Consuming /\ word.state = "playing"
  /\ IF word.eof # Endless /\ Left <= 0
     THEN ~word.ended /\ audio' = Ending
     ELSE /\ \A s \in Stems : Word(written[s] - word.read) >= Need
          /\ audio' = [read |-> word.read, need |-> Need]
  /\ UNCHANGED <<mainVars, loopVars, stream, ctx, portVars, sharedVars, consumed, faults>>

\* ENDED is stored on the grounds of the words read before.
AudioEnds ==
  /\ audio = Ending
  /\ word' = [word EXCEPT !.ended = TRUE]
  /\ audio' = Silent
  /\ UNCHANGED <<mainVars, loopVars, stream, ctx, portVars, written, ring, consumed, faults>>

\* The quantum is copied and READ_POS moves on, whatever happened meanwhile.
AudioCopied ==
  /\ audio \notin {Silent, Ending}
  /\ word' = [word EXCEPT !.read = Word(audio.read + audio.need)]
  /\ consumed' = consumed + audio.need
  /\ audio' = Silent
  /\ UNCHANGED <<mainVars, loopVars, stream, ctx, portVars, written, ring, faults>>

-----------------------------------------------------------------------------
PlayerInit ==
  /\ state = "ready" /\ generation = 0 /\ pendingFlush = None /\ anchor = 0
  /\ plan = NoPlan /\ timers = {} /\ interval = FALSE
  /\ region = NoLoop /\ loopOn = FALSE
  /\ stream = [s \in Stems |-> Off]
  /\ ctx = "running"
  /\ toWorklet = <<>> /\ toMain = <<>>
  /\ word = [state |-> "stopped", read |-> 0, eof |-> Endless, ended |-> FALSE]
  /\ written = [s \in Stems |-> 0]
  /\ ring = [s \in Stems |-> [i \in 0..RingFrames - 1 |-> -1]]
  /\ audio = Silent /\ consumed = 0
  /\ faults = 0

User ==
  \/ Play \/ Stop \/ ClearLoop
  \/ \E f \in Seeks : Seek(f)
  \/ \E r \in Regions : SetLoopRegion(r)
  \/ \E on \in BOOLEAN : SetLoopEnabled(on)

AudioStep == AudioFlush \/ AudioBegin \/ AudioEnds \/ AudioCopied

PlayerNext ==
  \/ User
  \/ \E g \in timers : FlushTimer(g)
  \/ Flushed \/ Tick
  \/ \E s \in Stems : FetchDone(s) \/ FetchSettles(s) \/ FetchFails(s)
  \/ Suspends \/ Resumes \/ ResumeFails \/ AudioStep

PlayerSpec == PlayerInit /\ [][PlayerNext]_playerVars

\* Timers fire, messages arrive, the server answers, a resume is answered, and
\* the audio thread goes on.
PlayerFairness ==
  /\ \A g \in 1..MaxStarts : WF_playerVars(FlushTimer(g))
  /\ WF_playerVars(Flushed) /\ WF_playerVars(Tick) /\ WF_playerVars(Resumes)
  /\ \A s \in Stems : WF_playerVars(FetchDone(s)) /\ WF_playerVars(FetchSettles(s))
  /\ WF_playerVars(AudioStep)

FairPlayerSpec == PlayerSpec /\ PlayerFairness

-----------------------------------------------------------------------------
(* What the player promises *)

PlayerTypeOK ==
  /\ state \in {"ready", "priming", "playing", "stopped", "ended", "error"}
  /\ generation \in Nat /\ pendingFlush \in 0..MaxStarts /\ anchor \in 0..Total
  /\ timers \subseteq 1..MaxStarts /\ interval \in BOOLEAN /\ loopOn \in BOOLEAN
  /\ ctx \in {"running", "suspended", "resuming"}
  /\ \A s \in Stems : /\ written[s] \in (-WordHalf)..(WordHalf - 1)
                      /\ stream[s].pos \in Nat /\ stream[s].on \in BOOLEAN
  /\ word.read \in (-WordHalf)..(WordHalf - 1) /\ word.ended \in BOOLEAN
  /\ consumed \in Nat /\ faults \in 0..MaxFaults

\* What sounds is what the plan says: a quantum that is copied for the current
\* stream finds in every ring the frames of its song positions, across the end
\* of the ring and of the 32-bit counters.
HeardIsPlanned ==
  audio \notin {Silent, Ending} /\ word.state = "playing" =>
    \A s \in Stems, k \in 0..audio.need - 1 :
      ring[s][Slot(audio.read + k)] = SongFrameAt(plan, consumed + k)

\* A fetched range always fits, so the overflow that write refuses never ends
\* the playback.
FetchesFit ==
  \A s \in Stems : stream[s].fetch \notin {NoChunk, Busy} => HasRoom(s, stream[s].fetch.frames)

\* The player says that the song ended only when all of it was heard.
EndIsReached ==
  [][state' = "ended" /\ state # "ended" => plan.length # Endless /\ consumed = plan.length]_playerVars

\* A start is followed by sound, an error, or another command.
PrimingEnds == state = "priming" ~> state # "priming"

\* A song that plays without a loop comes to its end.
SongEnds == state = "playing" /\ ~loopOn ~> state # "playing" \/ loopOn

\* The safety of the player: its words stay words, what sounds is what the plan
\* says, and no ring is overrun.
PlayerInv == PlayerTypeOK /\ HeardIsPlanned /\ FetchesFit

\* Neither a start nor a song hangs: flushes, fetches and the audio thread
\* always bring playback on.
PlaybackEnds == PrimingEnds /\ SongEnds
=============================================================================
