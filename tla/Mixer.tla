------------------------------- MODULE Mixer -------------------------------
(***************************************************************************)
(* The mixer of a job's page (web/src/player/use-mixer.ts): the mix state  *)
(* with its loading and debounced saving, the streaming engine that the    *)
(* first Play creates, and the controls of the console and of the mobile   *)
(* player.  An engine's stream is that of module Player; here it has a mix *)
(* and a position.                                                         *)
(***************************************************************************)
EXTENDS Faults, FiniteSets, SequencesExt

CONSTANTS Strips,
          TopLevel,    (* the fader at the top                             *)
          Unity,       (* UNITY_POSITION                                   *)
          Duration,    (* seconds of the song                              *)
          MinLoopSeconds, DefaultLoop,
          RawMixes,    (* mixes that may be stored                         *)
          Nobody,      (* no stem                                          *)
          MaxEngines, MaxInputs (* bounds on starts, and on changes and seeks *)

Levels == 0..TopLevel

\* What is stored has the shape of a mix, of any stems and with any numbers.
StoredShape(m) ==
  /\ \A s \in DOMAIN m.stems : m.stems[s].position \in Int /\ m.stems[s].muted \in BOOLEAN
  /\ m.loop.start \in Int /\ m.loop.end \in Int /\ m.loopEnabled \in BOOLEAN
  /\ m.master \in Int

ASSUME MixerAssumption ==
  /\ TopLevel \in Nat /\ Unity \in Levels /\ Nobody \notin Strips
  /\ Duration \in Nat /\ MinLoopSeconds \in Nat \ {0} /\ DefaultLoop \in Nat \ {0}
  /\ MaxEngines \in Nat /\ MaxInputs \in Nat
  /\ \A m \in RawMixes : StoredShape(m)

VARIABLES
  mix,       (* MixState                                                   *)
  loaded,    (* mixLoaded; "reading" until getMix has answered             *)
  timer,     (* the 600 ms of the persist effect run                       *)
  puts,      (* PUTs under way, oldest first                               *)
  stored,    (* the mix on the server                                      *)
  first,     (* history: the mix that was stored at the beginning          *)
  engines,   (* engines[n]: the engine of the n-th start                   *)
  engineRef, (* the current one, 0 for none                                *)
  shown,     (* engineState and starting, as rendered                      *)
  position,  (* pendingPosition                                            *)
  mounted,
  changes, seeks, (* how many so far                                       *)
  hasty      (* history: something happened while an engine was starting   *)

saveVars == <<loaded, timer, puts, stored, first>>
engineVars == <<engines, engineRef, shown>>
inputVars == <<position, mounted, changes, seeks, hasty>>
mixerVars == <<mix, saveVars, engineVars, inputVars, faults>>

AtLeast(x, low) == IF x < low THEN low ELSE x
AtMost(x, high) == IF x > high THEN high ELSE x

\* Math.max(low, Math.min(x, high))
Bounded(x, low, high) == AtLeast(AtMost(x, high), low)

NoRange == [start |-> 0, end |-> 0]

-----------------------------------------------------------------------------
(* The mix state                                                           *)

InitialMix ==
  [stems |-> [s \in Strips |-> [position |-> Unity, muted |-> FALSE]], solo |-> Nobody,
   loop |-> NoRange, loopEnabled |-> FALSE, selected |-> Nobody, master |-> Unity]

\* mixReducer, one operator per kind of action.
WithGain(m, s, p) == [m EXCEPT !.stems[s].position = Bounded(p, 0, TopLevel)]
WithMute(m, s, on) == [m EXCEPT !.stems[s].muted = on]
WithSolo(m, s) == IF s = Nobody \/ s \in Strips THEN [m EXCEPT !.solo = s] ELSE m
WithSelected(m, s) == [m EXCEPT !.selected = s]
WithMaster(m, p) == [m EXCEPT !.master = Bounded(p, 0, TopLevel)]
\* A range is set; nothing takes it away again.
WithLoop(m, l) == IF l.end <= l.start THEN m ELSE [m EXCEPT !.loop = l]
WithLoopEnabled(m, on) ==
  IF m.loop = NoRange /\ on THEN m ELSE [m EXCEPT !.loopEnabled = on]

\* isSilenced
Silenced(m, s) == m.solo # Nobody /\ m.solo # s

\* Mutant of Sanitized: what is stored is believed, the stems apart.
Believed(raw) == [raw EXCEPT !.stems = InitialMix.stems]

\* sanitize: what is stored may be of another version of the job.
Sanitized(raw) ==
  LET loop == IF raw.loop.end > raw.loop.start
              THEN [start |-> AtLeast(raw.loop.start, 0), end |-> raw.loop.end] ELSE NoRange
      stem(s) == IF s \in DOMAIN raw.stems
                 THEN [position |-> Bounded(raw.stems[s].position, 0, TopLevel),
                       muted |-> raw.stems[s].muted]
                 ELSE InitialMix.stems[s]
      known(s) == IF s \in Strips THEN s ELSE Nobody IN
  [stems |-> [s \in Strips |-> stem(s)], solo |-> known(raw.solo), loop |-> loop,
   loopEnabled |-> raw.loopEnabled /\ loop # NoRange, selected |-> known(raw.selected),
   master |-> Bounded(raw.master, 0, TopLevel)]

\* What is stored, as it is loaded: by the effect and again by the reducer.
Loaded(raw) == Sanitized(Sanitized(raw))

-----------------------------------------------------------------------------
(* Engines                                                                 *)

NoEngine == [phase |-> "none", state |-> "idle", mix |-> InitialMix, position |-> 0]
Sounding == {n \in 1..MaxEngines : engines[n].state = "playing"}
Starting(n) == engines[n].phase \in {"probing", "init"}
Current(n) == engineRef = n

\* While one initialises, it is not told of what changes.
Deaf == \E n \in 1..MaxEngines : engines[n].phase = "init"

\* effectiveGain: the fader, unless muted or silenced by a solo.
Effective(e, s) ==
  IF e.mix.stems[s].muted \/ Silenced(e.mix, s) THEN 0 ELSE e.mix.stems[s].position

\* Strip: dead when muted or silenced.
StripLevel(s) ==
  IF mix.stems[s].muted \/ Silenced(mix, s) THEN 0 ELSE mix.stems[s].position

\* Mutant of Saves: the first render is saved too.
SavesAtOnce(l) == TRUE

\* Mutant of Saves: only the initial mix is saved.
SavesUnread(l) == l = "reading"

\* The persist effect waits for the mix to be loaded.
Saves(l) == l = "yes"

\* Mutant of Applied: a change of the loop does not reach the engine.
AppliedLevels(e, m) == [e EXCEPT !.mix = [m EXCEPT !.loop = e.mix.loop]]

\* applyMix: gains, mutes, solo, master and loop.
Applied(e, m) == [e EXCEPT !.mix = m]

\* A new mix is rendered: the effects apply it to the current engine and
\* restart the wait for the save.
Rendered(m) ==
  /\ mix' = m
  /\ engines' = [n \in 1..MaxEngines |-> IF Current(n) THEN Applied(engines[n], m)
                                         ELSE engines[n]]
  /\ timer' = (timer \/ (m # mix /\ Saves(loaded)))
  /\ UNCHANGED <<puts, stored, first, engineRef, shown>>

\* The user changes the mix to m.
Change(m) ==
  /\ mounted /\ changes + seeks < MaxInputs /\ m # mix
  /\ changes' = changes + 1
  /\ hasty' = (hasty \/ Deaf)
  /\ Rendered(m)
  /\ UNCHANGED <<loaded, position, mounted, seeks, faults>>

\* Strip, MasterStrip and MobileStemRow: pointer and keys only ever give a
\* position of the travel.
MoveFader(s, p) == Change(WithGain(mix, s, p))
MoveMaster(p) == Change(WithMaster(mix, p))
ToggleMute(s) == Change(WithMute(mix, s, ~mix.stems[s].muted))
ToggleSolo(s) == Change(WithSolo(mix, IF mix.solo = s THEN Nobody ELSE s))
ClearSolo == Change(WithSolo(mix, Nobody))
Select(s) == Change(WithSelected(mix, s))

\* Waveform: a grip keeps MIN_LOOP_SECONDS from the other one.
DragLoopStart(t) ==
  /\ mix.loop # NoRange
  /\ Change(WithLoop(mix, [mix.loop EXCEPT !.start = Bounded(t, 0, mix.loop.end - MinLoopSeconds)]))
DragLoopEnd(t) ==
  /\ mix.loop # NoRange
  /\ Change(WithLoop(mix, [mix.loop EXCEPT !.end = AtMost(AtLeast(t, mix.loop.start + MinLoopSeconds), Duration)]))

\* Where the user hears it: the engine's position, or where it will start.
Playhead == IF engineRef # 0 THEN engines[engineRef].position ELSE position

\* toggleLoop: the first time a range around the playhead.
ToggleLoop ==
  LET start == Bounded(Playhead, 0, Duration - AtMost(DefaultLoop, Duration))
      range == [start |-> start, end |-> AtMost(start + DefaultLoop, Duration)] IN
  IF mix.loop = NoRange
  THEN range.end > range.start /\ Change(WithLoopEnabled(WithLoop(mix, range), TRUE))
  ELSE Change(WithLoopEnabled(mix, ~mix.loopEnabled))

-----------------------------------------------------------------------------
(* Loading and saving                                                      *)

\* getMix answers: load, and the effect of mixLoaded.
LoadMix ==
  /\ mounted /\ loaded = "reading"
  /\ loaded' = "yes" /\ timer' = Saves("yes")
  /\ mix' = Loaded(stored)
  /\ hasty' = (hasty \/ Deaf)
  /\ engines' = [n \in 1..MaxEngines |-> IF Current(n) THEN Applied(engines[n], mix')
                                         ELSE engines[n]]
  /\ UNCHANGED <<puts, stored, first, engineRef, shown, position, mounted, changes, seeks, faults>>

\* getMix fails: the initial mix is taken for loaded, and saved.
LoadMixFails ==
  /\ mounted /\ loaded = "reading"
  /\ Fault("getMix")
  /\ loaded' = "yes" /\ timer' = Saves("yes")
  /\ UNCHANGED <<mix, puts, stored, first, engineVars, inputVars>>

Persist ==
  /\ mounted /\ timer
  /\ timer' = FALSE
  /\ puts' = Append(puts, mix)
  /\ UNCHANGED <<mix, loaded, stored, first, engineVars, inputVars, faults>>

\* A PUT arrives: in the order of sending, or (a fault) another one first.
PutArrives(i) ==
  /\ i \in DOMAIN puts
  /\ IF i = 1 THEN UNCHANGED faults ELSE Fault("reorder")
  /\ stored' = puts[i]
  /\ puts' = RemoveAt(puts, i)
  /\ UNCHANGED <<mix, loaded, timer, first, engineVars, inputVars>>

\* A failed PUT is not repeated.
PutFails ==
  /\ puts # <<>>
  /\ Fault("putMix")
  /\ puts' = Tail(puts)
  /\ UNCHANGED <<mix, loaded, timer, stored, first, engineVars, inputVars>>

-----------------------------------------------------------------------------
(* Transport                                                               *)

Playing == shown.state = "playing"

\* ensureEngine finds the engine of the first Play.
HasEngine == engineRef # 0

Free == {n \in 1..MaxEngines : engines[n].phase = "none"}

\* play of the engine: from the start again at the end.
Plays(e) == [e EXCEPT !.state = "playing", !.position = IF e.state = "ended" THEN 0 ELSE @]

\* togglePlay while nothing plays; the button stays enabled during a start.
PressPlay ==
  /\ mounted /\ ~Playing
  /\ IF HasEngine
     THEN /\ engines' = [engines EXCEPT ![engineRef] = Plays(@)]
          /\ shown' = [shown EXCEPT !.state = "playing"]
          /\ UNCHANGED hasty
     ELSE /\ Free # {}
          /\ LET n == CHOOSE n \in Free : \A k \in Free : n <= k IN
             engines' = [engines EXCEPT ![n] = [NoEngine EXCEPT !.phase = "probing"]]
          /\ shown' = [shown EXCEPT !.starting = TRUE]
          /\ hasty' = (hasty \/ \E n \in 1..MaxEngines : Starting(n))
  /\ UNCHANGED <<mix, saveVars, engineRef, position, mounted, changes, seeks, faults>>

\* probeStems has answered: an engine with the mix and position of now, that
\* its init takes further.
Probed(n) ==
  /\ engines[n].phase = "probing"
  /\ engines' = [engines EXCEPT ![n] = [@ EXCEPT !.phase = "init", !.mix = mix, !.position = position]]
  /\ UNCHANGED <<mix, saveVars, engineRef, shown, inputVars, faults>>

\* init is done: the engine becomes the current one, and plays.
Started(n) ==
  /\ engines[n].phase = "init"
  /\ engineRef' = n
  /\ engines' = [engines EXCEPT ![n] = Plays([@ EXCEPT !.phase = "live"])]
  /\ shown' = [state |-> "playing", starting |-> FALSE]
  /\ UNCHANGED <<mix, saveVars, inputVars, faults>>

StartFails(n) ==
  /\ Starting(n)
  /\ Fault("start")
  /\ engines' = [engines EXCEPT ![n].phase = "failed"]
  /\ shown' = [state |-> "error", starting |-> FALSE]
  /\ UNCHANGED <<mix, saveVars, engineRef, inputVars>>

\* togglePlay while something plays: the current engine stops.
PressStop ==
  /\ mounted /\ Playing /\ engineRef # 0
  /\ engines' = [engines EXCEPT ![engineRef].state = "stopped"]
  /\ shown' = [shown EXCEPT !.state = "stopped"]
  /\ UNCHANGED <<mix, saveVars, engineRef, inputVars, faults>>

\* The stream of an engine ends or fails; every engine reports its state.
StreamEnds(n) ==
  /\ engines[n].phase = "live" /\ engines[n].state = "playing"
  /\ engines' = [engines EXCEPT ![n].state = "ended", ![n].position = Duration]
  /\ shown' = [shown EXCEPT !.state = "ended"]
  /\ UNCHANGED <<mix, saveVars, engineRef, inputVars, faults>>

\* seek: Waveform, nudge and returnToStart.
SeekTo(t) ==
  /\ mounted /\ changes + seeks < MaxInputs
  /\ seeks' = seeks + 1
  /\ position' = Bounded(t, 0, Duration)
  /\ hasty' = (hasty \/ Deaf)
  /\ engines' = [n \in 1..MaxEngines |->
                   IF Current(n) THEN [engines[n] EXCEPT !.position = position',
                                         !.state = IF @ = "ended" THEN "stopped" ELSE @]
                   ELSE engines[n]]
  /\ shown' = IF engineRef # 0 THEN [shown EXCEPT !.state = engines'[engineRef].state] ELSE shown
  /\ UNCHANGED <<mix, saveVars, engineRef, mounted, changes, faults>>

Nudge(by) == SeekTo(Playhead + by)
ReturnToStart == SeekTo(IF mix.loopEnabled THEN mix.loop.start ELSE 0)

\* Mutant of Closed: the stream is left to itself.
ClosedOnly(e) == [e EXCEPT !.phase = "closed"]

\* destroy
Closed(e) == [e EXCEPT !.phase = "closed", !.state = "idle"]

\* The panel goes: what waits to be saved is dropped, the engine destroyed.
Unmount ==
  /\ mounted
  /\ mounted' = FALSE /\ timer' = FALSE
  /\ engines' = [n \in 1..MaxEngines |->
                   IF Current(n) THEN Closed(engines[n]) ELSE engines[n]]
  /\ engineRef' = 0
  /\ hasty' = (hasty \/ \E n \in 1..MaxEngines : Starting(n))
  /\ UNCHANGED <<mix, loaded, puts, stored, first, shown, position, changes, seeks, faults>>

-----------------------------------------------------------------------------
\* The panel of a completed job is on the page, or it is not.
MixerInit ==
  /\ mix = InitialMix
  /\ loaded = "reading" /\ timer = Saves("reading") /\ puts = <<>>
  /\ stored \in RawMixes /\ first = stored
  /\ engines = [n \in 1..MaxEngines |-> NoEngine] /\ engineRef = 0
  /\ shown = [state |-> "idle", starting |-> FALSE]
  /\ position = 0 /\ mounted \in BOOLEAN /\ changes = 0 /\ seeks = 0 /\ hasty = FALSE
  /\ faults = 0

Console ==
  \/ \E s \in Strips : \/ ToggleMute(s) \/ ToggleSolo(s) \/ Select(s)
                       \/ \E p \in Levels : MoveFader(s, p)
  \/ \E p \in Levels : MoveMaster(p)
  \/ ClearSolo \/ ToggleLoop
  \/ \E t \in 0..Duration : DragLoopStart(t) \/ DragLoopEnd(t) \/ SeekTo(t)
  \/ ReturnToStart
  \/ \E by \in {-1, 1} : Nudge(by)
  \/ PressPlay \/ PressStop

MixerNext ==
  \/ Console \/ Unmount
  \/ LoadMix \/ LoadMixFails \/ Persist \/ PutFails
  \/ \E i \in 1..Len(puts) : PutArrives(i)
  \/ \E n \in 1..MaxEngines : Probed(n) \/ Started(n) \/ StartFails(n) \/ StreamEnds(n)

MixerSpec == MixerInit /\ [][MixerNext]_mixerVars

\* Requests are answered and the wait for the save ends.
MixerFairness ==
  /\ WF_mixerVars(LoadMix) /\ WF_mixerVars(Persist) /\ WF_mixerVars(PutArrives(1))

FairMixerSpec == MixerSpec /\ MixerFairness

-----------------------------------------------------------------------------
(* What the mixer promises *)

StemMixes == [position : Levels, muted : BOOLEAN]

MixerTypeOK ==
  /\ \A s \in Strips : mix.stems[s] \in StemMixes
  /\ mix.selected \in Strips \cup {Nobody} /\ mix.master \in Levels
  /\ loaded \in {"reading", "yes"} /\ timer \in BOOLEAN /\ mounted \in BOOLEAN
  /\ position \in 0..Duration /\ engineRef \in 0..MaxEngines
  /\ \A n \in 1..MaxEngines :
       /\ engines[n].phase \in {"none", "probing", "init", "live", "failed", "closed"}
       /\ engines[n].state \in {"idle", "playing", "stopped", "ended"}
  /\ shown.state \in {"idle", "playing", "stopped", "ended", "error"}

\* Whatever is stored, somebody is heard: a solo is of a stem of the job, and
\* an enabled loop has a range.
SoundMix ==
  /\ mix.solo \in Strips \cup {Nobody}
  /\ mix.loopEnabled => mix.loop.start < mix.loop.end

\* Opening a page does not rewrite the mix that was stored: until the user
\* changes it, and unless it could not be read, what is stored means the same.
OpeningKeepsTheMix ==
  changes = 0 /\ faults = 0 => Loaded(stored) = Loaded(first)

\* A changed mix is stored in the end, unless the page is left, a PUT fails or
\* one overtakes another.
MixIsStored == []<>(stored = mix \/ ~mounted \/ faults > 0)

\* Only the engine that the controls reach is heard, unless Play was pressed
\* again, or the page left, while the engine was starting.
OneEngineSounds == ~hasty => Sounding \subseteq {engineRef}

\* The strips show what is heard: through loading, changes and restarts the
\* current engine has the levels of the strips, its master and its loop.
Agrees(e) ==
  /\ \A s \in Strips : Effective(e, s) = StripLevel(s)
  /\ e.mix.master = mix.master /\ e.mix.loop = mix.loop /\ e.mix.loopEnabled = mix.loopEnabled

HeardAsShown == ~hasty /\ engineRef # 0 => Agrees(engines[engineRef])

\* The mix is sound, and opening a page does not change it.
MixInv == MixerTypeOK /\ SoundMix /\ OpeningKeepsTheMix

\* What is heard is what the strips show, and nothing else is.
EngineFollows == OneEngineSounds /\ HeardAsShown
=============================================================================
