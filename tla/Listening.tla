----------------------------- MODULE Listening -----------------------------
(***************************************************************************)
(* Listening to the stems of a job: the streaming engine (Player), or the  *)
(* mixer over the engines it makes (Mixer, to which an engine is a mix and *)
(* a position).  They share no state, so one of them is at work and the    *)
(* other at rest: the player before its first Play, the mixer off the page.*)
(***************************************************************************)
EXTENDS Player, Mixer

VARIABLE hearing \* "player" or "mixer"

listeningVars == <<hearing, playerVars, mixerVars>>

ListeningInit ==
  /\ PlayerInit /\ MixerInit
  /\ hearing = (IF mounted THEN "mixer" ELSE "player")
  /\ mounted \/ stored = CHOOSE m \in RawMixes : TRUE

ListeningNext ==
  /\ UNCHANGED hearing
  /\ \/ hearing = "player" /\ PlayerNext /\ UNCHANGED <<mix, saveVars, engineVars, inputVars>>
     \/ hearing = "mixer" /\ MixerNext
        /\ UNCHANGED <<mainVars, loopVars, stream, ctx, portVars, sharedVars, audioVars>>

\* What is at rest has no step under fairness: nothing is under way in the
\* player, and a mixer off the page loads and saves nothing.
FairListeningSpec ==
  ListeningInit /\ [][ListeningNext]_listeningVars /\ PlayerFairness /\ MixerFairness
=============================================================================
