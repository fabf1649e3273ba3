---------------------------- MODULE Scaler_proofs ---------------------------
(***************************************************************************)
(* Proofs about the GPU scaler, for any number of instances, jobs' kinds   *)
(* and faults: its types, that instances of others are never touched, and  *)
(* that as long as vast does not lag there are never two paid ones.        *)
(***************************************************************************)
EXTENDS Scaler, TLAPS

USE DEF scalerVars, vastVars, queueVars, tickVars, stateVars

-----------------------------------------------------------------------------
(* The inductive invariant *)

ObsType == [ok : BOOLEAN, waiting : SUBSET Kinds, active : BOOLEAN, listed : SUBSET Instances,
            up : SUBSET Instances, ours : SUBSET Instances]

\* The scaler knows and plans to destroy instances of its own only, and there is
\* one when it is about to act on it.
OursOnly ==
  /\ state.id \in Ours \cup {None} /\ disk.id \in Ours \cup {None}
  /\ todo \subseteq Ours /\ obs.ours \subseteq Ours
  /\ pc \in {"decide", "destroy", "close"} => state.id # None

\* What is listed, planned or known was created.
Made(i) == i \in Ours => inst[i] # "none"
Created ==
  /\ \A i \in listed \cup todo \cup obs.ours : Made(i)
  /\ Made(state.id) /\ Made(disk.id)

\* A tick has seen every paid instance; before a rent there is none.
SeenAll ==
  /\ pc \in {"again", "orphans", "decide"} => \A i \in Ours : Alive(i) => i \in obs.listed
  /\ pc = "again" => \A i \in Ours : Alive(i) => i \in obs.ours
  /\ pc = "orphans" /\ state.id = None => \A i \in Ours : Alive(i) => i \in todo
  /\ pc = "rent" => \A i \in Ours : ~Alive(i)
  /\ pc = "close" => inst[state.id] = "gone"

\* Paid instances are listed, and what the state remembers as destroyed is gone.
Prompt ==
  /\ \A i \in Ours : Alive(i) => i \in listed
  /\ \A i \in state.recent \cup disk.recent : inst[i] = "gone"
  /\ SeenAll /\ HardCap

ScalerIInv == ScalerTypeOK /\ OursOnly /\ Created /\ (~lags => Prompt)
-----------------------------------------------------------------------------
(* What the steps are made of *)

LEMMA FaultCounts ==
  ASSUME faults \in 0..MaxFaults, NEW kind, Fault(kind)
  PROVE  faults' \in 0..MaxFaults
BY FaultsAssumption DEF Fault

LEMMA NoObsType ==
  /\ NoObs \in ObsType /\ NoObs.ours = {} /\ NoObs.listed = {}
BY DEF NoObs, ObsType

\* A state that is saved, or is not.
LEMMA Saves ==
  ASSUME faults \in 0..MaxFaults, NEW s, Save(s)
  PROVE  state' = s /\ (disk' = s \/ disk' = disk) /\ faults' \in 0..MaxFaults
BY FaultCounts DEF Save

LEMMA ClosedFields ==
  ASSUME NEW s \in StateType, s.id \in Instances
  PROVE  /\ Closed(s) \in StateType /\ Closed(s).id = None
         /\ Closed(s).recent = s.recent \cup {s.id}
<1> DEFINE r == s.recent \cup {s.id}
           y == [id |-> None, stack |-> "plain", age |-> 0, idle |-> 0, cooling |-> s.cooling, recent |-> r]
<1>1. r \in SUBSET Instances /\ s.cooling \in BOOLEAN /\ 0 \in 0..AgeBound
  BY ScalerAssumption DEF StateType
<1>2. Closed(s) = [s EXCEPT !.id = None, !.stack = "plain", !.age = 0, !.idle = 0, !.recent = r]
  BY DEF Closed, StateType
<1> HIDE DEF r
<1>3. Closed(s) = y
  BY <1>2 DEF StateType
<1>4. y \in StateType /\ y.id = None /\ y.recent = r
  BY <1>1 DEF StateType
<1> QED BY <1>3, <1>4 DEF r

\* Instances that are destroyed or go away: all others stay as they are.
Killed(S) ==
  /\ listed' = listed /\ image' = image /\ inst' \in [Instances -> {"none", "loading", "running", "gone"}]
  /\ \A i \in Instances : inst'[i] = inst[i] \/ (i \in S /\ inst'[i] = "gone")

LEMMA KillKills ==
  ASSUME ScalerTypeOK, NEW i \in Instances, Kill(i)
  PROVE  Killed({i}) /\ inst'[i] = "gone"
BY DEF ScalerTypeOK, Kill, Killed

LEMMA NothingKilled ==
  ASSUME ScalerTypeOK, UNCHANGED vastVars
  PROVE  Killed({})
BY DEF ScalerTypeOK, Killed

-----------------------------------------------------------------------------
(* Reading *)

LEMMA ReadQueueStep ==
  ASSUME ScalerIInv, ReadQueue, UNCHANGED lags
  PROVE  ScalerIInv'
<1> DEFINE o == [NoObs EXCEPT !.ok = TRUE, !.waiting = waiting, !.active = active # {}]
           e == NoObs
<1>1. ScalerTypeOK /\ waiting \subseteq Kinds
  BY DEF ScalerIInv, ScalerTypeOK
<1>2. e \in ObsType /\ e.ours = {}
  BY NoObsType
<1>3. o = [e EXCEPT !.ok = TRUE, !.waiting = waiting, !.active = active # {}]
  OBVIOUS
<1> HIDE DEF e
<1>4. o \in ObsType /\ o.ours = {}
  BY <1>1, <1>2, <1>3 DEF ObsType
<1> HIDE DEF o
<1>5. /\ obs' = o \/ obs' = e
      /\ faults' \in 0..MaxFaults /\ pc' = "show"
      /\ UNCHANGED <<inst, listed, image, waiting, active, todo, state, disk>>
  BY <1>1, FaultCounts DEF ReadQueue, ScalerTypeOK, o, e
<1>6. obs' \in ObsType /\ obs'.ours = {}
  BY <1>2, <1>4, <1>5
<1>7. ScalerTypeOK'
  BY <1>1, <1>5, <1>6 DEF ScalerTypeOK, ObsType
<1>8. OursOnly' /\ Created'
  BY <1>5, <1>6 DEF ScalerIInv, OursOnly, Created, Made
<1>9. ~lags => Prompt'
  BY <1>5 DEF ScalerIInv, Prompt, SeenAll, HardCap, Alive
<1> QED BY <1>7, <1>8, <1>9 DEF ScalerIInv

LEMMA ShowStep ==
  ASSUME ScalerIInv, ShowInstances, UNCHANGED lags
  PROVE  ScalerIInv'
<1> DEFINE l == Labelled(listed)
           o == [obs EXCEPT !.listed = l, !.up = {i \in listed : inst[i] = "running"},
                            !.ours = l \ Recent(listed)]
<1>1. ScalerTypeOK /\ listed \subseteq Instances /\ obs \in ObsType
  BY DEF ScalerIInv, ScalerTypeOK, ObsType
<1>2. /\ l \subseteq Ours /\ l \subseteq listed /\ \A i \in Ours : i \in listed => i \in l
      /\ Recent(listed) \subseteq state.recent /\ Recent(l) \subseteq l
  BY <1>1, ScalerAssumption DEF Labelled, Instances, Recent
<1>3. CASE pc' = "again"
  <2>1. obs' = o /\ todo' = Recent(l)
    BY <1>3 DEF ShowInstances
  <2> HIDE DEF l
  <2>2. o \in ObsType /\ o.listed = l /\ o.ours = l \ Recent(listed)
    BY <1>1, <1>2 DEF ObsType, Instances
  <2> HIDE DEF o
  <2>3. faults' = faults /\ UNCHANGED <<inst, listed, image, waiting, active, state, disk>>
    BY <1>3 DEF ShowInstances
  <2>4. ScalerTypeOK'
    BY <1>1, <1>2, <1>3, <2>1, <2>2, <2>3 DEF ScalerTypeOK, ObsType
  <2>5. OursOnly' /\ Created'
    BY <1>2, <1>3, <2>1, <2>2, <2>3 DEF ScalerIInv, OursOnly, Created, Made
  <2>6. ASSUME ~lags  PROVE Prompt'
    <3>1. Prompt
      BY <2>6 DEF ScalerIInv
    <3>2. \A i \in Ours : Alive(i) => i \in l /\ i \notin Recent(listed)
      BY <1>2, <3>1 DEF Prompt, Alive
    <3> QED BY <1>3, <2>1, <2>2, <2>3, <3>1, <3>2 DEF Prompt, SeenAll, HardCap, Alive
  <2> QED BY <2>3, <2>4, <2>5, <2>6 DEF ScalerIInv
<1>4. CASE pc' # "again"
  <2>1. /\ obs' = NoObs /\ pc' = "idle" /\ faults' \in 0..MaxFaults
        /\ UNCHANGED <<inst, listed, image, waiting, active, todo, state, disk>>
    BY <1>1, <1>4, FaultCounts DEF ShowInstances, ScalerTypeOK
  <2>2. obs' \in ObsType /\ obs'.ours = {}
    BY <2>1, NoObsType
  <2>3. ScalerTypeOK'
    BY <1>1, <2>1, <2>2 DEF ScalerTypeOK, ObsType
  <2>4. OursOnly' /\ Created'
    BY <2>1, <2>2 DEF ScalerIInv, OursOnly, Created, Made
  <2>5. ~lags => Prompt'
    BY <2>1 DEF ScalerIInv, Prompt, SeenAll, HardCap, Alive
  <2> QED BY <2>3, <2>4, <2>5 DEF ScalerIInv
<1> QED BY <1>3, <1>4

-----------------------------------------------------------------------------
(* A step of the loop that rents nothing *)

Steps == {"idle", "show", "again", "orphans", "decide", "rent", "rented", "destroy", "close"}

\* Instances may go, the state keeps what it knew or forgets what is gone, and
\* the tick plans no more than it saw.
LEMMA Goes ==
  ASSUME ScalerIInv, NEW S, Killed(S), UNCHANGED <<waiting, active, lags>>, faults' \in 0..MaxFaults,
         pc' \in Steps, obs' \in ObsType, obs'.ours \subseteq obs.ours, todo' \subseteq todo \cup obs.ours,
         state' \in StateType, disk' \in StateType,
         state'.id \in {state.id, disk.id, None} \cup obs.ours \cup todo,
         disk'.id \in {state.id, disk.id, None} \cup obs.ours \cup todo,
         pc' \in {"decide", "destroy", "close"} => state'.id # None,
         ~lags => /\ \A i \in state'.recent \cup disk'.recent :
                       i \in state.recent \cup disk.recent \/ inst'[i] = "gone"
                  /\ SeenAll'
  PROVE  ScalerIInv'
<1>1. ScalerTypeOK /\ OursOnly /\ Created /\ obs.ours \subseteq Instances /\ todo \subseteq Ours
      /\ Ours \subseteq Instances /\ (state.recent \cup disk.recent) \subseteq Instances
  BY DEF ScalerIInv, OursOnly, ScalerTypeOK, Instances, StateType
<1>2. /\ UNCHANGED <<listed, image>>
      /\ inst' \in [Instances -> {"none", "loading", "running", "gone"}]
      /\ \A i \in Instances : inst'[i] = inst[i] \/ inst'[i] = "gone"
  BY DEF Killed
<1>3. ScalerTypeOK'
  <2>1. todo' \subseteq Instances
    BY <1>1
  <2>2. inst' \in [Instances -> {"none", "loading", "running", "gone"}] /\ pc' \in Steps
    BY <1>2
  <2> QED BY <1>1, <1>2, <2>1, <2>2 DEF ScalerTypeOK, Steps, ObsType
<1>4. OursOnly'
  BY <1>1 DEF OursOnly
<1>5. Created'
  <2>1. \A i : Made(i) => Made(i)'
    BY <1>1, <1>2 DEF Made
  <2>2. Made(None)
    BY ScalerAssumption DEF Made
  <2>3. \A i \in listed' \cup todo' \cup obs'.ours : Made(i)
    BY <1>1, <1>2 DEF Created
  <2>4. Made(state'.id) /\ Made(disk'.id)
    BY <1>1, <2>2 DEF Created
  <2> QED BY <2>1, <2>3, <2>4 DEF Created
<1>6. ASSUME ~lags  PROVE Prompt'
  <2>1. Prompt
    BY <1>6 DEF ScalerIInv
  <2>2. \A i \in Ours : Alive(i)' => Alive(i)
    BY <1>1, <1>2 DEF Alive
  <2>3. \A i \in state'.recent \cup disk'.recent : inst'[i] = "gone"
    BY <1>1, <1>2, <1>6, <2>1 DEF Prompt
  <2> QED BY <1>2, <1>6, <2>1, <2>2, <2>3 DEF Prompt, HardCap
<1> QED BY <1>3, <1>4, <1>5, <1>6 DEF ScalerIInv

\* The types of the invariant, for the steps below.
LEMMA Typed ==
  ASSUME ScalerIInv
  PROVE  /\ ScalerTypeOK /\ OursOnly /\ (~lags => Prompt)
         /\ state \in StateType /\ disk \in StateType /\ obs \in ObsType /\ faults \in 0..MaxFaults
         /\ todo \subseteq Ours /\ obs.ours \subseteq Ours /\ Ours \subseteq Instances
         /\ state.id \in Ours \cup {None} /\ None \notin Ours
BY ScalerAssumption DEF ScalerIInv, ScalerTypeOK, OursOnly, ObsType, Instances

LEMMA DestroyListedStep ==
  ASSUME ScalerIInv, NEW i \in Instances, DestroyListed(i), UNCHANGED lags
  PROVE  ScalerIInv'
<1>1. /\ ScalerTypeOK /\ faults \in 0..MaxFaults /\ todo \subseteq Ours /\ Ours \subseteq Instances
      /\ state \in StateType /\ disk \in StateType /\ obs \in ObsType /\ (~lags => Prompt)
  BY Typed
<1>2. /\ pc \in {"again", "orphans"} /\ i \in todo /\ todo' = todo \ {i}
      /\ UNCHANGED <<waiting, active, pc, obs, state, disk>>
  BY DEF DestroyListed
<1>3. faults' \in 0..MaxFaults
  BY <1>1, FaultCounts DEF DestroyListed, DestroyDone, DestroyError, DestroyRefused
<1>4. PICK S \in {{}, {i}} : Killed(S)
  BY <1>1, KillKills, NothingKilled DEF DestroyListed, DestroyDone, DestroyError, DestroyRefused
<1>5. ASSUME ~lags, pc = "orphans", state.id = None  PROVE ~Alive(i)'
  <2>1. CASE Kill(i)
    BY <1>1, <2>1, KillKills DEF Alive
  <2>2. CASE UNCHANGED vastVars
    <3>1. inst' = inst /\ ~Spared(i)
      BY <1>5, <2>2 DEF DestroyListed
    <3> QED BY <1>5, <3>1 DEF Spared, Alive
  <2> QED BY <2>1, <2>2 DEF DestroyListed, DestroyDone, DestroyError, DestroyRefused
<1>6. \A j \in Ours : Alive(j)' => Alive(j)
  BY <1>1, <1>4 DEF Killed, Alive
<1>7. ASSUME ~lags  PROVE SeenAll'
  <2>1. SeenAll
    BY <1>1, <1>7 DEF Prompt
  <2>2. pc = "orphans" /\ state.id = None => \A j \in Ours : Alive(j)' => j \in todo'
    BY <1>2, <1>5, <1>6, <1>7, <2>1 DEF SeenAll
  <2> QED BY <1>2, <1>6, <2>1, <2>2 DEF SeenAll
<1>8. pc \in {"decide", "destroy", "close"} => state.id # None
  BY <1>2
<1>9. pc' \in Steps
  BY <1>2 DEF Steps
<1> QED BY <1>1, <1>2, <1>3, <1>4, <1>7, <1>9, Goes

\* The state has an instance from then on.
LEMMA AdoptStep ==
  ASSUME ScalerIInv, NEW i \in Instances, Adopt(i), UNCHANGED lags
  PROVE  ScalerIInv'
<1>1. /\ ScalerTypeOK /\ faults \in 0..MaxFaults /\ Ours \subseteq Instances /\ (~lags => Prompt)
      /\ state \in StateType /\ disk \in StateType /\ obs \in ObsType /\ obs.ours \subseteq Ours
      /\ None \notin Ours
  BY Typed
<1>2. /\ pc = "again" /\ pc' = "decide" /\ obs.ours = {i}
      /\ UNCHANGED <<inst, listed, image, waiting, active, obs, todo>>
  BY DEF Adopt
<1>3. PICK a \in 0..AgeBound : Save([state EXCEPT !.id = i, !.stack = "plain", !.age = a])
  BY DEF Adopt
<1>4. PICK s : s = [state EXCEPT !.id = i, !.stack = "plain", !.age = a]
  OBVIOUS
<1>5. s = [id |-> i, stack |-> "plain", age |-> a, idle |-> state.idle, cooling |-> state.cooling,
           recent |-> state.recent]
  BY <1>1, <1>4 DEF StateType
<1>6. s \in StateType /\ s.id = i /\ s.recent = state.recent
  BY <1>1, <1>5 DEF StateType
<1>7. state' = s /\ (disk' = s \/ disk' = disk) /\ faults' \in 0..MaxFaults
  BY <1>1, <1>3, <1>4, Saves
<1>8. Killed({})
  BY <1>1, <1>2, NothingKilled
<1>9. ASSUME ~lags  PROVE SeenAll'
  BY <1>1, <1>2, <1>9 DEF Prompt, SeenAll, Alive
<1>10. \A j \in state'.recent \cup disk'.recent : j \in state.recent \cup disk.recent
  BY <1>6, <1>7
<1>11. /\ state' \in StateType /\ disk' \in StateType /\ pc' \in Steps /\ state'.id # None
       /\ state'.id \in obs.ours /\ disk'.id \in {disk.id} \cup obs.ours
  BY <1>1, <1>2, <1>6, <1>7 DEF Steps
<1> QED BY <1>1, <1>2, <1>7, <1>8, <1>9, <1>10, <1>11, Goes

\* Without an instance in the state every paid one is planned to be destroyed.
LEMMA FindOrphansStep ==
  ASSUME ScalerIInv, FindOrphans, UNCHANGED lags
  PROVE  ScalerIInv'
<1>1. /\ ScalerTypeOK /\ faults \in 0..MaxFaults /\ (~lags => Prompt) /\ obs.ours \subseteq Ours
      /\ state \in StateType /\ disk \in StateType /\ obs \in ObsType /\ None \notin Ours
  BY Typed
<1>2. /\ pc = "again" /\ pc' = "orphans" /\ todo' = obs.ours \ {state.id}
      /\ UNCHANGED <<inst, listed, image, waiting, active, obs, state, disk, faults>>
  BY DEF FindOrphans
<1>3. Killed({})
  BY <1>1, <1>2, NothingKilled
<1>4. ASSUME ~lags  PROVE SeenAll'
  BY <1>1, <1>2, <1>4 DEF Prompt, SeenAll, Alive
<1>5. pc' \in Steps
  BY <1>2 DEF Steps
<1> QED BY <1>1, <1>2, <1>3, <1>4, <1>5, Goes

-----------------------------------------------------------------------------
(* Deciding *)

\* The idle timer of the state is set.
LEMMA Remembers ==
  ASSUME faults \in 0..MaxFaults, state \in StateType, disk \in StateType, NEW n \in 0..2,
         Remember([state EXCEPT !.idle = n])
  PROVE  /\ state' \in StateType /\ disk' \in StateType /\ faults' \in 0..MaxFaults
         /\ state'.id = state.id /\ disk'.id \in {state.id, disk.id}
         /\ \A i \in state'.recent \cup disk'.recent : i \in state.recent \cup disk.recent
<1> DEFINE s == [state EXCEPT !.idle = n]
<1>1. s \in StateType /\ s.id = state.id /\ s.recent = state.recent
  BY DEF StateType
<1>2. PICK r : r = s
  OBVIOUS
<1>3. \/ UNCHANGED <<state, disk, faults>>
      \/ state' = r /\ (disk' = r \/ disk' = disk) /\ faults' \in 0..MaxFaults
  BY <1>2, Saves DEF Remember
<1> HIDE DEF s
<1> QED BY <1>1, <1>2, <1>3

\* The tick is over, and what it knew of vast is forgotten.
LEMMA Returned ==
  ASSUME Return, ~lags => Prompt
  PROVE  /\ pc' \in Steps /\ pc' \notin {"decide", "destroy", "close"}
         /\ obs' \in ObsType /\ obs'.ours = {} /\ todo' = todo
         /\ SeenAll'
BY NoObsType DEF Return, Steps, SeenAll

LEMMA DecideRentStep ==
  ASSUME ScalerIInv, DecideRent, UNCHANGED lags
  PROVE  ScalerIInv'
<1> DEFINE o == [NoObs EXCEPT !.waiting = obs.waiting]
<1>1. /\ ScalerTypeOK /\ faults \in 0..MaxFaults /\ OursOnly /\ (~lags => Prompt)
      /\ state \in StateType /\ disk \in StateType /\ obs \in ObsType
  BY Typed
<1>2. o \in ObsType /\ o.ours = {}
  <2> DEFINE e == NoObs
  <2>1. e \in ObsType /\ e.ours = {} /\ obs.waiting \in SUBSET Kinds
    BY <1>1, NoObsType DEF ObsType
  <2>2. o = [e EXCEPT !.waiting = obs.waiting]
    OBVIOUS
  <2> HIDE DEF e, o
  <2> QED BY <2>1, <2>2 DEF ObsType
<1> HIDE DEF o
<1>3. /\ Ready /\ state.id = None /\ Remember([state EXCEPT !.idle = 0])
      /\ pc' = "rent" /\ obs' = o /\ UNCHANGED <<inst, listed, image, waiting, active, todo>>
  BY DEF DecideRent, RentDue, HaveInstance, o
<1>4. pc = "orphans" /\ todo = {}
  BY <1>1, <1>3 DEF Ready, OursOnly
<1>5. /\ state' \in StateType /\ disk' \in StateType /\ faults' \in 0..MaxFaults
      /\ state'.id = state.id /\ disk'.id \in {state.id, disk.id}
      /\ \A i \in state'.recent \cup disk'.recent : i \in state.recent \cup disk.recent
  BY <1>1, <1>3, Remembers
<1>6. Killed({})
  BY <1>1, <1>3, NothingKilled
<1>7. ASSUME ~lags  PROVE SeenAll'
  BY <1>1, <1>3, <1>4, <1>7 DEF Prompt, SeenAll, Alive
<1>8. pc' \in Steps /\ pc' \notin {"decide", "destroy", "close"}
  BY <1>3 DEF Steps
<1> QED BY <1>2, <1>3, <1>5, <1>6, <1>7, <1>8, Goes

LEMMA DecideNoneStep ==
  ASSUME ScalerIInv, DecideNone \/ DecideNoCredit, UNCHANGED lags
  PROVE  ScalerIInv'
<1>1. /\ ScalerTypeOK /\ faults \in 0..MaxFaults /\ (~lags => Prompt)
      /\ state \in StateType /\ disk \in StateType
  BY Typed
<1>2. Return /\ UNCHANGED <<inst, listed, image, waiting, active>>
  BY DEF DecideNone, DecideNoCredit
<1>3. IdleTimer \in 0..2
  BY <1>1 DEF IdleTimer, StateType
<1>4. /\ state' \in StateType /\ disk' \in StateType /\ faults' \in 0..MaxFaults
      /\ state'.id = state.id /\ disk'.id \in {state.id, disk.id}
      /\ \A i \in state'.recent \cup disk'.recent : i \in state.recent \cup disk.recent
  <2>1. CASE DecideNone
    <3>1. PICK n \in 0..2 : Remember([state EXCEPT !.idle = n])
      BY <1>3, <2>1 DEF DecideNone
    <3> QED BY <1>1, <3>1, Remembers
  <2>2. CASE DecideNoCredit
    BY <1>1, <2>2, FaultCounts DEF DecideNoCredit
  <2> QED BY <2>1, <2>2
<1>5. Killed({})
  BY <1>1, <1>2, NothingKilled
<1> QED BY <1>1, <1>2, <1>4, <1>5, Returned, Goes

LEMMA DecideDestroyStep ==
  ASSUME ScalerIInv, DecideDestroy, UNCHANGED lags
  PROVE  ScalerIInv'
<1>1. /\ ScalerTypeOK /\ faults \in 0..MaxFaults /\ state \in StateType /\ disk \in StateType
  BY Typed
<1>2. /\ state.id # None /\ pc' = "destroy" /\ obs' = NoObs
      /\ UNCHANGED <<inst, listed, image, waiting, active, todo, state, disk, faults>>
  BY DEF DecideDestroy, DestroyDue, HaveInstance
<1>3. Killed({})
  BY <1>1, <1>2, NothingKilled
<1>4. pc' \in Steps /\ SeenAll' /\ obs' \in ObsType /\ obs'.ours = {}
  BY <1>2, NoObsType DEF Steps, SeenAll
<1> QED BY <1>1, <1>2, <1>3, <1>4, Goes

\* What is closed is gone: it was destroyed, or is not listed.
LEMMA Closes ==
  ASSUME ScalerIInv, state.id # None, ~lags => inst[state.id] = "gone",
         Save(Closed(state)), Return, UNCHANGED <<inst, listed, image, waiting, active, lags>>
  PROVE  ScalerIInv'
<1>1. /\ ScalerTypeOK /\ faults \in 0..MaxFaults /\ (~lags => Prompt) /\ Ours \subseteq Instances
      /\ state \in StateType /\ disk \in StateType /\ state.id \in Ours \cup {None}
  BY Typed
<1>2. PICK s \in StateType : s = Closed(state) /\ s.id = None /\ s.recent = state.recent \cup {state.id}
  BY <1>1, ClosedFields
<1>3. state' = s /\ (disk' = s \/ disk' = disk) /\ faults' \in 0..MaxFaults
  BY <1>1, <1>2, Saves
<1>4. Killed({})
  BY <1>1, NothingKilled
<1>5. ~lags => \A i \in state'.recent \cup disk'.recent :
                 i \in state.recent \cup disk.recent \/ inst'[i] = "gone"
  BY <1>2, <1>3
<1>6. state' \in StateType /\ disk' \in StateType /\ state'.id = None /\ disk'.id \in {None, disk.id}
  BY <1>1, <1>2, <1>3
<1> QED BY <1>1, <1>3, <1>4, <1>5, <1>6, Returned, Goes

LEMMA ForgetStep ==
  ASSUME ScalerIInv, DecideForget, UNCHANGED lags
  PROVE  ScalerIInv'
<1>1. /\ Ready /\ state.id # None /\ state.id \notin obs.listed /\ Save(Closed(state)) /\ Return
      /\ UNCHANGED <<inst, listed, image, waiting, active>>
  BY DEF DecideForget, HaveInstance, Listed
<1>2. /\ (~lags => Prompt) /\ state.id \in Ours /\ Ours \subseteq Instances
      /\ inst \in [Instances -> {"none", "loading", "running", "gone"}] /\ Made(state.id)
  BY <1>1, Typed DEF ScalerTypeOK, ScalerIInv, Created
<1>3. ASSUME ~lags  PROVE inst[state.id] = "gone"
  <2>1. ~Alive(state.id)
    BY <1>1, <1>2, <1>3 DEF Prompt, SeenAll, Ready
  <2> QED BY <1>2, <2>1 DEF Made, Alive
<1> QED BY <1>1, <1>3, Closes

LEMMA CloseStep ==
  ASSUME ScalerIInv, Close, UNCHANGED lags
  PROVE  ScalerIInv'
<1>1. /\ pc = "close" /\ Save(Closed(state)) /\ Return /\ UNCHANGED <<inst, listed, image, waiting, active>>
  BY DEF Close
<1>2. state.id # None /\ (~lags => inst[state.id] = "gone")
  BY <1>1 DEF ScalerIInv, OursOnly, Prompt, SeenAll
<1> QED BY <1>1, <1>2, Closes

LEMMA DestroyStep ==
  ASSUME ScalerIInv, Destroy, UNCHANGED lags
  PROVE  ScalerIInv'
<1> DEFINE i == state.id
<1>1. /\ ScalerTypeOK /\ faults \in 0..MaxFaults /\ (~lags => Prompt) /\ obs \in ObsType
      /\ state \in StateType /\ disk \in StateType /\ pc = "destroy"
      /\ UNCHANGED <<waiting, active, state, disk>>
  BY Typed DEF Destroy
<1>2. i # None /\ i \in Ours /\ i \in Instances
  BY <1>1, Typed DEF OursOnly
<1> HIDE DEF i
<1>3. faults' \in 0..MaxFaults
  BY <1>1, FaultCounts DEF Destroy, DestroyDone, DestroyError, DestroyRefused
<1>4. PICK S \in {{}, {i}} : Killed(S)
  BY <1>1, <1>2, KillKills, NothingKilled DEF Destroy, DestroyDone, DestroyError, DestroyRefused, i
<1>5. CASE pc' = "close"
  <2>1. UNCHANGED <<obs, todo>>
    BY <1>5 DEF Destroy, Return
  <2>2. ASSUME ~lags  PROVE inst'[i] = "gone"
    BY <1>1, <1>2, <1>5, <2>2, KillKills DEF Destroy, Return, DestroyDone, DestroyRefused, i
  <2>3. pc' \in Steps /\ (~lags => SeenAll')
    BY <1>1, <1>5, <2>2 DEF Steps, SeenAll, i
  <2> QED BY <1>1, <1>2, <1>3, <1>4, <2>1, <2>3, Goes DEF i
<1>6. CASE pc' # "close"
  <2>1. Return
    BY <1>6 DEF Destroy
  <2> QED BY <1>1, <1>3, <1>4, <2>1, Returned, Goes
<1> QED BY <1>5, <1>6

-----------------------------------------------------------------------------
(* Renting *)

\* An instance is created while there is no paid one.
LEMMA CreateStep ==
  ASSUME ScalerIInv, pc = "rent", NEW i \in Ours, Create(i),
         ListedAtOnce(i) \/ ListedLate, UNCHANGED <<waiting, active, lags>>, faults' \in 0..MaxFaults,
         pc' \in {"rented", "idle"}, obs' = NoObs, todo' \in {todo, {i}},
         state' \in StateType, disk' \in StateType,
         state'.id = state.id, disk'.id \in {state.id, disk.id},
         \A j \in state'.recent \cup disk'.recent : j \in state.recent \cup disk.recent
  PROVE  ScalerIInv'
<1>1. /\ ScalerTypeOK /\ OursOnly /\ Created /\ todo \subseteq Ours /\ Ours \subseteq Instances
      /\ (~lags => Prompt) /\ None \notin Ours
  BY Typed DEF ScalerIInv
<1>2. /\ inst[i] = "none" /\ inst' = [inst EXCEPT ![i] = "loading"]
      /\ image' = [image EXCEPT ![i] = image'[i]] /\ image'[i] \in {"public", "internal"}
  <2>1. image \in [Instances -> {"public", "internal"}] /\ i \in Instances
    BY <1>1 DEF ScalerTypeOK
  <2> QED BY <2>1 DEF Create
<1>3. /\ listed' \in {listed, listed \cup {i}} /\ (~lags => listed' = listed \cup {i})
  BY DEF ListedAtOnce, ListedLate
<1>4. obs' \in ObsType /\ obs'.ours = {}
  BY NoObsType
<1>5. inst \in [Instances -> {"none", "loading", "running", "gone"}] /\ i \in Instances
  BY <1>1 DEF ScalerTypeOK
<1>6. inst'[i] = "loading" /\ \A j \in Instances \ {i} : inst'[j] = inst[j]
  BY <1>2, <1>5
<1>7. ScalerTypeOK'
  <2>1. inst' \in [Instances -> {"none", "loading", "running", "gone"}]
    BY <1>2, <1>5
  <2>2. image' \in [Instances -> {"public", "internal"}]
    BY <1>1, <1>2, <1>5 DEF ScalerTypeOK
  <2>3. listed' \subseteq Instances /\ todo' \subseteq Instances
    BY <1>1, <1>3, <1>5 DEF ScalerTypeOK
  <2> QED BY <1>1, <1>4, <2>1, <2>2, <2>3 DEF ScalerTypeOK, ObsType
<1>8. OursOnly'
  BY <1>1, <1>4 DEF OursOnly
<1>9. Created'
  <2>1. \A j : Made(j) => Made(j)'
    BY <1>1, <1>6 DEF Made
  <2>2. Made(i)'
    BY <1>6 DEF Made
  <2>3. \A j \in listed' \cup todo' \cup obs'.ours : Made(j) \/ j = i
    BY <1>1, <1>3, <1>4 DEF Created
  <2>4. Made(state'.id) /\ Made(disk'.id)
    BY <1>1 DEF Created
  <2> QED BY <2>1, <2>2, <2>3, <2>4 DEF Created
<1>10. ASSUME ~lags  PROVE Prompt'
  <2>1. Prompt /\ \A j \in Ours : ~Alive(j)
    BY <1>1, <1>10 DEF Prompt, SeenAll
  <2>2. \A j \in Ours : Alive(j)' => j = i
    BY <1>1, <1>6, <2>1 DEF Alive
  <2>3. \A j \in state'.recent \cup disk'.recent : inst'[j] = "gone"
    <3>1. (state.recent \cup disk.recent) \subseteq Instances
      BY <1>1 DEF ScalerTypeOK, StateType
    <3> QED BY <1>2, <1>6, <2>1, <3>1 DEF Prompt
  <2> QED BY <1>3, <1>10, <2>2, <2>3 DEF Prompt, SeenAll, HardCap
<1> QED BY <1>7, <1>8, <1>9, <1>10 DEF ScalerIInv

LEMMA RentCreateStep ==
  ASSUME ScalerIInv, NEW i \in Ours, RentCreate(i), UNCHANGED lags
  PROVE  ScalerIInv'
<1>1. state \in StateType /\ disk \in StateType /\ faults \in 0..MaxFaults
  BY Typed
<1>2. /\ pc = "rent" /\ Create(i) /\ (ListedAtOnce(i) \/ ListedLate) /\ todo' = {i}
      /\ pc' = "rented" /\ obs' = NoObs /\ UNCHANGED <<waiting, active, state, disk>>
  BY DEF RentCreate
<1>3. faults' \in 0..MaxFaults
  BY <1>1, FaultCounts DEF RentCreate
<1> QED BY <1>1, <1>2, <1>3, CreateStep

\* The cooldown begins.
LEMMA Cools ==
  ASSUME NEW s \in StateType, NEW b \in BOOLEAN
  PROVE  /\ [s EXCEPT !.cooling = b] \in StateType
         /\ [s EXCEPT !.cooling = b].id = s.id /\ [s EXCEPT !.cooling = b].recent = s.recent
BY DEF StateType

LEMMA RentFailsStep ==
  ASSUME ScalerIInv, RentFails, UNCHANGED lags
  PROVE  ScalerIInv'
<1>1. /\ ScalerTypeOK /\ faults \in 0..MaxFaults /\ (~lags => Prompt)
      /\ state \in StateType /\ disk \in StateType
  BY Typed
<1>2. /\ pc = "rent" /\ state' = [state EXCEPT !.cooling = TRUE] /\ disk' = state' /\ Return
      /\ UNCHANGED <<waiting, active>>
  BY DEF RentFails
<1>3. /\ state' \in StateType /\ disk' \in StateType /\ state'.id = state.id /\ disk'.id = state.id
      /\ \A j \in state'.recent \cup disk'.recent : j \in state.recent \cup disk.recent
  <2>1. state' \in StateType /\ state'.id = state.id /\ state'.recent = state.recent
    BY <1>1, <1>2, Cools
  <2> QED BY <1>2, <2>1
<1>4. faults' \in 0..MaxFaults
  BY <1>1, FaultCounts DEF RentFails
<1>5. CASE UNCHANGED vastVars
  <2>1. Killed({})
    BY <1>1, <1>5, NothingKilled
  <2> QED BY <1>1, <1>2, <1>3, <1>4, <2>1, Returned, Goes
<1>6. CASE \E i \in Ours : Create(i) /\ (ListedAtOnce(i) \/ ListedLate)
  <2>1. PICK i \in Ours : Create(i) /\ (ListedAtOnce(i) \/ ListedLate)
    BY <1>6
  <2>2. pc' \in {"rented", "idle"} /\ obs' = NoObs /\ todo' \in {todo, {i}}
    BY <1>2 DEF Return
  <2> QED BY <1>2, <1>3, <1>4, <2>1, <2>2, CreateStep
<1> QED BY <1>5, <1>6 DEF RentFails

LEMMA RentSaveStep ==
  ASSUME ScalerIInv, NEW i \in Ours, RentSave(i), UNCHANGED lags
  PROVE  ScalerIInv'
<1>1. /\ ScalerTypeOK /\ faults \in 0..MaxFaults /\ Ours \subseteq Instances
      /\ state \in StateType /\ disk \in StateType
  BY Typed
<1>2. PICK k : k = IF image[i] = "public" THEN "public" ELSE "plain"
  OBVIOUS
<1>3. PICK s : s = [state EXCEPT !.id = i, !.stack = k, !.age = 0, !.idle = 0, !.cooling = FALSE]
  OBVIOUS
<1>4. s = [id |-> i, stack |-> k, age |-> 0, idle |-> 0, cooling |-> FALSE, recent |-> state.recent]
  BY <1>1, <1>3 DEF StateType
<1>5. s \in StateType /\ s.id = i /\ s.recent = state.recent
  <2>1. k \in {"plain", "public"} /\ 0 \in 0..AgeBound /\ i \in Instances /\ state.recent \in SUBSET Instances
    BY <1>1, <1>2, ScalerAssumption DEF StateType
  <2> QED BY <1>4, <2>1 DEF StateType
<1>6. /\ Save(s) /\ pc = "rented" /\ todo = {i} /\ pc' = "idle" /\ obs' = NoObs /\ todo' = {}
      /\ UNCHANGED <<inst, listed, image, waiting, active>>
  BY <1>2, <1>3 DEF RentSave
<1>7. state' = s /\ (disk' = s \/ disk' = disk) /\ faults' \in 0..MaxFaults
  BY <1>1, <1>6, Saves
<1>8. Killed({})
  BY <1>1, <1>6, NothingKilled
<1>9. /\ pc' \in Steps /\ pc' \notin {"decide", "destroy", "close"} /\ SeenAll'
      /\ obs' \in ObsType /\ obs'.ours = {}
  BY <1>6, NoObsType DEF Steps, SeenAll
<1>10. /\ state' \in StateType /\ disk' \in StateType /\ state'.id \in todo /\ disk'.id \in {disk.id} \cup todo
       /\ \A j \in state'.recent \cup disk'.recent : j \in state.recent \cup disk.recent
  BY <1>1, <1>5, <1>6, <1>7
<1> QED BY <1>6, <1>7, <1>8, <1>9, <1>10, Goes

LEMMA CrashStep ==
  ASSUME ScalerIInv, Crash, UNCHANGED lags
  PROVE  ScalerIInv'
<1>1. /\ ScalerTypeOK /\ faults \in 0..MaxFaults /\ state \in StateType /\ disk \in StateType
  BY Typed
<1>2. /\ state' = disk /\ disk' = disk /\ pc' = "idle" /\ obs' = NoObs /\ todo' = {}
      /\ UNCHANGED <<inst, listed, image, waiting, active>>
  BY DEF Crash
<1>3. faults' \in 0..MaxFaults
  BY <1>1, FaultCounts DEF Crash
<1>4. Killed({})
  BY <1>1, <1>2, NothingKilled
<1>5. /\ pc' \in Steps /\ pc' \notin {"decide", "destroy", "close"} /\ SeenAll'
      /\ obs' \in ObsType /\ obs'.ours = {}
  BY <1>2, NoObsType DEF Steps, SeenAll
<1>6. \A j \in state'.recent \cup disk'.recent : j \in state.recent \cup disk.recent
  BY <1>2
<1> QED BY <1>1, <1>2, <1>3, <1>4, <1>5, <1>6, Goes

-----------------------------------------------------------------------------
(* The clock *)

\* Time changes neither the instance of a state nor adds to its history.
LEMMA TimePasses ==
  ASSUME ScalerIInv, UNCHANGED <<vastVars, queueVars, tickVars, faults, lags>>,
         state' \in StateType, disk' \in StateType, state'.id = state.id, disk'.id = disk.id,
         state'.recent \subseteq state.recent, disk'.recent \subseteq disk.recent
  PROVE  ScalerIInv'
<1>1. /\ ScalerTypeOK /\ OursOnly /\ faults \in 0..MaxFaults /\ obs \in ObsType /\ (~lags => Prompt)
  BY Typed
<1>2. Killed({})
  BY <1>1, NothingKilled
<1>3. ASSUME ~lags  PROVE SeenAll'
  BY <1>1, <1>3 DEF Prompt, SeenAll, Alive
<1>4. pc' \in Steps /\ (pc' \in {"decide", "destroy", "close"} => state'.id # None)
  BY <1>1 DEF ScalerTypeOK, OursOnly, Steps
<1>5. \A i \in state'.recent \cup disk'.recent : i \in state.recent \cup disk.recent
  OBVIOUS
<1> QED BY <1>1, <1>2, <1>3, <1>4, <1>5, Goes

LEMMA ClockStep ==
  ASSUME ScalerIInv, UNCHANGED lags,
         IdlePasses \/ AgePasses \/ CooldownPasses \/ \E i \in Instances : GracePasses(i)
  PROVE  ScalerIInv'
<1>1. state \in StateType /\ disk \in StateType
  BY Typed
<1>2. CASE IdlePasses
  <2> DEFINE E(s) == [s EXCEPT !.idle = IF @ = 1 THEN 2 ELSE @]
  <2>1. \A s \in StateType : E(s) \in StateType /\ E(s).id = s.id /\ E(s).recent = s.recent
    BY DEF StateType
  <2>2. state' = E(state) /\ disk' = E(disk) /\ UNCHANGED <<vastVars, queueVars, tickVars, faults>>
    BY <1>2 DEF IdlePasses, Passes
  <2> HIDE DEF E
  <2> QED BY <1>1, <2>1, <2>2, TimePasses
<1>3. CASE AgePasses
  <2> DEFINE E(s) == [s EXCEPT !.age = IF s.id # None /\ @ < AgeBound THEN @ + 1 ELSE @]
  <2>1. \A s \in StateType : E(s) \in StateType /\ E(s).id = s.id /\ E(s).recent = s.recent
    BY ScalerAssumption DEF StateType
  <2>2. state' = E(state) /\ disk' = E(disk) /\ UNCHANGED <<vastVars, queueVars, tickVars, faults>>
    BY <1>3 DEF AgePasses, Passes
  <2> HIDE DEF E
  <2> QED BY <1>1, <2>1, <2>2, TimePasses
<1>4. CASE CooldownPasses
  <2> DEFINE E(s) == [s EXCEPT !.cooling = FALSE]
  <2>1. \A s \in StateType : E(s) \in StateType /\ E(s).id = s.id /\ E(s).recent = s.recent
    BY DEF StateType
  <2>2. state' = E(state) /\ disk' = E(disk) /\ UNCHANGED <<vastVars, queueVars, tickVars, faults>>
    BY <1>4 DEF CooldownPasses, Passes
  <2> HIDE DEF E
  <2> QED BY <1>1, <2>1, <2>2, TimePasses
<1>5. ASSUME NEW i \in Instances, GracePasses(i)  PROVE ScalerIInv'
  <2> DEFINE E(s) == [s EXCEPT !.recent = @ \ {i}]
  <2>1. \A s \in StateType : E(s) \in StateType /\ E(s).id = s.id /\ E(s).recent \subseteq s.recent
    BY DEF StateType
  <2>2. state' = E(state) /\ disk' = E(disk) /\ UNCHANGED <<vastVars, queueVars, tickVars, faults>>
    BY <1>5 DEF GracePasses, Passes
  <2> HIDE DEF E
  <2> QED BY <1>1, <2>1, <2>2, TimePasses
<1> QED BY <1>2, <1>3, <1>4, <1>5

-----------------------------------------------------------------------------
(* Vast and the queue *)

\* Booting neither adds a paid instance nor ends one.
LEMMA BootsStep ==
  ASSUME ScalerIInv, NEW i \in Ours, Boots(i), UNCHANGED lags
  PROVE  ScalerIInv'
<1>1. ScalerTypeOK /\ Ours \subseteq Instances /\ i \in Instances /\ (~lags => Prompt)
  BY Typed
<1>2. /\ inst[i] = "loading" /\ inst' = [inst EXCEPT ![i] = "running"]
      /\ UNCHANGED <<listed, image, queueVars, tickVars, stateVars, faults>>
  BY DEF Boots
<1>3. /\ inst' \in [Instances -> {"none", "loading", "running", "gone"}]
      /\ inst'[i] = "running" /\ \A j \in Instances : j # i => inst'[j] = inst[j]
  BY <1>1, <1>2 DEF ScalerTypeOK
<1>4. ScalerTypeOK' /\ OursOnly'
  BY <1>1, <1>2, <1>3 DEF ScalerIInv, ScalerTypeOK, OursOnly
<1>5. Created'
  <2>1. \A j : Made(j) => Made(j)'
    BY <1>1, <1>3 DEF Made
  <2> QED BY <1>2, <2>1 DEF ScalerIInv, Created
<1>6. ASSUME ~lags  PROVE Prompt'
  <2>1. \A j \in Ours : Alive(j)' <=> Alive(j)
    BY <1>1, <1>2, <1>3 DEF Alive
  <2>2. \A j \in Instances : inst[j] = "gone" => inst'[j] = "gone"
    BY <1>2, <1>3
  <2>3. (state.recent \cup disk.recent) \subseteq Instances /\ (pc = "close" => state.id \in Instances)
    BY <1>1 DEF ScalerTypeOK, StateType, ScalerIInv, OursOnly
  <2> QED BY <1>1, <1>2, <1>6, <2>1, <2>2, <2>3 DEF Prompt, SeenAll, HardCap
<1> QED BY <1>4, <1>5, <1>6 DEF ScalerIInv

LEMMA VanishesStep ==
  ASSUME ScalerIInv, NEW i \in Ours, Vanishes(i), UNCHANGED lags
  PROVE  ScalerIInv'
<1>1. /\ ScalerTypeOK /\ OursOnly /\ faults \in 0..MaxFaults /\ obs \in ObsType /\ (~lags => Prompt)
      /\ state \in StateType /\ disk \in StateType /\ Ours \subseteq Instances /\ i \in Instances
  BY Typed
<1>2. Killed({i}) /\ inst'[i] = "gone" /\ UNCHANGED <<queueVars, tickVars, stateVars>>
  BY <1>1, KillKills DEF Vanishes
<1>3. faults' \in 0..MaxFaults
  BY <1>1, FaultCounts DEF Vanishes
<1>4. \A j \in Instances : /\ Alive(j)' => Alive(j)
                           /\ inst[j] = "gone" => inst'[j] = "gone"
  BY <1>2 DEF Killed, Alive
<1>5. pc' \in Steps /\ (pc' \in {"decide", "destroy", "close"} => state'.id # None)
  BY <1>1, <1>2 DEF ScalerTypeOK, OursOnly, Steps
<1>6. ASSUME ~lags  PROVE SeenAll'
  <2>1. SeenAll /\ (pc = "close" => state.id \in Instances)
    BY <1>1, <1>6 DEF Prompt, OursOnly
  <2> QED BY <1>1, <1>2, <1>4, <2>1 DEF SeenAll
<1> QED BY <1>1, <1>2, <1>3, <1>5, <1>6, Goes

\* What is paid stays listed.
LEMMA ListingStep ==
  ASSUME ScalerIInv, NEW i \in Ours, ListingCatchesUp(i), UNCHANGED lags
  PROVE  ScalerIInv'
<1>1. ScalerTypeOK /\ i \in Instances /\ (~lags => Prompt)
  BY Typed
<1>2. /\ listed' = IF Alive(i) THEN listed \cup {i} ELSE listed \ {i}
      /\ UNCHANGED <<inst, image, queueVars, tickVars, stateVars, faults>>
  BY DEF ListingCatchesUp
<1>3. ScalerTypeOK' /\ OursOnly'
  BY <1>1, <1>2 DEF ScalerIInv, ScalerTypeOK, OursOnly
<1>4. Created'
  BY <1>2 DEF ScalerIInv, Created, Made, Alive
<1>5. ~lags => Prompt'
  BY <1>1, <1>2 DEF Prompt, SeenAll, HardCap, Alive
<1> QED BY <1>3, <1>4, <1>5 DEF ScalerIInv

\* Jobs and leases come and go.
LEMMA QueueStep ==
  ASSUME ScalerIInv, waiting' \subseteq Kinds, active' \subseteq Ours,
         UNCHANGED <<vastVars, tickVars, stateVars, lags, faults>>
  PROVE  ScalerIInv'
<1>1. ScalerTypeOK' /\ OursOnly' /\ Created'
  BY DEF ScalerIInv, ScalerTypeOK, OursOnly, Created, Made
<1>2. ~lags => Prompt'
  BY DEF ScalerIInv, Prompt, SeenAll, HardCap, Alive
<1> QED BY <1>1, <1>2 DEF ScalerIInv

-----------------------------------------------------------------------------
(* All steps *)

LEMMA ScalerStarts ==
  ASSUME ScalerInit
  PROVE  ScalerIInv
<1>1. ScalerTypeOK
  <2>1. NoState \in StateType
    BY ScalerAssumption DEF NoState, StateType, Instances
  <2>2. obs \in ObsType
    BY NoObsType DEF ScalerInit
  <2>3. faults \in 0..MaxFaults
    BY ScalerAssumption, FaultsAssumption DEF ScalerInit
  <2> QED BY <2>1, <2>2, <2>3 DEF ScalerInit, ScalerTypeOK, ObsType, Instances
<1>2. OursOnly
  BY NoObsType DEF ScalerInit, OursOnly, NoState
<1>3. Created
  BY NoObsType, ScalerAssumption DEF ScalerInit, Created, Made, NoState
<1>4. Prompt
  BY ScalerAssumption DEF ScalerInit, Prompt, SeenAll, HardCap, Alive, NoState, Instances
<1> QED BY <1>1, <1>2, <1>3, <1>4 DEF ScalerIInv

LEMMA TickStays ==
  ASSUME ScalerIInv, TickStep, UNCHANGED lags
  PROVE  ScalerIInv'
<1>1. ASSUME NEW i \in Instances, DestroyListed(i) \/ Adopt(i)  PROVE ScalerIInv'
  BY <1>1, DestroyListedStep, AdoptStep
<1>2. ASSUME NEW i \in Ours, RentCreate(i) \/ RentSave(i)  PROVE ScalerIInv'
  BY <1>2, RentCreateStep, RentSaveStep
<1>3. CASE ReadQueue \/ ShowInstances \/ FindOrphans
  BY <1>3, ReadQueueStep, ShowStep, FindOrphansStep
<1>4. CASE DecideRent \/ DecideNoCredit \/ DecideDestroy \/ DecideForget \/ DecideNone
  BY <1>4, DecideRentStep, DecideDestroyStep, ForgetStep, DecideNoneStep
<1>5. CASE RentFails \/ Destroy \/ Close
  BY <1>5, RentFailsStep, DestroyStep, CloseStep
<1> QED BY <1>1, <1>2, <1>3, <1>4, <1>5 DEF TickStep

LEMMA ScalerStays ==
  ASSUME ScalerIInv, [ScalerNext]_scalerVars
  PROVE  ScalerIInv'
<1>1. waiting \subseteq Kinds /\ active \subseteq Ours
  BY Typed DEF ScalerTypeOK
<1>2. ASSUME NEW i \in Ours, Boots(i) \/ Vanishes(i) \/ ListingCatchesUp(i), UNCHANGED lags
      PROVE  ScalerIInv'
  BY <1>2, BootsStep, VanishesStep, ListingStep
<1>3. ASSUME NEW kind \in Kinds, Arrives(kind) \/ Withdrawn(kind), UNCHANGED lags
      PROVE  ScalerIInv'
  BY <1>1, <1>3, QueueStep DEF Arrives, Withdrawn
<1>4. ASSUME NEW i \in Ours, LeaseEnds(i), UNCHANGED lags  PROVE ScalerIInv'
  BY <1>1, <1>4, QueueStep DEF LeaseEnds
<1>5. ASSUME NEW i \in Ours, NEW kind \in Kinds, Leases(i, kind), UNCHANGED lags  PROVE ScalerIInv'
  BY <1>1, <1>5, QueueStep DEF Leases
<1>6. CASE UNCHANGED scalerVars
  BY <1>1, <1>6, QueueStep
<1>7. CASE ScalerStep /\ UNCHANGED lags
  BY <1>2, <1>3, <1>4, <1>5, <1>7, TickStays, CrashStep, ClockStep DEF ScalerStep
<1> QED BY <1>6, <1>7 DEF ScalerNext

-----------------------------------------------------------------------------
(* What the scaler promises *)

\* Only instances of our own change.
LEMMA ForeignStay ==
  ASSUME ScalerIInv, [ScalerNext]_scalerVars
  PROVE  \A i \in Foreign : inst'[i] = inst[i]
<1>1. /\ todo \subseteq Ours /\ (pc = "destroy" => state.id \in Ours) /\ Ours \cap Foreign = {}
      /\ inst \in [Instances -> {"none", "loading", "running", "gone"}] /\ Foreign \subseteq Instances
  BY Typed, ScalerAssumption DEF OursOnly, ScalerTypeOK, Instances
<1>2. ASSUME NEW i \in Ours, NEW v, inst' = [inst EXCEPT ![i] = v]
      PROVE  \A j \in Foreign : inst'[j] = inst[j]
  BY <1>1, <1>2
<1>3. ASSUME NEW i \in Ours, Kill(i) \/ Create(i)  PROVE \A j \in Foreign : inst'[j] = inst[j]
  BY <1>2, <1>3 DEF Kill, Create
<1>4. ASSUME NEW i \in Instances, DestroyListed(i)  PROVE \A j \in Foreign : inst'[j] = inst[j]
  <2>1. i \in Ours /\ (Kill(i) \/ UNCHANGED vastVars)
    BY <1>1, <1>4 DEF DestroyListed, DestroyDone, DestroyError, DestroyRefused
  <2> QED BY <1>3, <2>1
<1>5. CASE Destroy
  <2>1. state.id \in Ours /\ (Kill(state.id) \/ UNCHANGED vastVars)
    BY <1>1, <1>5 DEF Destroy, DestroyDone, DestroyError, DestroyRefused
  <2> QED BY <1>3, <2>1
<1>6. ASSUME NEW i \in Ours, RentCreate(i) \/ Boots(i) \/ Vanishes(i)
      PROVE  \A j \in Foreign : inst'[j] = inst[j]
  BY <1>2, <1>3, <1>6 DEF RentCreate, Boots, Vanishes
<1>7. CASE RentFails
  BY <1>3, <1>7 DEF RentFails
<1>8. CASE \/ ReadQueue \/ ShowInstances \/ FindOrphans \/ DecideRent \/ DecideNoCredit \/ DecideDestroy
           \/ DecideForget \/ DecideNone \/ Close \/ Crash \/ UNCHANGED scalerVars
           \/ \E i \in Instances : Adopt(i)
           \/ \E i \in Ours : RentSave(i)
  BY <1>8 DEF ReadQueue, ShowInstances, FindOrphans, DecideRent, DecideNoCredit, DecideDestroy,
              DecideForget, DecideNone, Close, Crash, Adopt, RentSave
<1>9. CASE \/ IdlePasses \/ AgePasses \/ CooldownPasses
           \/ \E i \in Instances : GracePasses(i)
  BY <1>9 DEF IdlePasses, AgePasses, CooldownPasses, GracePasses, Passes
<1>10. CASE \/ \E i \in Ours : ListingCatchesUp(i)
            \/ \E kind \in Kinds : Arrives(kind) \/ Withdrawn(kind)
            \/ \E i \in Ours : LeaseEnds(i) \/ \E kind \in Kinds : Leases(i, kind)
  BY <1>10 DEF ListingCatchesUp, Arrives, Withdrawn, LeaseEnds, Leases
<1>11. CASE TickStep
  BY <1>4, <1>5, <1>6, <1>7, <1>8, <1>11 DEF TickStep
<1>12. CASE ScalerStep
  BY <1>6, <1>8, <1>9, <1>10, <1>11, <1>12 DEF ScalerStep
<1> QED BY <1>8, <1>12 DEF ScalerNext

LEMMA ScalerInvariant == ScalerSpec => []ScalerIInv
<1>1. ScalerInit => ScalerIInv
  BY ScalerStarts
<1>2. ScalerIInv /\ [ScalerNext]_scalerVars => ScalerIInv'
  BY ScalerStays
<1> QED BY <1>1, <1>2, PTL DEF ScalerSpec

\* For any number of instances: as long as vast does not lag there are never two
\* paid ones, through crashes, lost writes and ambiguous answers.
THEOREM ScalerCorrect == ScalerSpec => []ScalerInv
<1>1. ScalerIInv => ScalerInv
  BY DEF ScalerIInv, ScalerInv, AtMostOneInstance, Prompt
<1> QED BY <1>1, ScalerInvariant, PTL

\* For any number of instances of others in the account: no step of the scaler
\* changes one of them, lagging vast or not.
THEOREM ScalerSparesOthers == ScalerSpec => ForeignUntouched
<1>1. ScalerIInv /\ [ScalerNext]_scalerVars => \A i \in Foreign : inst'[i] = inst[i]
  BY ForeignStay
<1>2. ScalerIInv /\ [ScalerNext]_scalerVars => [\A i \in Foreign : inst'[i] = inst[i]]_scalerVars
  BY <1>1
<1> QED BY <1>2, ScalerInvariant, PTL DEF ScalerSpec, ForeignUntouched

=============================================================================
