------------------------------- MODULE Scaler -------------------------------
(***************************************************************************)
(* `rk gpu-scaler` of internal/scaler: a loop that rents one GPU instance  *)
(* from vast.ai while jobs wait and destroys it when they do not.  A tick  *)
(* reads the queue and vast's listing, reconciles the listing with its     *)
(* state, decides, and makes at most one rent or destroy.  Every call to   *)
(* vast is a step of its own: it may fail, or fail after it was done, the  *)
(* listing may lag behind, and the process may crash between two calls.    *)
(*                                                                         *)
(* Times are abstracted to whether they have passed: the idle timeout, the *)
(* cooldown after a failed rent, the grace after a destroy, and for age    *)
(* BootTimeout (1) and MaxAge (2).  The ssh tunnel is left out, and so are  *)
(* the timestamps kept for the report and the writes that save only them.  *)
(***************************************************************************)
EXTENDS Faults, FiniteSets

CONSTANTS Ours,        (* instances the scaler may create, with its label  *)
          Foreign,     (* other instances of the account                   *)
          PublicImage, (* RK_SCALER_IMAGE_PUBLIC is set                    *)
          LagFaults,   (* bound on the faults when vast lags               *)
          Kinds,       (* the stacks of the jobs that come                 *)
          AgeBound,    (* bound on the ages that matter, 2 for all         *)
          None

ASSUME ScalerAssumption ==
  /\ AgeBound \in 0..2
  /\ Kinds \subseteq {"public", "internal"}
  /\ Ours \cap Foreign = {} /\ None \notin Ours \cup Foreign
  /\ PublicImage \in BOOLEAN /\ LagFaults \in 0..MaxFaults

VARIABLES inst,    (* inst[i]: "none", "loading", "running" or "gone"       *)
          listed,  (* the instances vast lists                              *)
          image,   (* image[i]: the stack of its runner                     *)
          waiting, (* the kinds of jobs that wait: "public", "internal"     *)
          active,  (* the instances that hold a lease                       *)
          pc,      (* where the tick is                                     *)
          obs,     (* what the tick has read                                *)
          todo,    (* the instances its current loop has yet to destroy, or the new one *)
          state,   (* the state in memory                                   *)
          disk,    (* the state file                                        *)
          lags     (* vast fails where the scaler relies on it: a new instance  *)
                   (* is listed late, a destroy is confirmed that was not made, *)
                   (* or an orphan is spared just before a rent                 *)

vastVars == <<inst, listed, image>>
queueVars == <<waiting, active>>
tickVars == <<pc, obs, todo>>
stateVars == <<state, disk>>
scalerVars == <<vastVars, queueVars, tickVars, stateVars, lags, faults>>

Instances == Ours \cup Foreign
Alive(i) == inst[i] \in {"loading", "running"}
CanRun(i, kind) == image[i] = "internal" \/ kind = "public"

NoState == [id |-> None, stack |-> "plain", age |-> 0, idle |-> 0, cooling |-> FALSE, recent |-> {}]
NoObs == [ok |-> FALSE, waiting |-> {}, active |-> FALSE, listed |-> {}, up |-> {}, ours |-> {}]

-----------------------------------------------------------------------------
(* State file *)

\* saveState: an error is only logged.
Save(s) ==
  /\ state' = s
  /\ \/ disk' = s /\ UNCHANGED faults
     \/ Fault("disk") /\ UNCHANGED disk

\* close: the instance moves to the history.
Closed(s) == [s EXCEPT !.id = None, !.stack = "plain", !.age = 0, !.idle = 0,
                       !.recent = @ \cup {s.id}]

-----------------------------------------------------------------------------
(* Observe *)

ReadQueue ==
  /\ pc = "idle"
  /\ \/ /\ obs' = [NoObs EXCEPT !.ok = TRUE, !.waiting = waiting, !.active = active # {}]
        /\ UNCHANGED faults
     \/ Fault("queue") /\ obs' = NoObs
  /\ pc' = "show"
  /\ UNCHANGED <<vastVars, queueVars, todo, stateVars>>

\* Instances with our label; recently destroyed ones are destroyed again.
Recent(l) == {i \in l : i \in state.recent /\ i # state.id}

\* Mutant of Labelled: the label is not looked at.
AnyLabel(l) == l

Labelled(l) == l \ Foreign

ShowInstances ==
  /\ pc = "show"
  /\ \/ /\ obs' = [obs EXCEPT !.listed = Labelled(listed),
                              !.up = {i \in listed : inst[i] = "running"},
                              !.ours = Labelled(listed) \ Recent(listed)]
        /\ todo' = Recent(Labelled(listed))
        /\ pc' = "again"
        /\ UNCHANGED faults
     \/ Fault("show") /\ obs' = NoObs /\ pc' = "idle" /\ UNCHANGED todo
  /\ UNCHANGED <<vastVars, queueVars, stateVars>>

-----------------------------------------------------------------------------
(* Calls to vast *)

Kill(i) ==
  /\ inst' = [inst EXCEPT ![i] = "gone"]
  /\ UNCHANGED <<listed, image>>

\* DestroyInstance: done and confirmed, or an error that says nothing, or a
\* confirmation of something that was not done.
DestroyDone(i) == Kill(i) /\ UNCHANGED faults
DestroyError(i) == Fault("destroy") /\ (Kill(i) \/ UNCHANGED vastVars)
DestroyRefused == lags /\ Fault("refused") /\ UNCHANGED vastVars

\* CreateInstance with the image that the waiting jobs call for.
ListedAtOnce(i) == listed' = listed \cup {i}
ListedLate == lags /\ UNCHANGED listed
Create(i) ==
  /\ inst[i] = "none"
  /\ inst' = [inst EXCEPT ![i] = "loading"]
  /\ image' = [image EXCEPT ![i] =
                 IF PublicImage /\ "internal" \notin obs.waiting THEN "public" ELSE "internal"]

-----------------------------------------------------------------------------
(* Reconcile *)

\* An orphan outlives the failed call, and nothing keeps the tick from renting.
Spared(i) == pc = "orphans" /\ state.id = None /\ Alive(i) /\ inst' = inst

\* One call of the loops over recently destroyed instances and orphans; its
\* error is only logged.
DestroyListed(i) ==
  /\ pc \in {"again", "orphans"} /\ i \in todo
  /\ DestroyDone(i) \/ DestroyError(i) \/ DestroyRefused
  /\ Spared(i) => lags
  /\ todo' = todo \ {i}
  /\ UNCHANGED <<queueVars, pc, obs, stateVars>>

\* Without an instance in the state a single one is adopted.  Its age counts
\* from vast's start date, which may be any, or from now.
Adopt(i) ==
  /\ pc = "again" /\ todo = {}
  /\ state.id = None /\ obs.ours = {i}
  /\ \E a \in 0..AgeBound : Save([state EXCEPT !.id = i, !.stack = "plain", !.age = a])
  /\ pc' = "decide"
  /\ UNCHANGED <<vastVars, queueVars, obs, todo>>

FindOrphans ==
  /\ pc = "again" /\ todo = {}
  /\ state.id # None \/ Cardinality(obs.ours) # 1
  /\ todo' = obs.ours \ {state.id}
  /\ pc' = "orphans"
  /\ UNCHANGED <<vastVars, queueVars, obs, stateVars, faults>>

-----------------------------------------------------------------------------
(* Decide *)

\* Mutant of HaveInstance: the state is taken to have one.
HaveAnyway == TRUE

HaveInstance == state.id # None
Listed == state.id \in obs.listed
Running == state.id \in obs.up
Busy == obs.waiting # {} \/ obs.active

TooOld == state.age = 2 \/ (~Running /\ state.age >= 1)

WrongImage == state.stack = "public" /\ "internal" \in obs.waiting /\ ~obs.active
\* Mutant of DestroyDue: an instance that boots is not idle yet.
DestroyDueOnceUp ==
  /\ HaveInstance /\ Listed
  /\ TooOld \/ (obs.ok /\ Running /\ (WrongImage \/ (~Busy /\ state.idle = 2)))

DestroyDue ==
  /\ HaveInstance /\ Listed
  /\ TooOld \/ (obs.ok /\ (WrongImage \/ (~Busy /\ state.idle = 2)))

\* Mutant of RentDue: an instance in the state does not keep it from renting.
RentDueAlways == obs.ok /\ obs.waiting # {} /\ ~state.cooling

RentDue == ~HaveInstance /\ obs.ok /\ obs.waiting # {} /\ ~state.cooling

\* The idle timer after a decision to keep going.
IdleTimer ==
  CASE ~HaveInstance -> 0
    [] HaveInstance /\ ~obs.ok -> state.idle
    [] HaveInstance /\ obs.ok /\ Busy -> 0
    [] HaveInstance /\ obs.ok /\ ~Busy -> IF state.idle = 0 THEN 1 ELSE state.idle

\* The tick is over.
Return == pc' = "idle" /\ obs' = NoObs /\ UNCHANGED todo

Remember(s) == IF s = state THEN UNCHANGED <<stateVars, faults>> ELSE Save(s)

Ready == pc = "decide" \/ (pc = "orphans" /\ todo = {})

DecideRent ==
  /\ Ready /\ RentDue
  /\ Remember([state EXCEPT !.idle = 0])
  /\ pc' = "rent" /\ obs' = [NoObs EXCEPT !.waiting = obs.waiting]
  /\ UNCHANGED <<vastVars, queueVars, todo>>

\* The credit is unknown or below the floor.
DecideNoCredit ==
  /\ Ready /\ RentDue
  /\ Fault("credit")
  /\ Return
  /\ UNCHANGED <<vastVars, queueVars, stateVars>>

DecideDestroy ==
  /\ Ready /\ ~RentDue /\ DestroyDue
  /\ pc' = "destroy" /\ obs' = NoObs
  /\ UNCHANGED <<vastVars, queueVars, todo, stateVars, faults>>

DecideForget ==
  /\ Ready /\ ~RentDue /\ HaveInstance /\ ~Listed
  /\ Save(Closed(state))
  /\ Return
  /\ UNCHANGED <<vastVars, queueVars>>

DecideNone ==
  /\ Ready /\ ~RentDue /\ ~DestroyDue /\ (HaveInstance => Listed)
  /\ Remember([state EXCEPT !.idle = IdleTimer])
  /\ Return
  /\ UNCHANGED <<vastVars, queueVars>>

-----------------------------------------------------------------------------
(* Act *)

\* rent: the instance exists before the state knows it.
RentCreate(i) ==
  /\ pc = "rent"
  /\ Create(i)
  /\ (ListedAtOnce(i) /\ UNCHANGED faults) \/ (ListedLate /\ Fault("late"))
  /\ todo' = {i}
  /\ pc' = "rented" /\ obs' = NoObs
  /\ UNCHANGED <<queueVars, stateVars>>

\* Persisted before anything else.
RentSave(i) ==
  /\ pc = "rented" /\ todo = {i}
  /\ Save([state EXCEPT !.id = i, !.stack = IF image[i] = "public" THEN "public" ELSE "plain",
                        !.age = 0, !.idle = 0, !.cooling = FALSE])
  /\ pc' = "idle" /\ obs' = NoObs /\ todo' = {}
  /\ UNCHANGED <<vastVars, queueVars>>

\* No offer, or an error; the instance may have been created all the same.
RentFails ==
  /\ pc = "rent"
  /\ \/ (\A i \in Ours : inst[i] # "none") /\ UNCHANGED <<vastVars, faults>>
     \/ /\ Fault("create")
        /\ \/ UNCHANGED vastVars
           \/ \E i \in Ours : Create(i) /\ (ListedAtOnce(i) \/ ListedLate)
  /\ state' = [state EXCEPT !.cooling = TRUE]
  /\ disk' = state'
  /\ Return
  /\ UNCHANGED queueVars

Destroy ==
  /\ pc = "destroy"
  /\ \/ (DestroyDone(state.id) \/ DestroyRefused) /\ pc' = "close" /\ UNCHANGED <<obs, todo>>
     \/ DestroyError(state.id) /\ Return
  /\ UNCHANGED <<queueVars, stateVars>>

Close ==
  /\ pc = "close"
  /\ Save(Closed(state))
  /\ Return
  /\ UNCHANGED <<vastVars, queueVars>>

-----------------------------------------------------------------------------
(* The process and the clock *)

\* A crash or a restart of the service, anywhere in a tick.
Crash ==
  /\ Fault("crash")
  /\ state' = disk
  /\ pc' = "idle" /\ obs' = NoObs /\ todo' = {}
  /\ UNCHANGED <<vastVars, queueVars, disk>>

\* A time passes in memory and in the state file.
Passes(Elapsed(_)) ==
  /\ state' = Elapsed(state) /\ disk' = Elapsed(disk)
  /\ state' # state \/ disk' # disk
  /\ UNCHANGED <<vastVars, queueVars, tickVars, faults>>

IdlePasses == LET Elapsed(s) == [s EXCEPT !.idle = IF @ = 1 THEN 2 ELSE @] IN Passes(Elapsed)
AgePasses ==
  LET Elapsed(s) == [s EXCEPT !.age = IF s.id # None /\ @ < AgeBound THEN @ + 1 ELSE @]
  IN Passes(Elapsed)
CooldownPasses == LET Elapsed(s) == [s EXCEPT !.cooling = FALSE] IN Passes(Elapsed)
\* An hour; the listing is never that late.
GracePasses(i) ==
  /\ i \notin listed \/ Alive(i)
  /\ LET Elapsed(s) == [s EXCEPT !.recent = @ \ {i}] IN Passes(Elapsed)

-----------------------------------------------------------------------------
(* Environment: vast.ai and the queue *)

Boots(i) ==
  /\ inst[i] = "loading"
  /\ inst' = [inst EXCEPT ![i] = "running"]
  /\ UNCHANGED <<listed, image, queueVars, tickVars, stateVars, faults>>

\* The host goes away with the contract.
Vanishes(i) ==
  /\ Alive(i)
  /\ Fault("vanish")
  /\ Kill(i)
  /\ UNCHANGED <<queueVars, tickVars, stateVars>>

\* The listing catches up.
ListingCatchesUp(i) ==
  /\ listed' = IF Alive(i) THEN listed \cup {i} ELSE listed \ {i}
  /\ listed' # listed
  /\ UNCHANGED <<inst, image, queueVars, tickVars, stateVars, faults>>

Arrives(kind) ==
  /\ kind \notin waiting
  /\ waiting' = waiting \cup {kind}
  /\ UNCHANGED <<vastVars, active, tickVars, stateVars, faults>>

Withdrawn(kind) ==
  /\ kind \in waiting
  /\ waiting' = waiting \ {kind}
  /\ UNCHANGED <<vastVars, active, tickVars, stateVars, faults>>

Leases(i, kind) ==
  /\ inst[i] = "running" /\ i \notin active
  /\ kind \in waiting /\ CanRun(i, kind)
  /\ waiting' = waiting \ {kind}
  /\ active' = active \cup {i}
  /\ UNCHANGED <<vastVars, tickVars, stateVars, faults>>

LeaseEnds(i) ==
  /\ i \in active
  /\ active' = active \ {i}
  /\ UNCHANGED <<vastVars, waiting, tickVars, stateVars, faults>>

-----------------------------------------------------------------------------
ScalerInit ==
  /\ inst = [i \in Instances |-> IF i \in Foreign THEN "running" ELSE "none"]
  /\ listed = Foreign
  /\ image = [i \in Instances |-> "internal"]
  /\ waiting = {} /\ active = {}
  /\ pc = "idle" /\ obs = NoObs /\ todo = {}
  /\ state = NoState /\ disk = NoState
  /\ lags \in BOOLEAN /\ faults = IF lags THEN MaxFaults - LagFaults ELSE 0

TickStep ==
  \/ ReadQueue \/ ShowInstances
  \/ \E i \in Instances : DestroyListed(i) \/ Adopt(i)
  \/ FindOrphans
  \/ DecideRent \/ DecideNoCredit \/ DecideDestroy \/ DecideForget \/ DecideNone
  \/ \E i \in Ours : RentCreate(i) \/ RentSave(i)
  \/ RentFails \/ Destroy \/ Close

ScalerStep ==
  \/ TickStep \/ Crash \/ IdlePasses \/ AgePasses \/ CooldownPasses
  \/ \E i \in Instances : GracePasses(i)
  \/ \E i \in Ours : Boots(i) \/ Vanishes(i) \/ ListingCatchesUp(i)
  \/ \E kind \in Kinds : Arrives(kind) \/ Withdrawn(kind)
  \/ \E i \in Ours : LeaseEnds(i) \/ \E kind \in Kinds : Leases(i, kind)

ScalerNext == ScalerStep /\ UNCHANGED lags

ScalerSpec == ScalerInit /\ [][ScalerNext]_scalerVars

\* The loop goes on, times pass and the listing catches up.
ScalerFairness ==
  /\ WF_scalerVars(TickStep /\ UNCHANGED lags)
  /\ WF_scalerVars(IdlePasses /\ UNCHANGED lags)
  /\ WF_scalerVars(CooldownPasses /\ UNCHANGED lags)
  /\ \A i \in Ours : /\ WF_scalerVars(GracePasses(i) /\ UNCHANGED lags)
                     /\ WF_scalerVars(ListingCatchesUp(i) /\ UNCHANGED lags)

FairScalerSpec == ScalerSpec /\ ScalerFairness
-----------------------------------------------------------------------------
(* What the scaler promises *)

StateType == [id : Instances \cup {None}, stack : {"plain", "public"}, age : 0..AgeBound,
              idle : 0..2, cooling : BOOLEAN, recent : SUBSET Instances]

\* Types of all variables.
ScalerTypeOK ==
  /\ inst \in [Instances -> {"none", "loading", "running", "gone"}]
  /\ listed \subseteq Instances
  /\ image \in [Instances -> {"public", "internal"}]
  /\ waiting \subseteq Kinds /\ active \subseteq Ours
  /\ pc \in {"idle", "show", "again", "orphans", "decide", "rent", "rented", "destroy", "close"}
  /\ obs \in [ok : BOOLEAN, waiting : SUBSET Kinds, active : BOOLEAN,
              listed : SUBSET Instances, up : SUBSET Instances,
              ours : SUBSET Instances]
  /\ todo \subseteq Instances
  /\ state \in StateType /\ disk \in StateType
  /\ lags \in BOOLEAN /\ faults \in 0..MaxFaults

\* Never two paid instances at a time, as the cap of the scaler has it.
HardCap == \A i, j \in Ours : Alive(i) /\ Alive(j) => i = j

\* The cap holds through crashes between a rent and its save, ambiguous answers
\* and lost writes, as long as vast does not lag.
AtMostOneInstance == ~lags => HardCap

\* Other instances of the account are never touched.
ForeignUntouched == [][\A i \in Foreign : inst'[i] = inst[i]]_scalerVars

\* No instance is forgotten: while nothing is to be done, every paid one is
\* destroyed, whether or not the state knows it.
IdleInstancesEnd ==
  \A i \in Ours : Alive(i) ~> (~Alive(i) \/ waiting # {} \/ active # {})

\* The safety of the scaler: its types and the hard cap.
ScalerInv == ScalerTypeOK /\ AtMostOneInstance
=============================================================================
