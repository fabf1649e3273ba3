------------------------------- MODULE GpuWait ------------------------------
(***************************************************************************)
(* The GPU-wait watchdog of internal/worker (SweepGPUWait) beside the      *)
(* lease protocol: each worker process keeps an in-memory clock of the     *)
(* jobs it has seen waiting without a lease, and fails those it has seen   *)
(* so for GPUWaitTimeout.  The list of waiting jobs is read first and      *)
(* acted on afterwards, one transaction per job.                           *)
(***************************************************************************)
EXTENDS GpuLease

CONSTANT Watchers       (* the worker processes                            *)

VARIABLES clock,        (* clock[w]: keys of the map `waiting`             *)
          ripe,         (* ripe[w]: those on it for GPUWaitTimeout         *)
          condemned     (* condemned[w]: the list `expired` still to fail  *)

waitVars == <<clock, ripe, condemned>>
gpuWaitVars == <<gpuVars, waitVars>>

Waiting == {j \in Jobs : status[j] = "separating"}
Unleased == {j \in Waiting : ActiveLeases(j) = {}}

\* Mutant of Watch: the map is not pruned of jobs that were leased.
WatchKeepsRipe(w) ==
  /\ condemned[w] = {}
  /\ clock' = [clock EXCEPT ![w] = Unleased]
  /\ condemned' = [condemned EXCEPT ![w] = ripe[w] \cap Unleased]
  /\ UNCHANGED <<gpuVars, ripe>>

\* Mutant of Watch: every poll starts the clocks again.
WatchRestarts(w) ==
  /\ condemned[w] = {}
  /\ clock' = [clock EXCEPT ![w] = Unleased]
  /\ ripe' = [ripe EXCEPT ![w] = {}]
  /\ UNCHANGED <<gpuVars, condemned>>

\* One poll: jobs first seen unleased start their clock, leased jobs and jobs
\* that left `separating` lose it, and the ripe ones are listed for failure.
Watch(w) ==
  /\ condemned[w] = {}
  /\ clock' = [clock EXCEPT ![w] = Unleased]
  /\ ripe' = [ripe EXCEPT ![w] = @ \cap Unleased]
  /\ condemned' = [condemned EXCEPT ![w] = ripe[w] \cap Unleased]
  /\ UNCHANGED gpuVars

\* GPUWaitTimeout passes.
WaitTimesOut(w, j) ==
  /\ j \in clock[w] \ ripe[w]
  /\ ripe' = [ripe EXCEPT ![w] = @ \cup {j}]
  /\ UNCHANGED <<gpuVars, clock, condemned>>

\* A listed job is failed, whatever has happened to it since the list was read.
Condemn(w, j) ==
  /\ j \in condemned[w]
  /\ Transition(j, "failed", 0)
  /\ clock' = [clock EXCEPT ![w] = @ \ {j}]
  /\ ripe' = [ripe EXCEPT ![w] = @ \ {j}]
  /\ condemned' = [condemned EXCEPT ![w] = @ \ {j}]
  /\ UNCHANGED <<faults, leaseVars, driven>>

\* A database error ends the sweep; the clocks stay.
CondemnFails(w) ==
  /\ condemned[w] # {}
  /\ Fault("db")
  /\ condemned' = [condemned EXCEPT ![w] = {}]
  /\ UNCHANGED <<jobVars, leaseVars, driven, clock, ripe>>

\* The process restarts with an empty map.
RestartWatcher(w) ==
  /\ Fault("crash")
  /\ clock' = [clock EXCEPT ![w] = {}]
  /\ ripe' = [ripe EXCEPT ![w] = {}]
  /\ condemned' = [condemned EXCEPT ![w] = {}]
  /\ UNCHANGED <<jobVars, leaseVars, driven>>

-----------------------------------------------------------------------------
WaitInit ==
  /\ LeaseInit
  /\ clock = [w \in Watchers |-> {}]
  /\ ripe = [w \in Watchers |-> {}]
  /\ condemned = [w \in Watchers |-> {}]

WatchStep(w) == Watch(w) \/ \E j \in Jobs : Condemn(w, j)

WaitStep ==
  \E w \in Watchers :
    \/ WatchStep(w) \/ CondemnFails(w) \/ RestartWatcher(w)
    \/ \E j \in Jobs : WaitTimesOut(w, j)

WaitNext == WaitStep \/ (LeaseNext /\ UNCHANGED waitVars)

WaitSpec == WaitInit /\ [][WaitNext]_gpuWaitVars

WaitFairness ==
  /\ \A c \in Threads : WF_gpuWaitVars(ThreadStep(c) /\ UNCHANGED waitVars)
  /\ \A l \in Leases : WF_gpuWaitVars(LeaseTimesOut(l) /\ UNCHANGED waitVars)
  /\ WF_gpuWaitVars(Sweep /\ UNCHANGED waitVars)
  /\ \A w \in Watchers :
       /\ WF_gpuWaitVars(WatchStep(w))
       /\ \A j \in Jobs : WF_gpuWaitVars(WaitTimesOut(w, j))

FairWaitSpec == WaitSpec /\ WaitFairness

-----------------------------------------------------------------------------
(* What the watchdog promises *)

\* Types; every job on a list is on the clock it was read from.
WaitTypeOK ==
  /\ LeaseTypeOK
  /\ clock \in [Watchers -> SUBSET Jobs]
  /\ \A w \in Watchers : /\ ripe[w] \subseteq clock[w]
                         /\ condemned[w] \subseteq ripe[w]

\* No job is left behind: a waiting job nobody holds is leased or leaves
\* `separating`, also when a failure policy, a hand-off or a lease answer was
\* lost to an error or a crash.
UnleasedJobsMove ==
  \A j \in Jobs : (j \in Unleased) ~> (j \notin Unleased)

\* A job whose attempts are used up ends, although Claim no longer offers it
\* and the transition that should have failed it may have been lost.
SpentJobsEnd ==
  \A j \in Jobs :
    (status[j] = "separating" /\ Failures(j) >= MaxFailures) ~> status[j] # "separating"

\* Nothing waits for the GPU for ever, whatever became of its leases and of
\* the steps that should have moved it (SweepGPUWait).
WaitingJobsMove == UnleasedJobsMove /\ SpentJobsEnd
=============================================================================
