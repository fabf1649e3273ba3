------------------------------ MODULE GpuLease ------------------------------
(***************************************************************************)
(* The GPU lease protocol of internal/gpu: runners lease jobs that wait in *)
(* `separating`, heartbeat, and complete or fail the lease; a sweeper      *)
(* expires leases whose runner went silent.  Every API handler is a thread *)
(* of the server (Calls) that runs several transactions one after the      *)
(* other, so two handlers, the sweeper, a cancel and a delete interleave   *)
(* between any two of them.  Requests may be duplicated, delayed or        *)
(* answered into the void: a handler may start whenever some runner could  *)
(* still send its request.                                                 *)
(*                                                                         *)
(* The rest of the program is the environment of this module: the intake   *)
(* worker that hands a job over, the resume worker that drives it from     *)
(* `finalizing` to the end (`driven`), and the users.                      *)
(***************************************************************************)
EXTENDS JobTable, FiniteSets

CONSTANTS Runners,      (* runner ids                                      *)
          Leases,       (* lease ids; bounds how many leases are granted   *)
          Calls,        (* handler threads of the API server               *)
          Sweeper,      (* the thread of the worker's lease sweep          *)
          MaxFailures,  (* failed or expired leases a job survives         *)
          Fractions,    (* progress a heartbeat may report, in per cent    *)
          CanRun,       (* CanRun[r]: jobs the capabilities of r admit     *)
          None          (* no lease, no job, no runner                     *)

ASSUME GpuLeaseAssumption ==
  /\ MaxFailures \in Nat \ {0}
  /\ Fractions \subseteq Int
  /\ CanRun \in [Runners -> SUBSET Jobs]
  /\ Sweeper \notin Calls
  /\ None \notin Leases \cup Jobs \cup Runners

VARIABLES lease,   (* lease[l]: a row of gpu_leases, and whether the runner knows its id *)
          call,    (* call[c]: where thread c is, and its local variables  *)
          todo,    (* expired leases whose failure policy the sweep owes   *)
          driven   (* jobs a resume worker is driving to the end           *)

leaseVars == <<lease, call, todo>>
gpuVars == <<jobVars, faults, lease, call, todo, driven>>

Threads == Calls \cup {Sweeper}
LeaseStates == {"unused", "active", "completed", "failed", "expired", "deleted"}
Points == {"idle", "offer", "beat", "drop", "verify", "moveOn", "reopen", "count", "giveUp", "retry"}

Unused == [state |-> "unused", job |-> None, runner |-> None, known |-> FALSE, overdue |-> FALSE]
Idle == [at |-> "idle", lease |-> None, p |-> 0]

-----------------------------------------------------------------------------
(* The rows of gpu_leases *)

LeasesOf(j) == {l \in Leases : lease[l].job = j}
ActiveLeases(j) == {l \in LeasesOf(j) : lease[l].state = "active"}
Failures(j) == Cardinality({l \in LeasesOf(j) : lease[l].state \in {"failed", "expired"}})

\* Mutant of Closed: a closed lease can still be overdue.
ClosedOverdue(l, s) == [lease EXCEPT ![l].state = s]

\* A lease leaves `active`; expires_at no longer matters.
Closed(l, s) == [lease EXCEPT ![l].state = s, ![l].overdue = FALSE]

\* Mutant of Close: no `AND state = 'active'`.
CloseAnyway(l, s) == lease' = Closed(l, s)

\* close: compare-and-set from `active`.
Close(l, s) ==
  \/ lease[l].state = "active" /\ lease' = Closed(l, s)
  \/ lease[l].state # "active" /\ UNCHANGED lease

\* The rows of a deleted job cascade.
Cascade(j) ==
  lease' = [l \in Leases |-> IF lease[l].job = j
                             THEN [lease[l] EXCEPT !.state = "deleted", !.overdue = FALSE]
                             ELSE lease[l]]

\* A job may be leased to r: it waits, r has its capabilities, nobody holds
\* it and its attempts are not used up.
Eligible(r, j) ==
  /\ status[j] = "separating"
  /\ j \in CanRun[r]
  /\ ActiveLeases(j) = {}
  /\ Failures(j) < MaxFailures

\* Mutant of Callable: `active` looks at the owner only.
CallableByOwner(l) == lease[l].known

\* A known, active lease: what `active` admits.  The owner is the only
\* runner that knows the id.  A call on any other lease is refused and
\* changes nothing.
Callable(l) == lease[l].state = "active" /\ lease[l].known

-----------------------------------------------------------------------------
(* Threads *)

JobOf(c) == lease[call[c].lease].job
At(c, point) == call[c].at = point
Start(c, point, l, p) ==
  /\ At(c, "idle")
  /\ call' = [call EXCEPT ![c] = [at |-> point, lease |-> l, p |-> p]]
Goto(c, point) == call' = [call EXCEPT ![c].at = point]
Return(c) == call' = [call EXCEPT ![c] = Idle]
-----------------------------------------------------------------------------
(* POST /gpu/lease *)

\* tryClaim: the row is chosen and the lease inserted in one transaction;
\* the partial unique index and the retry make the choice atomic.
Claim(c, r, j, l) ==
  /\ Eligible(r, j)
  /\ lease[l].state = "unused"
  /\ Start(c, "offer", l, 0)
  /\ lease' = [lease EXCEPT ![l] = [state |-> "active", job |-> j, runner |-> r,
                                    known |-> FALSE, overdue |-> FALSE]]
  /\ UNCHANGED <<jobVars, faults, todo, driven>>

\* The rest of Claim, a transaction of its own: the job is put (back) at the
\* start of `separating` and the lease is answered.  When the job has ended
\* meanwhile the runner gets an error and never learns of the lease.
Offer(c) ==
  /\ At(c, "offer")
  /\ Transition(JobOf(c), "separating", StageStart("separating"))
  /\ lease' = [lease EXCEPT ![call[c].lease].known = Live(JobOf(c))]
  /\ Return(c)
  /\ UNCHANGED <<faults, todo, driven>>

(* POST /gpu/lease/{id}/heartbeat *)

\* Mutant of Heartbeat: no look at the job.
HeartbeatAnyway(c, l, f) ==
  /\ Callable(l)
  /\ At(c, "idle")
  /\ lease' = [lease EXCEPT ![l].overdue = FALSE]
  /\ UNCHANGED <<jobVars, faults, call, todo, driven>>

\* Extend the lease, read the job; what follows acts on what was read.
Heartbeat(c, l, f) ==
  LET j == lease[l].job
      p == StageProgress("separating", f)
  IN
  /\ Callable(l)
  /\ At(c, "idle")
  /\ lease' = [lease EXCEPT ![l].overdue = FALSE]
  /\ \/ status[j] # "separating" /\ Start(c, "drop", l, 0)
     \/ status[j] = "separating" /\ p > progress[j] /\ Start(c, "beat", l, p)
     \/ status[j] = "separating" /\ p <= progress[j] /\ UNCHANGED call
  /\ UNCHANGED <<jobVars, faults, todo, driven>>

\* The job had left `separating`: the lease is closed as failed.
DropLease(c) ==
  /\ At(c, "drop")
  /\ Close(call[c].lease, "failed")
  /\ Return(c)
  /\ UNCHANGED <<jobVars, faults, todo, driven>>

\* The heartbeat's progress is recorded.
Beat(c) ==
  /\ At(c, "beat")
  /\ Transition(JobOf(c), "separating", call[c].p)
  /\ Return(c)
  /\ UNCHANGED <<faults, lease, todo, driven>>

(* POST /gpu/lease/{id}/complete *)

\* The job is read; when it still waits the stems are verified next.
Complete(c, l) ==
  /\ Callable(l)
  /\ Start(c, IF status[lease[l].job] = "separating" THEN "verify" ELSE "drop", l, 0)
  /\ UNCHANGED <<jobVars, faults, lease, todo, driven>>

\* Stems or artefacts do not match: bad_stems, the lease stays active.
RejectStems(c) ==
  /\ At(c, "verify")
  /\ Return(c)
  /\ UNCHANGED <<jobVars, faults, lease, todo, driven>>

\* Mutant of CloseVerified: the outcome of the compare-and-set is ignored.
CloseVerifiedAnyway(c) ==
  /\ At(c, "verify")
  /\ Close(call[c].lease, "completed")
  /\ Goto(c, "moveOn")
  /\ UNCHANGED <<jobVars, faults, todo, driven>>

\* Verified: close the lease first, and only if it is still active.
CloseVerified(c) ==
  /\ At(c, "verify")
  /\ Close(call[c].lease, "completed")
  /\ IF lease[call[c].lease].state = "active" THEN Goto(c, "moveOn") ELSE Return(c)
  /\ UNCHANGED <<jobVars, faults, todo, driven>>

\* Then move the job to finalizing.
MoveOn(c) ==
  /\ At(c, "moveOn")
  /\ Transition(JobOf(c), "finalizing", StageStart("finalizing"))
  /\ Return(c)
  /\ UNCHANGED <<faults, lease, todo, driven>>

\* That transition fails: it was not committed, or it was and the answer was
\* lost.  The lease is to be reopened.
MoveOnFails(c) ==
  /\ At(c, "moveOn")
  /\ Fault("db")
  /\ \/ Transition(JobOf(c), "finalizing", StageStart("finalizing"))
     \/ UNCHANGED jobVars
  /\ Goto(c, "reopen")
  /\ UNCHANGED <<lease, todo, driven>>

\* Mutant of Reopen: no unique index.
ReopenAnyway(c) ==
  /\ At(c, "reopen")
  /\ lease' = [lease EXCEPT ![call[c].lease].state = "active"]
  /\ Return(c)
  /\ UNCHANGED <<jobVars, faults, todo, driven>>

\* The UPDATE that reopens it; the unique index rejects a second active
\* lease, and the result is ignored.
Reopen(c) ==
  LET l == call[c].lease IN
  /\ At(c, "reopen")
  /\ lease' = IF lease[l].state = "completed" /\ ActiveLeases(JobOf(c)) = {}
              THEN [lease EXCEPT ![l].state = "active"]
              ELSE lease
  /\ Return(c)
  /\ UNCHANGED <<jobVars, faults, todo, driven>>

(* POST /gpu/lease/{id}/fail *)

Fail(c, l) ==
  /\ Callable(l)
  /\ Start(c, "count", l, 0)
  /\ Close(l, "failed")
  /\ UNCHANGED <<jobVars, faults, todo, driven>>

-----------------------------------------------------------------------------
(* afterFailure, for Fail and for the sweep *)

\* Mutant of CountFailures: gives up one attempt early.
CountOneTooMany(c) ==
  /\ At(c, "count")
  /\ Goto(c, IF Failures(JobOf(c)) + 1 >= MaxFailures THEN "giveUp" ELSE "retry")
  /\ UNCHANGED <<jobVars, faults, lease, todo, driven>>

CountFailures(c) ==
  /\ At(c, "count")
  /\ Goto(c, IF Failures(JobOf(c)) >= MaxFailures THEN "giveUp" ELSE "retry")
  /\ UNCHANGED <<jobVars, faults, lease, todo, driven>>

\* The attempts are used up.
GiveUp(c) ==
  /\ At(c, "giveUp")
  /\ Transition(JobOf(c), "failed", 0)
  /\ Return(c)
  /\ UNCHANGED <<faults, lease, todo, driven>>

\* The job waits for another runner.
Retry(c) ==
  /\ At(c, "retry")
  /\ Transition(JobOf(c), "separating", StageStart("separating"))
  /\ Return(c)
  /\ UNCHANGED <<faults, lease, todo, driven>>

-----------------------------------------------------------------------------
(* The sweep of expired leases *)

\* expires_at passes without a heartbeat.
LeaseTimesOut(l) ==
  /\ lease[l].state = "active"
  /\ ~lease[l].overdue
  /\ lease' = [lease EXCEPT ![l].overdue = TRUE]
  /\ UNCHANGED <<jobVars, faults, call, todo, driven>>

\* One UPDATE expires every overdue lease; the policy runs for each, in turn.
ExpireStale ==
  LET stale == {l \in Leases : lease[l].overdue} IN
  /\ At(Sweeper, "idle")
  /\ todo = {}
  /\ stale # {}
  /\ lease' = [l \in Leases |-> IF l \in stale
                                THEN [lease[l] EXCEPT !.state = "expired", !.overdue = FALSE]
                                ELSE lease[l]]
  /\ todo' = stale
  /\ UNCHANGED <<jobVars, faults, call, driven>>

SweepNext(l) ==
  /\ l \in todo
  /\ Start(Sweeper, "count", l, 0)
  /\ todo' = todo \ {l}
  /\ UNCHANGED <<jobVars, faults, lease, driven>>

\* A database error, a client that hung up (the request's context ends its
\* queries) or a crash of the process stops a thread where it is; the sweep
\* returns without the leases it has not reached.
Abort(c) ==
  /\ ~At(c, "idle")
  /\ Fault("db")
  /\ Return(c)
  /\ todo' = IF c = Sweeper THEN {} ELSE todo
  /\ UNCHANGED <<jobVars, lease, driven>>

-----------------------------------------------------------------------------
(* Environment: the intake and resume workers, users and retention *)

HandOver(j) ==
  /\ status[j] = "analyzing"
  /\ Apply(j, "separating", StageStart("separating"))
  /\ UNCHANGED <<faults, leaseVars, driven>>

Resume(j) ==
  /\ status[j] \in {"finalizing", "packaging"}
  /\ j \notin driven
  /\ driven' = driven \cup {j}
  /\ UNCHANGED <<jobVars, faults, leaseVars>>

Drive(j, s) ==
  /\ j \in driven
  /\ Transition(j, s, StageStart(s))
  /\ driven' = IF s \in Terminal \/ ~Live(j) THEN driven \ {j} ELSE driven
  /\ UNCHANGED <<faults, leaseVars>>

Abandon(j) ==
  /\ j \in driven
  /\ Fault("crash")
  /\ driven' = driven \ {j}
  /\ UNCHANGED <<jobVars, leaseVars>>

Cancel(j) == CancelRow(j) /\ UNCHANGED <<faults, leaseVars, driven>>

Delete(j) == DeleteRow(j) /\ Cascade(j) /\ UNCHANGED <<faults, call, todo, driven>>

-----------------------------------------------------------------------------
LeaseInit ==
  /\ status = [j \in Jobs |-> "analyzing"]
  /\ progress = [j \in Jobs |-> StageStart("analyzing")]
  /\ quiet = [j \in Jobs |-> FALSE]
  /\ faults = 0
  /\ lease = [l \in Leases |-> Unused]
  /\ call = [c \in Threads |-> Idle]
  /\ todo = {}
  /\ driven = {}

\* A step of a thread that is in the middle of a handler or of the sweep.
ThreadStep(c) ==
  \/ Offer(c) \/ DropLease(c) \/ Beat(c)
  \/ RejectStems(c) \/ CloseVerified(c) \/ MoveOn(c) \/ Reopen(c)
  \/ CountFailures(c) \/ GiveUp(c) \/ Retry(c)

\* A request arrives.
Request(c) ==
  \/ \E r \in Runners, j \in Jobs, l \in Leases : Claim(c, r, j, l)
  \/ \E l \in Leases : \/ Complete(c, l)
                       \/ Fail(c, l)
                       \/ \E f \in Fractions : Heartbeat(c, l, f)

Sweep == ExpireStale \/ \E l \in Leases : SweepNext(l)

GpuStep ==
  \/ \E c \in Calls : Request(c)
  \/ \E c \in Threads : ThreadStep(c) \/ MoveOnFails(c) \/ Abort(c)
  \/ \E l \in Leases : LeaseTimesOut(l)
  \/ Sweep

Others ==
  \E j \in Jobs :
    \/ HandOver(j) \/ Resume(j) \/ Abandon(j) \/ Cancel(j) \/ Delete(j)
    \/ \E s \in {"finalizing", "packaging", "completed", "failed"} : Drive(j, s)

LeaseNext == GpuStep \/ Others

LeaseSpec == LeaseInit /\ [][LeaseNext]_gpuVars
-----------------------------------------------------------------------------
(* What the protocol promises *)

LeaseRow == [state: LeaseStates, job: Jobs \cup {None}, runner: Runners \cup {None},
             known: BOOLEAN, overdue: BOOLEAN]
ThreadState == [at: Points, lease: Leases \cup {None}, p: 0..100]

\* Types of all variables; a row in use names its job, a busy thread its
\* lease, and only an active lease can be overdue.
LeaseTypeOK ==
  /\ JobTableTypeOK
  /\ lease \in [Leases -> LeaseRow]
  /\ \A l \in Leases : lease[l].state # "unused" => lease[l].job \in Jobs
  /\ \A l \in Leases : lease[l].overdue => lease[l].state = "active"
  /\ call \in [Threads -> ThreadState]
  /\ \A c \in Threads : ~At(c, "idle") => /\ call[c].lease \in Leases
                                         /\ lease[call[c].lease].state # "unused"
  /\ todo \subseteq Leases
  /\ \A l \in todo : lease[l].state # "unused"
  /\ driven \subseteq Jobs

\* At most one lease of a job is active (README: "at most one is active per
\* job"), although a completed lease may be reopened after the job was
\* leased again.
OneActiveLease ==
  \A j \in Jobs : \A k, l \in ActiveLeases(j) : k = l

Completing(c) == call[c].at \in {"moveOn", "reopen"}

\* A complete call that goes on after its compare-and-set owns its lease: it
\* is still closed as completed and no second call, no failure policy and no
\* sweep acts on it (the comment in Complete: a lease the sweeper expired in
\* between must not act).
CompleterOwnsLease ==
  \A c \in Threads : Completing(c) =>
    /\ lease[call[c].lease].state \in {"completed", "deleted"}
    /\ call[c].lease \notin todo
    /\ \A d \in Threads \ {c} : call[d].lease = call[c].lease
                               => call[d].at \in {"beat", "drop", "verify"}

InPolicy(c) == call[c].at \in {"count", "giveUp", "retry"}

\* The failure policy runs at most once for a lease, whether fail, a
\* heartbeat, the sweep or several of them at once close it ("not counted
\* twice").
PolicyOncePerLease ==
  /\ \A c \in Threads : InPolicy(c) =>
       /\ lease[call[c].lease].state \in {"failed", "expired", "deleted"}
       /\ call[c].lease \notin todo
       /\ \A d \in Threads \ {c} : InPolicy(d) => call[d].lease # call[c].lease
  /\ \A l \in todo : lease[l].state \in {"expired", "deleted"}

\* The verdict of a count is still right when it is acted on: a job is given
\* up only while its attempts are used up.
GiveUpIsDue ==
  \A c \in Threads : At(c, "giveUp") =>
    Failures(JobOf(c)) >= MaxFailures \/ status[JobOf(c)] = "deleted"

\* Terminal means terminal: nothing that was already on its way when a job
\* ended brings it back (only its row may be deleted).
EndedStaysEnded ==
  [][\A j \in Jobs : status[j] \in Terminal => status'[j] \in {status[j], "deleted"}]_gpuVars

\* A failed or expired lease never becomes active again, so an attempt that
\* was counted stays counted.
CountedStaysCounted ==
  [][\A l \in Leases : lease[l].state \in {"failed", "expired"}
       => lease'[l].state \in {lease[l].state, "deleted"}]_gpuVars

\* A waiting job goes to finalizing only through a complete call whose lease
\* it is and which closed that lease (or a resume worker that had it before).
OnlyVerifiedWorkMovesOn ==
  [][\A j \in Jobs : status[j] = "separating" /\ status'[j] = "finalizing" =>
       \/ j \in driven
       \/ \E c \in Calls : /\ At(c, "moveOn")
                           /\ JobOf(c) = j
                           /\ lease[call[c].lease].state = "completed"]_gpuVars

\* Once its job has ended a lease is closed, by the runner's next heartbeat
\* or by the sweep: no runner keeps a dead job.
LeasesOfEndedJobsClose ==
  \A l \in Leases :
    (lease[l].state = "active" /\ status[lease[l].job] \in Terminal)
      ~> lease[l].state # "active"
=============================================================================
