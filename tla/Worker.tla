------------------------------- MODULE Worker -------------------------------
(***************************************************************************)
(* The CPU worker of internal/worker.  Each worker process has intake      *)
(* slots, which claim pending jobs and run them up to `separating`, one    *)
(* resume loop, which drives jobs past the GPU hand-off to the end, and a  *)
(* sweep for stalled jobs.  A job is driven under a session advisory lock. *)
(* Processes are shut down, crash, lose their lock session and come back;  *)
(* users cancel and delete at any time.                                    *)
(*                                                                         *)
(* What a stage computes is left out: a stage is the transitions it makes, *)
(* and it may fail anywhere between them.  The GPU side is reduced to the  *)
(* transitions GpuLease makes.                                             *)
(***************************************************************************)
EXTENDS JobTable

CONSTANTS Workers,      (* worker processes                                *)
          Slots,        (* intake slots of each                            *)
          Resumer,      (* the other thread of each: its resume loop       *)
          LocalDemucs,  (* RK_LOCAL_DEMUCS: separate here, without the GPU *)
          Key,          (* Key[j]: hashtext of the id, the lock's key      *)
          None          (* no job, no thread                               *)

ASSUME WorkerAssumption ==
  /\ Resumer \notin Slots
  /\ LocalDemucs \in BOOLEAN
  /\ Key = [j \in Jobs |-> Key[j]]
  /\ None \notin Jobs \cup (Workers \X (Slots \cup {Resumer}))

VARIABLES mode,    (* mode[w]: "up", "stopping" (its context is cancelled) or "down" *)
          thread,  (* thread[t]: where t is in its code, and its job       *)
          holder,  (* holder[k]: the thread whose session holds lock k     *)
          batch,   (* batch[w]: candidates the resume loop has yet to try  *)
          passed,  (* passed[w][j]: runs w's resume loop began while j waited for it *)
          stalled  (* stalled[w]: jobs the stale sweep has yet to fail     *)

processVars == <<mode, batch, passed, stalled>>
workerVars == <<jobVars, faults, processVars, thread, holder>>

Intakes == Workers \X Slots
Resumers == Workers \X {Resumer}
Threads == Intakes \cup Resumers
Keys == {Key[j] : j \in Jobs}
LongWait == 2    \* runs of FinalizeTimeout + PackageTimeout that exceed StaleAfter
Nobody == [at |-> "idle", job |-> None]

-----------------------------------------------------------------------------
(* The stages, as the points of a run between two transitions *)

Step(s, p, next) == [status |-> s, progress |-> p, next |-> next]

\* The transition that ends each point, and the point it leads to.  `finalize`
\* reads the status first and makes its transition only when it must.
Plan == [
  convert    |-> Step("converting", StageProgress("converting", 50), "converted"),
  converted  |-> Step("analyzing", StageStart("analyzing"), "analyze"),
  analyze    |-> Step("analyzing", StageProgress("analyzing", 50), "analyzed"),
  analyzed   |-> Step("separating", StageStart("separating"), "release"),
  separate   |-> Step("finalizing", StageStart("finalizing"), "finalize"),
  refinalize |-> Step("finalizing", StageStart("finalizing"), "stems"),
  stems      |-> Step("finalizing", StageProgress("finalizing", 50), "finalized"),
  finalized  |-> Step("packaging", StageStart("packaging"), "pack"),
  pack       |-> Step("completed", StageStart("completed"), "release") ]

Early == {"convert", "converted", "analyze", "analyzed"}
Running == DOMAIN Plan \cup {"finalize"}
Points == Running \cup {"idle", "claimed", "requeue", "recheck", "putBack", "fail", "release"}

\* The stage a locked job is resumed at.
Entry(s) ==
  CASE s = "finalizing" -> "finalize"
    [] s = "packaging"  -> "finalized"
    [] s = "separating" -> "separate"

Resumable(j) ==
  status[j] \in {"finalizing", "packaging"} \cup (IF LocalDemucs THEN {"separating"} ELSE {})

-----------------------------------------------------------------------------
At(t, point) == thread[t].at = point
JobOf(t) == thread[t].job
Goto(t, point) == thread' = [thread EXCEPT ![t].at = point]
Return(t) == thread' = [thread EXCEPT ![t] = Nobody]
Drives(t) == thread[t].at \in Running
Up(t) == mode[t[1]] = "up"

\* Mutant of Lock: the answer of pg_try_advisory_lock is ignored.
LockAnyway(t, j) == holder' = [holder EXCEPT ![Key[j]] = t]

\* The lock is free and t takes it.
Lock(t, j) == holder[Key[j]] = None /\ holder' = [holder EXCEPT ![Key[j]] = t]

-----------------------------------------------------------------------------
(* Intake *)

\* jobs.Claim in a free slot.
Claim(t, j) ==
  /\ t \in Intakes /\ Up(t) /\ At(t, "idle")
  /\ ClaimRow(j)
  /\ thread' = [thread EXCEPT ![t] = [at |-> "claimed", job |-> j]]
  /\ UNCHANGED <<faults, processVars, holder>>

\* TryLock, in another transaction than the claim: when the lock is taken
\* the job goes back to the queue.
LockClaimed(t) ==
  /\ At(t, "claimed") /\ Up(t)
  /\ \/ Lock(t, JobOf(t)) /\ Goto(t, "convert")
     \/ holder[Key[JobOf(t)]] # None /\ Goto(t, "requeue") /\ UNCHANGED holder
  /\ UNCHANGED <<jobVars, faults, processVars>>

Requeue(t) ==
  /\ At(t, "requeue") /\ Up(t)
  /\ Transition(JobOf(t), "pending", 0)
  /\ Return(t)
  /\ UNCHANGED <<faults, processVars, holder>>

\* Once the context is cancelled neither query is made; intake returns.
IntakeCutShort(t) ==
  /\ thread[t].at \in {"claimed", "requeue"} /\ ~Up(t)
  /\ Return(t)
  /\ UNCHANGED <<jobVars, faults, processVars, holder>>

-----------------------------------------------------------------------------
(* Resume loop *)

ListResumable(w) ==
  /\ mode[w] = "up"
  /\ At(<<w, Resumer>>, "idle") /\ batch[w] = {}
  /\ batch' = [batch EXCEPT ![w] = {j \in Jobs : Resumable(j)}]
  /\ UNCHANGED <<jobVars, faults, mode, passed, stalled, thread, holder>>

LockCandidate(w, j) ==
  LET t == <<w, Resumer>> IN
  /\ mode[w] = "up"
  /\ At(t, "idle") /\ j \in batch[w]
  /\ batch' = [batch EXCEPT ![w] = @ \ {j}]
  /\ \/ Lock(t, j) /\ thread' = [thread EXCEPT ![t] = [at |-> "recheck", job |-> j]]
     \/ holder[Key[j]] # None /\ UNCHANGED <<thread, holder>>
  /\ UNCHANGED <<jobVars, faults, mode, passed, stalled>>

\* The row is read again under the lock; the rest of the batch is dropped
\* when the job is run.
Recheck(t) ==
  /\ At(t, "recheck")
  /\ IF Up(t) /\ Resumable(JobOf(t))
     THEN /\ Goto(t, Entry(status[JobOf(t)]))
          /\ batch' = [batch EXCEPT ![t[1]] = {}]
          /\ passed' = [passed EXCEPT ![t[1]] =
               [j \in Jobs |-> IF Resumable(j) /\ @[j] < LongWait
                                  /\ \A u \in Threads : JobOf(u) # j
                               THEN @[j] + 1 ELSE @[j]]]
     ELSE Goto(t, "release") /\ UNCHANGED <<batch, passed>>
  /\ UNCHANGED <<jobVars, faults, mode, stalled, holder>>

-----------------------------------------------------------------------------
(* A run under the lock *)

\* The next transition of the plan; a job that has ended stops the run.
Advance(t) ==
  /\ thread[t].at \in DOMAIN Plan /\ Up(t)
  /\ LET step == Plan[thread[t].at] IN
     /\ Transition(JobOf(t), step.status, step.progress)
     /\ Goto(t, IF Live(JobOf(t)) THEN step.next ELSE "release")
  /\ UNCHANGED <<faults, processVars, holder>>

\* finalize: the status read that decides whether a transition is needed.
EnterFinalize(t) ==
  /\ At(t, "finalize") /\ Up(t)
  /\ Goto(t, IF status[JobOf(t)] = "finalizing" THEN "stems" ELSE "refinalize")
  /\ UNCHANGED <<jobVars, faults, processVars, holder>>

\* Local demucs reports its progress.
DemucsProgress(t) ==
  /\ At(t, "separate") /\ Up(t)
  /\ Transition(JobOf(t), "separating", StageProgress("separating", 50))
  /\ UNCHANGED <<faults, processVars, thread, holder>>

\* An error or a timeout of a stage, and the transition that reports it.
StageFails(t) ==
  /\ Drives(t) /\ Up(t)
  /\ Goto(t, "fail")
  /\ UNCHANGED <<jobVars, faults, processVars, holder>>

MarkFailed(t) ==
  /\ At(t, "fail")
  /\ Transition(JobOf(t), "failed", 0)
  /\ Goto(t, "release")
  /\ UNCHANGED <<faults, processVars, holder>>

\* watchCancel: the job ended elsewhere, the run is cancelled.
WatchCancel(t) ==
  /\ Drives(t) /\ Up(t) /\ ~Live(JobOf(t))
  /\ Goto(t, "fail")
  /\ UNCHANGED <<jobVars, faults, processVars, holder>>

\* Mutant of Interrupted: any job is put back.
InterruptedAnyway(t) ==
  /\ Drives(t) /\ ~Up(t)
  /\ Goto(t, "putBack")
  /\ UNCHANGED <<jobVars, faults, processVars, holder>>

\* The process is shutting down: a job in an early stage is put back.
Interrupted(t) ==
  /\ Drives(t) /\ ~Up(t)
  /\ Goto(t, IF status[JobOf(t)] \in {"converting", "analyzing"} THEN "putBack" ELSE "release")
  /\ UNCHANGED <<jobVars, faults, processVars, holder>>

PutBack(t) ==
  /\ At(t, "putBack")
  /\ Transition(JobOf(t), "pending", 0)
  /\ Goto(t, "release")
  /\ UNCHANGED <<faults, processVars, holder>>

\* unlock comes last, after the job was put back or marked.
Unlock(t) ==
  LET k == Key[JobOf(t)] IN
  /\ At(t, "release")
  /\ holder' = IF holder[k] = t THEN [holder EXCEPT ![k] = None] ELSE holder
  /\ Return(t)
  /\ UNCHANGED <<jobVars, faults, processVars>>

-----------------------------------------------------------------------------
(* The sweep for stalled jobs *)

\* Mutant of Stale: the early stages are missing from the IN list.
StaleLate == {j \in Jobs : status[j] \in {"finalizing", "packaging"} /\ quiet[j]}

Stale == {j \in Jobs : status[j] \in CpuStages /\ quiet[j]}

ListStale(w) ==
  /\ mode[w] = "up" /\ stalled[w] = {} /\ Stale # {}
  /\ stalled' = [stalled EXCEPT ![w] = Stale]
  /\ UNCHANGED <<jobVars, faults, mode, batch, passed, thread, holder>>

FailStale(w, j) ==
  /\ mode[w] = "up" /\ j \in stalled[w]
  /\ Transition(j, "failed", 0)
  /\ stalled' = [stalled EXCEPT ![w] = @ \ {j}]
  /\ UNCHANGED <<faults, mode, batch, passed, thread, holder>>

-----------------------------------------------------------------------------
(* Processes, sessions and the clock *)

\* SIGTERM.
Stop(w) ==
  /\ mode[w] = "up"
  /\ Fault("stop")
  /\ mode' = [mode EXCEPT ![w] = "stopping"]
  /\ batch' = [batch EXCEPT ![w] = {}]
  /\ stalled' = [stalled EXCEPT ![w] = {}]
  /\ UNCHANGED <<jobVars, passed, thread, holder>>

\* Run returns when every thread has.
Exit(w) ==
  /\ mode[w] = "stopping"
  /\ \A t \in Threads : t[1] = w => At(t, "idle")
  /\ mode' = [mode EXCEPT ![w] = "down"]
  /\ UNCHANGED <<jobVars, faults, batch, passed, stalled, thread, holder>>

\* The threads and lists are gone; the locks go with their sessions.
Crash(w) ==
  /\ mode[w] # "down"
  /\ Fault("crash")
  /\ mode' = [mode EXCEPT ![w] = "down"]
  /\ thread' = [t \in Threads |-> IF t[1] = w THEN Nobody ELSE thread[t]]
  /\ holder' = [k \in Keys |-> IF holder[k] # None /\ holder[k][1] = w THEN None ELSE holder[k]]
  /\ batch' = [batch EXCEPT ![w] = {}]
  /\ stalled' = [stalled EXCEPT ![w] = {}]
  /\ UNCHANGED <<jobVars, passed>>

Restart(w) ==
  /\ mode[w] = "down"
  /\ mode' = [mode EXCEPT ![w] = "up"]
  /\ UNCHANGED <<jobVars, faults, batch, passed, stalled, thread, holder>>

\* The connection that holds a lock breaks; its thread does not notice.
LoseSession(k) ==
  /\ holder[k] # None
  /\ Fault("session")
  /\ holder' = [holder EXCEPT ![k] = None]
  /\ UNCHANGED <<jobVars, processVars, thread>>

\* A query fails where its error is only logged.
DbError(t) ==
  /\ thread[t].at \in {"claimed", "requeue", "recheck", "fail", "putBack"}
  /\ Fault("db")
  /\ IF thread[t].at \in {"claimed", "requeue"} THEN Return(t) ELSE Goto(t, "release")
  /\ UNCHANGED <<jobVars, processVars, holder>>

\* StaleAfter passes without an event.  Every stage timeout is shorter than
\* StaleAfter and a resume takes up to 40 minutes, so this happens only to a
\* job that no thread has, and to a resumable one only while no process is up
\* or every resume loop has run LongWait others first.
GoesQuiet(j) ==
  /\ status[j] \in CpuStages /\ ~quiet[j]
  /\ \A t \in Threads : JobOf(t) # j
  /\ Resumable(j) => \A w \in Workers : mode[w] = "up" => passed[w][j] >= LongWait
  /\ quiet' = [quiet EXCEPT ![j] = TRUE]
  /\ UNCHANGED <<status, progress, faults, processVars, thread, holder>>

-----------------------------------------------------------------------------
(* Environment: users, retention and the GPU side *)

OthersIdle == UNCHANGED <<processVars, thread, holder>>

Create(j) == CreateRow(j) /\ UNCHANGED faults /\ OthersIdle
Cancel(j) == CancelRow(j) /\ UNCHANGED faults /\ OthersIdle
Delete(j) == DeleteRow(j) /\ UNCHANGED faults /\ OthersIdle

\* A runner completes the job, or it is given up.
GpuEnds(j) ==
  /\ ~LocalDemucs
  /\ status[j] = "separating"
  /\ \/ Apply(j, "finalizing", StageStart("finalizing"))
     \/ Apply(j, "failed", 0)
  /\ UNCHANGED faults /\ OthersIdle

\* A late lease call puts the job back although it has moved on.
GpuLate(j) ==
  /\ ~LocalDemucs
  /\ status[j] \in {"finalizing", "packaging"}
  /\ Fault("late")
  /\ Apply(j, "separating", StageStart("separating"))
  /\ OthersIdle

-----------------------------------------------------------------------------
WorkerInit ==
  /\ status = [j \in Jobs |-> "none"]
  /\ progress = [j \in Jobs |-> 0]
  /\ quiet = [j \in Jobs |-> FALSE]
  /\ faults = 0
  /\ mode = [w \in Workers |-> "up"]
  /\ thread = [t \in Threads |-> Nobody]
  /\ holder = [k \in Keys |-> None]
  /\ batch = [w \in Workers |-> {}]
  /\ passed = [w \in Workers |-> [j \in Jobs |-> 0]]
  /\ stalled = [w \in Workers |-> {}]

\* What a thread in the middle of a job does next.
ThreadStep(t) ==
  \/ LockClaimed(t) \/ Requeue(t) \/ IntakeCutShort(t)
  \/ Recheck(t) \/ Advance(t) \/ EnterFinalize(t)
  \/ MarkFailed(t) \/ Interrupted(t) \/ PutBack(t) \/ Unlock(t)

Intake(t) == \E j \in Jobs : Claim(t, j)
ResumeLoop(w) == ListResumable(w) \/ \E j \in Jobs : LockCandidate(w, j)
StaleSweep(w) == ListStale(w) \/ \E j \in Jobs : FailStale(w, j)
Supervise(w) == Exit(w) \/ Restart(w)

WorkerNext ==
  \/ \E t \in Threads :
       \/ Intake(t) \/ ThreadStep(t) \/ DemucsProgress(t)
       \/ StageFails(t) \/ WatchCancel(t) \/ DbError(t)
  \/ \E w \in Workers :
       \/ ResumeLoop(w) \/ StaleSweep(w) \/ Supervise(w)
       \/ Stop(w) \/ Crash(w)
  \/ \E k \in Keys : LoseSession(k)
  \/ \E j \in Jobs :
       \/ GoesQuiet(j) \/ Create(j) \/ Cancel(j) \/ Delete(j)
       \/ GpuEnds(j) \/ GpuLate(j)

WorkerSpec == WorkerInit /\ [][WorkerNext]_workerVars

\* Every loop of a running process keeps going, a process that went down is
\* started again, time passes, and the GPU side ends what waits for it.
WorkerFairness ==
  /\ \A t \in Threads : WF_workerVars(ThreadStep(t)) /\ WF_workerVars(Intake(t))
  /\ \A w \in Workers : /\ WF_workerVars(ResumeLoop(w))
                        /\ WF_workerVars(StaleSweep(w))
                        /\ WF_workerVars(Supervise(w))
  /\ \A j \in Jobs : WF_workerVars(GoesQuiet(j)) /\ WF_workerVars(GpuEnds(j))

FairWorkerSpec == WorkerSpec /\ WorkerFairness
-----------------------------------------------------------------------------
(* What the worker promises *)

ThreadState == [at: Points, job: Jobs \cup {None}]

\* Types of all variables; a busy thread has a job.
WorkerTypeOK ==
  /\ JobTableTypeOK
  /\ mode \in [Workers -> {"up", "stopping", "down"}]
  /\ thread \in [Threads -> ThreadState]
  /\ \A t \in Threads : ~At(t, "idle") => JobOf(t) \in Jobs
  /\ holder \in [Keys -> Threads \cup {None}]
  /\ batch \in [Workers -> SUBSET Jobs]
  /\ passed \in [Workers -> [Jobs -> 0..LongWait]]
  /\ stalled \in [Workers -> SUBSET Jobs]

\* Slots, resume loops and processes never run one job twice at the same
\* time (README: the workers "never double-run a job"), through requeues,
\* shutdowns, crashes, restarts and equal lock keys.
OneDriver ==
  \A t, u \in Threads : Drives(t) /\ Drives(u) /\ JobOf(t) = JobOf(u) => t = u

\* From its claim to the hand-off an intake slot has its job to itself: the
\* job stays in an early stage, or it has ended.  Nobody else claims it,
\* resumes it or hands it over, and what shutdown or a requeue puts back in
\* the queue was not handed over between its status read and its write.
IntakeOwnsItsJob ==
  \A t \in Threads :
    thread[t].at \in Early \cup {"claimed", "requeue", "putBack"} =>
      \/ status[JobOf(t)] \in {"converting", "analyzing"}
      \/ ~Live(JobOf(t))

\* Stages follow one another and only a job in an early stage returns to the
\* queue, whoever moves it, as long as no late GPU call takes it back to
\* `separating`.
Following == [none |-> {"pending"}, pending |-> {"converting"},
              converting |-> {"analyzing", "pending"}, analyzing |-> {"separating", "pending"},
              separating |-> {"finalizing"}, finalizing |-> {"packaging"},
              packaging |-> {"completed"}]
NextStages(s) == IF s \in DOMAIN Following THEN Following[s] ELSE {}

StagesInOrder ==
  [][\A j \in Jobs :
       status'[j] # status[j] => \/ status'[j] \in NextStages(status[j])
                                 \/ Live(j) /\ status'[j] \in {"failed", "cancelled"}
                                 \/ status'[j] = "deleted"]_workerVars

\* Every job ends, or its row goes: a job whose worker crashed, was shut down
\* or could not reach the database is run again, resumed or failed as stale.
EveryJobEnds ==
  \A j \in Jobs : (status[j] = "pending") ~> (status[j] \in Terminal \cup {"deleted"})
=============================================================================
