---------------------------- MODULE Worker_proofs ---------------------------
(***************************************************************************)
(* Proofs about the CPU worker, for any number of jobs, processes, slots   *)
(* and faults and for any assignment of lock keys.                         *)
(***************************************************************************)
EXTENDS Worker, TLAPS

USE DEF jobVars, processVars, workerVars

-----------------------------------------------------------------------------
(* The table of stages *)

LEMMA ProgressRange ==
  /\ \A s \in {"converting", "analyzing", "finalizing", "separating"} :
       StageProgress(s, 50) \in 0..100
  /\ \A s : StageStart(s) \in 0..100
BY DEF StageProgress, StageStart, StageEnd, Starts, Ends

\* The statuses a run writes, and the points of the table.
LEMMA PlanPoints ==
  DOMAIN Plan = {"convert", "converted", "analyze", "analyzed", "separate",
                 "refinalize", "stems", "finalized", "pack"}
BY DEF Plan

LEMMA PlanType ==
  \A x \in DOMAIN Plan : /\ Plan[x].status \in RowStates
                         /\ Plan[x].progress \in 0..100
                         /\ Plan[x].next \in Points
<1>1. \A x \in DOMAIN Plan : Plan[x].status \in RowStates
  BY DEF Plan, Step, RowStates, Statuses, CpuStages, Terminal
<1>2. \A x \in DOMAIN Plan : Plan[x].progress \in 0..100
  BY ProgressRange DEF Plan, Step
<1>3. \A x \in DOMAIN Plan : Plan[x].next \in Running \cup {"release"}
  BY PlanPoints DEF Plan, Step, Running
<1> QED BY <1>1, <1>2, <1>3 DEF Points

LEMMA EntryPoints ==
  ASSUME NEW j \in Jobs, Resumable(j)
  PROVE  Entry(status[j]) \in {"finalize", "finalized", "separate"}
BY DEF Resumable, Entry

LEMMA PointNames ==
  /\ {"idle", "claimed", "requeue", "recheck", "putBack", "fail", "release", "finalize"} \subseteq Points
  /\ DOMAIN Plan \subseteq Points
BY DEF Points, Running

-----------------------------------------------------------------------------
(* The jobs table *)

LEMMA ApplyType ==
  ASSUME JobTableTypeOK, faults' \in 0..MaxFaults,
         NEW j \in Jobs, NEW s \in RowStates, NEW p \in 0..100,
         Apply(j, s, p) \/ UNCHANGED jobVars
  PROVE  JobTableTypeOK'
BY DEF JobTableTypeOK, Apply

LEMMA TransitionType ==
  ASSUME JobTableTypeOK, faults' \in 0..MaxFaults,
         NEW j \in Jobs, NEW s \in RowStates, NEW p \in 0..100,
         Transition(j, s, p)
  PROVE  JobTableTypeOK'
BY ApplyType DEF Transition

LEMMA FaultType ==
  ASSUME JobTableTypeOK, NEW kind, Fault(kind)
  PROVE  faults' \in 0..MaxFaults
BY FaultsAssumption DEF JobTableTypeOK, Fault

LEMMA WrittenStatuses ==
  {"pending", "converting", "analyzing", "separating", "finalizing", "packaging", "completed",
   "failed", "cancelled", "deleted"} \subseteq RowStates
BY DEF RowStates, Statuses, CpuStages, Terminal

-----------------------------------------------------------------------------
(* Type correctness *)

\* The parts of the type invariant.
ThreadType ==
  /\ thread \in [Threads -> ThreadState]
  /\ \A t \in Threads : ~At(t, "idle") => JobOf(t) \in Jobs
HolderType == holder \in [Keys -> Threads \cup {None}]
ProcessType ==
  /\ mode \in [Workers -> {"up", "stopping", "down"}]
  /\ batch \in [Workers -> SUBSET Jobs]
  /\ passed \in [Workers -> [Jobs -> 0..LongWait]]
  /\ stalled \in [Workers -> SUBSET Jobs]

LEMMA TypeParts ==
  WorkerTypeOK <=> JobTableTypeOK /\ ThreadType /\ HolderType /\ ProcessType
BY DEF WorkerTypeOK, ThreadType, HolderType, ProcessType

LEMMA GotoType ==
  ASSUME ThreadType, NEW t \in Threads, NEW point \in Points, ~At(t, "idle"), Goto(t, point)
  PROVE  ThreadType'
BY DEF ThreadType, Goto, At, JobOf, ThreadState

LEMMA ReturnType ==
  ASSUME ThreadType, NEW t \in Threads, Return(t)
  PROVE  ThreadType'
BY PointNames DEF ThreadType, Return, At, JobOf, ThreadState, Nobody

LEMMA TakeType ==
  ASSUME ThreadType, NEW t \in Threads, NEW point \in Points, NEW j \in Jobs,
         thread' = [thread EXCEPT ![t] = [at |-> point, job |-> j]]
  PROVE  ThreadType'
BY DEF ThreadType, At, JobOf, ThreadState

LEMMA LockType ==
  ASSUME HolderType, NEW t \in Threads, NEW j \in Jobs, Lock(t, j)
  PROVE  HolderType'
BY DEF HolderType, Lock, Keys

LEMMA ThreadNames ==
  /\ \A w \in Workers : <<w, Resumer>> \in Threads
  /\ \A t \in Threads : t[1] \in Workers
  /\ Intakes \subseteq Threads
  /\ None \notin Jobs \cup Threads
BY WorkerAssumption DEF Threads, Intakes, Resumers

LEMMA TypeInit == WorkerInit => WorkerTypeOK
<1> SUFFICES ASSUME WorkerInit PROVE WorkerTypeOK
  OBVIOUS
<1>1. JobTableTypeOK
  BY FaultsAssumption DEF WorkerInit, JobTableTypeOK, RowStates
<1>2. ThreadType
  BY PointNames DEF WorkerInit, ThreadType, ThreadState, Nobody, At
<1>3. HolderType /\ ProcessType
  BY DEF WorkerInit, HolderType, ProcessType, LongWait
<1> QED BY <1>1, <1>2, <1>3, TypeParts

LEMMA TypeStep ==
  ASSUME WorkerTypeOK, [WorkerNext]_workerVars
  PROVE  WorkerTypeOK'
<1> DEFINE Parts == JobTableTypeOK' /\ ThreadType' /\ HolderType' /\ ProcessType'
<1> USE WrittenStatuses, PointNames, ThreadNames, ProgressRange
<1>0. /\ JobTableTypeOK /\ ThreadType /\ HolderType /\ ProcessType
      /\ faults \in 0..MaxFaults
  BY TypeParts DEF JobTableTypeOK
<1>s. SUFFICES Parts
  BY DEF WorkerTypeOK, ThreadType, HolderType, ProcessType
<1>table. UNCHANGED <<jobVars, faults>> => JobTableTypeOK'
  BY <1>0 DEF JobTableTypeOK
<1>thread. UNCHANGED thread => ThreadType'
  BY <1>0 DEF ThreadType, At, JobOf
<1>holder. UNCHANGED holder => HolderType'
  BY <1>0 DEF HolderType
<1>process. UNCHANGED processVars => ProcessType'
  BY <1>0 DEF ProcessType
<1>row. ASSUME NEW j \in Jobs, NEW s \in RowStates, NEW p \in 0..100,
               Transition(j, s, p) \/ Apply(j, s, p), faults' \in 0..MaxFaults
        PROVE  JobTableTypeOK'
  BY <1>0, <1>row, TransitionType, ApplyType
<1>busy. ASSUME NEW t \in Threads, ~At(t, "idle")
         PROVE  JobOf(t) \in Jobs
  BY <1>0, <1>busy DEF ThreadType
<1>fault. ASSUME NEW kind, Fault(kind)
          PROVE  faults' \in 0..MaxFaults
  BY <1>0, <1>fault, FaultType
\* Intake
<1>1. ASSUME NEW t \in Threads, NEW j \in Jobs, Claim(t, j)
      PROVE  Parts
  <2>1. JobTableTypeOK'
    BY <1>0, <1>1, <1>row DEF Claim, ClaimRow
  <2>2. ThreadType'
    BY <1>0, <1>1, TakeType DEF Claim
  <2> QED BY <1>1, <1>holder, <1>process, <2>1, <2>2 DEF Claim
<1>2. ASSUME NEW t \in Threads, LockClaimed(t)
      PROVE  Parts
  <2>0. ~At(t, "idle") /\ JobOf(t) \in Jobs
    BY <1>2, <1>busy DEF LockClaimed, At
  <2>1. "convert" \in Points
    BY PlanPoints
  <2>2. ThreadType' /\ HolderType'
    BY <1>0, <1>2, <1>holder, <2>0, <2>1, GotoType, LockType DEF LockClaimed
  <2> QED BY <1>2, <1>table, <1>process, <2>2 DEF LockClaimed
<1>3. ASSUME NEW t \in Threads, Requeue(t)
      PROVE  Parts
  <2>1. JobTableTypeOK'
    BY <1>0, <1>3, <1>busy, <1>row DEF Requeue, At
  <2> QED BY <1>0, <1>3, <1>holder, <1>process, <2>1, ReturnType DEF Requeue
<1>4. ASSUME NEW t \in Threads, IntakeCutShort(t)
      PROVE  Parts
  BY <1>0, <1>4, <1>table, <1>holder, <1>process, ReturnType DEF IntakeCutShort
\* Resume loop
<1>5. ASSUME NEW w \in Workers, ListResumable(w)
      PROVE  Parts
  <2>1. ProcessType'
    BY <1>0, <1>5 DEF ListResumable, ProcessType
  <2> QED BY <1>5, <1>table, <1>thread, <1>holder, <2>1 DEF ListResumable
<1>6. ASSUME NEW w \in Workers, NEW j \in Jobs, LockCandidate(w, j)
      PROVE  Parts
  <2>1. ProcessType'
    BY <1>0, <1>6 DEF LockCandidate, ProcessType
  <2>2. ThreadType' /\ HolderType'
    BY <1>0, <1>6, <1>thread, <1>holder, TakeType, LockType DEF LockCandidate
  <2> QED BY <1>6, <1>table, <2>1, <2>2 DEF LockCandidate
<1>7. ASSUME NEW t \in Threads, Recheck(t)
      PROVE  Parts
  <2>0. ~At(t, "idle") /\ JobOf(t) \in Jobs
    BY <1>7, <1>busy DEF Recheck, At
  <2>1. Resumable(JobOf(t)) => Entry(status[JobOf(t)]) \in Points
    BY <2>0, EntryPoints, PlanPoints
  <2>2. ThreadType'
    BY <1>0, <1>7, <2>0, <2>1, GotoType DEF Recheck
  <2>3. ProcessType'
    <3>1. CASE UNCHANGED <<batch, passed>>
      BY <1>0, <1>7, <3>1 DEF Recheck, ProcessType
    <3>2. CASE ~UNCHANGED <<batch, passed>>
      <4>1. /\ batch' = [batch EXCEPT ![t[1]] = {}]
            /\ passed' = [passed EXCEPT ![t[1]] =
                 [j \in Jobs |-> IF Resumable(j) /\ @[j] < LongWait
                                    /\ \A u \in Threads : JobOf(u) # j
                                 THEN @[j] + 1 ELSE @[j]]]
        BY <1>7, <3>2 DEF Recheck
      <4>2. batch' \in [Workers -> SUBSET Jobs]
        BY <1>0, <4>1 DEF ProcessType
      <4>3. passed' \in [Workers -> [Jobs -> 0..LongWait]]
        <5> DEFINE row == [j \in Jobs |-> IF Resumable(j) /\ passed[t[1]][j] < LongWait
                                             /\ \A u \in Threads : JobOf(u) # j
                                          THEN passed[t[1]][j] + 1 ELSE passed[t[1]][j]]
        <5>1. passed' = [passed EXCEPT ![t[1]] = row]
          BY <4>1
        <5>2. passed[t[1]] \in [Jobs -> 0..LongWait]
          BY <1>0 DEF ProcessType
        <5>3. row \in [Jobs -> 0..LongWait]
          BY <5>2 DEF LongWait
        <5> HIDE DEF row
        <5> QED BY <1>0, <5>1, <5>3 DEF ProcessType
      <4> QED BY <1>0, <1>7, <4>2, <4>3 DEF Recheck, ProcessType
    <3> QED BY <3>1, <3>2
  <2> QED BY <1>7, <1>table, <1>holder, <2>2, <2>3 DEF Recheck
\* A run under the lock
<1>8. ASSUME NEW t \in Threads, Advance(t)
      PROVE  Parts
  <2> DEFINE step == Plan[thread[t].at]
  <2>0. ~At(t, "idle") /\ JobOf(t) \in Jobs /\ thread[t].at \in DOMAIN Plan
    BY <1>8, <1>busy, PlanPoints DEF Advance, At
  <2>1. step.status \in RowStates /\ step.progress \in 0..100 /\ step.next \in Points
    BY <2>0, PlanType
  <2>2. /\ Transition(JobOf(t), step.status, step.progress)
        /\ Goto(t, step.next) \/ Goto(t, "release")
        /\ UNCHANGED <<faults, processVars, holder>>
    BY <1>8 DEF Advance
  <2> HIDE DEF step
  <2> QED BY <1>0, <1>holder, <1>process, <1>row, <2>0, <2>1, <2>2, GotoType
<1>9. ASSUME NEW t \in Threads, EnterFinalize(t)
      PROVE  Parts
  <2>1. ~At(t, "idle") /\ {"stems", "refinalize"} \subseteq Points
    BY <1>9, PlanPoints DEF EnterFinalize, At
  <2> QED BY <1>0, <1>9, <1>table, <1>holder, <1>process, <2>1, GotoType DEF EnterFinalize
<1>10. ASSUME NEW t \in Threads, DemucsProgress(t)
       PROVE  Parts
  <2>1. JobOf(t) \in Jobs
    BY <1>10, <1>busy DEF DemucsProgress, At
  <2> QED BY <1>0, <1>10, <1>thread, <1>holder, <1>process, <1>row, <2>1 DEF DemucsProgress
<1>driving. ASSUME NEW t \in Threads, Drives(t)
            PROVE  ~At(t, "idle")
  BY <1>driving, PlanPoints DEF Drives, Running, At
<1>11. ASSUME NEW t \in Threads, StageFails(t) \/ WatchCancel(t) \/ Interrupted(t)
       PROVE  Parts
  <2>1. ThreadType'
    BY <1>0, <1>11, <1>driving, GotoType DEF StageFails, WatchCancel, Interrupted
  <2> QED BY <1>11, <1>table, <1>holder, <1>process, <2>1 DEF StageFails, WatchCancel, Interrupted
<1>12. ASSUME NEW t \in Threads, MarkFailed(t) \/ PutBack(t)
       PROVE  Parts
  <2>0. ~At(t, "idle") /\ JobOf(t) \in Jobs
    BY <1>12, <1>busy DEF MarkFailed, PutBack, At
  <2>1. JobTableTypeOK'
    BY <1>0, <1>12, <1>row, <2>0 DEF MarkFailed, PutBack
  <2>2. ThreadType'
    BY <1>0, <1>12, <2>0, GotoType DEF MarkFailed, PutBack
  <2> QED BY <1>12, <1>holder, <1>process, <2>1, <2>2 DEF MarkFailed, PutBack
<1>13. ASSUME NEW t \in Threads, Unlock(t)
       PROVE  Parts
  <2>1. HolderType'
    BY <1>0, <1>13 DEF Unlock, HolderType
  <2> QED BY <1>0, <1>13, <1>table, <1>process, <2>1, ReturnType DEF Unlock
\* The sweep for stalled jobs
<1>14. ASSUME NEW w \in Workers, ListStale(w)
       PROVE  Parts
  <2>1. ProcessType'
    BY <1>0, <1>14 DEF ListStale, Stale, ProcessType
  <2> QED BY <1>14, <1>table, <1>thread, <1>holder, <2>1 DEF ListStale
<1>15. ASSUME NEW w \in Workers, NEW j \in Jobs, FailStale(w, j)
       PROVE  Parts
  <2>1. ProcessType'
    BY <1>0, <1>15 DEF FailStale, ProcessType
  <2> QED BY <1>0, <1>15, <1>thread, <1>holder, <1>row, <2>1 DEF FailStale
\* Processes, sessions and the clock
<1>16. ASSUME NEW w \in Workers, Stop(w)
       PROVE  Parts
  <2>1. ProcessType'
    BY <1>0, <1>16 DEF Stop, ProcessType
  <2>2. JobTableTypeOK'
    BY <1>0, <1>16, <1>fault DEF Stop, JobTableTypeOK
  <2> QED BY <1>16, <1>thread, <1>holder, <2>1, <2>2 DEF Stop
<1>17. ASSUME NEW w \in Workers, Supervise(w)
       PROVE  Parts
  <2>1. ProcessType'
    BY <1>0, <1>17 DEF Supervise, Exit, Restart, ProcessType
  <2> QED BY <1>17, <1>table, <1>thread, <1>holder, <2>1 DEF Supervise, Exit, Restart
<1>18. ASSUME NEW w \in Workers, Crash(w)
       PROVE  Parts
  <2>1. ProcessType'
    BY <1>0, <1>18 DEF Crash, ProcessType
  <2>2. JobTableTypeOK'
    BY <1>0, <1>18, <1>fault DEF Crash, JobTableTypeOK
  <2>3. ThreadType'
    BY <1>0, <1>18 DEF Crash, ThreadType, ThreadState, Nobody, At, JobOf
  <2>4. HolderType'
    BY <1>0, <1>18 DEF Crash, HolderType
  <2> QED BY <2>1, <2>2, <2>3, <2>4
<1>19. ASSUME NEW k \in Keys, LoseSession(k)
       PROVE  Parts
  <2>1. HolderType'
    BY <1>0, <1>19 DEF LoseSession, HolderType
  <2>2. JobTableTypeOK'
    BY <1>0, <1>19, <1>fault DEF LoseSession, JobTableTypeOK
  <2> QED BY <1>19, <1>thread, <1>process, <2>1, <2>2 DEF LoseSession
<1>20. ASSUME NEW t \in Threads, DbError(t)
       PROVE  Parts
  <2>1. JobTableTypeOK'
    BY <1>0, <1>20, <1>fault DEF DbError, JobTableTypeOK
  <2>2. ThreadType'
    BY <1>0, <1>20, GotoType, ReturnType DEF DbError, At
  <2> QED BY <1>20, <1>holder, <1>process, <2>1, <2>2 DEF DbError
<1>21. ASSUME NEW j \in Jobs, GoesQuiet(j)
       PROVE  Parts
  <2>1. JobTableTypeOK'
    BY <1>0, <1>21 DEF GoesQuiet, JobTableTypeOK
  <2> QED BY <1>21, <1>thread, <1>holder, <1>process, <2>1 DEF GoesQuiet
\* Environment
<1>22. ASSUME NEW j \in Jobs, Create(j) \/ Cancel(j) \/ Delete(j) \/ GpuEnds(j) \/ GpuLate(j)
       PROVE  Parts
  <2>1. OthersIdle
    BY <1>22 DEF Create, Cancel, Delete, GpuEnds, GpuLate
  <2>2. faults' \in 0..MaxFaults
    BY <1>0, <1>22, <1>fault DEF Create, Cancel, Delete, GpuEnds, GpuLate
  <2>3. JobTableTypeOK'
    BY <1>22, <1>row, <2>2
    DEF Create, CreateRow, Cancel, CancelRow, Delete, DeleteRow, GpuEnds, GpuLate
  <2> QED BY <1>thread, <1>holder, <1>process, <2>1, <2>3 DEF OthersIdle
<1>23. ASSUME UNCHANGED workerVars
       PROVE  Parts
  BY <1>23, <1>table, <1>thread, <1>holder, <1>process
<1> QED
  BY <1>1, <1>2, <1>3, <1>4, <1>5, <1>6, <1>7, <1>8, <1>9, <1>10, <1>11, <1>12, <1>13, <1>14,
     <1>15, <1>16, <1>17, <1>18, <1>19, <1>20, <1>21, <1>22, <1>23
  DEF WorkerNext, ThreadStep, Intake, ResumeLoop, StaleSweep

\* The variables of the worker keep their types.
THEOREM WorkerTypeCorrect == WorkerSpec => []WorkerTypeOK
BY TypeInit, TypeStep, PTL DEF WorkerSpec

-----------------------------------------------------------------------------
(* One driver per job, as long as no lock session breaks *)

Locked == Running \cup {"recheck", "fail", "putBack", "release"}

\* A thread past its lock holds it.
HoldsLock ==
  \A t \in Threads : thread[t].at \in Locked => holder[Key[JobOf(t)]] = t

LEMMA LockedPoints ==
  /\ Locked \cap {"idle", "claimed", "requeue"} = {}
  /\ DOMAIN Plan \subseteq Locked
  /\ \A x \in DOMAIN Plan : Plan[x].next \in Locked
  /\ {"convert", "converted", "analyze", "analyzed", "separate", "refinalize", "stems",
      "finalized", "pack", "finalize", "recheck", "fail", "putBack", "release"} \subseteq Locked
<1>1. \A x \in DOMAIN Plan : Plan[x].next \in Running \cup {"release"}
  BY PlanPoints DEF Plan, Step, Running
<1> QED BY <1>1, PlanPoints DEF Locked, Running

\* A thread that goes on under its lock, or lets go of a job it had not locked.
LEMMA SameLocks ==
  ASSUME WorkerTypeOK, HoldsLock, UNCHANGED holder,
         \A t \in Threads : thread'[t].at \in Locked =>
           thread[t].at \in Locked /\ thread'[t].job = thread[t].job
  PROVE  HoldsLock'
BY DEF HoldsLock, JobOf

\* A thread that takes a free lock.
LEMMA NewLock ==
  ASSUME WorkerTypeOK, HoldsLock, NEW t \in Threads, NEW j \in Jobs, Lock(t, j),
         thread'[t].job = j, \A u \in Threads \ {t} : thread'[u] = thread[u]
  PROVE  HoldsLock'
<1>0. Key[j] \in Keys /\ holder[Key[j]] = None /\ holder' = [holder EXCEPT ![Key[j]] = t]
  BY DEF Lock, Keys
<1> SUFFICES ASSUME NEW u \in Threads, thread'[u].at \in Locked
             PROVE  holder'[Key[thread'[u].job]] = u
  BY DEF HoldsLock, JobOf
<1>1. CASE u = t
  BY <1>0, <1>1 DEF WorkerTypeOK
<1>2. CASE u # t
  <2>1. thread'[u] = thread[u]
    BY <1>2 DEF WorkerTypeOK
  <2>2. holder[Key[thread[u].job]] = u /\ u # None
    BY <2>1, ThreadNames DEF HoldsLock, JobOf
  <2> QED BY <1>0, <2>1, <2>2 DEF WorkerTypeOK
<1> QED BY <1>1, <1>2

LEMMA LocksStep ==
  ASSUME "session" \notin FaultKinds, WorkerTypeOK, HoldsLock, [WorkerNext]_workerVars
  PROVE  HoldsLock'
<1> USE LockedPoints, ThreadNames
<1> DEFINE Kept == \A t \in Threads : thread'[t].at \in Locked =>
                     thread[t].at \in Locked /\ thread'[t].job = thread[t].job
<1>0. /\ thread \in [Threads -> ThreadState]
      /\ holder \in [Keys -> Threads \cup {None}]
      /\ \A t \in Threads : ~At(t, "idle") => JobOf(t) \in Jobs
  BY DEF WorkerTypeOK
<1>same. ASSUME UNCHANGED holder, Kept
         PROVE  HoldsLock'
  BY <1>same, SameLocks
<1>goto. ASSUME NEW t \in Threads, NEW x, thread[t].at \in Locked \/ x \notin Locked, Goto(t, x)
         PROVE  Kept
  BY <1>0, <1>goto DEF Goto, ThreadState
<1>return. ASSUME NEW t \in Threads, Return(t)
           PROVE  Kept
  BY <1>0, <1>return DEF Return, Nobody
<1>1. ASSUME NEW t \in Threads, NEW j \in Jobs, Claim(t, j)
      PROVE  HoldsLock'
  <2>1. Kept
    BY <1>0, <1>1 DEF Claim
  <2> QED BY <1>1, <1>same, <2>1 DEF Claim
<1>2. ASSUME NEW t \in Threads, LockClaimed(t)
      PROVE  HoldsLock'
  <2>0. JobOf(t) \in Jobs
    BY <1>0, <1>2 DEF LockClaimed, At
  <2>1. CASE Lock(t, JobOf(t)) /\ Goto(t, "convert")
    <3>1. thread'[t].job = JobOf(t) /\ \A u \in Threads \ {t} : thread'[u] = thread[u]
      BY <1>0, <2>1 DEF Goto, JobOf, ThreadState
    <3> QED BY <2>0, <2>1, <3>1, NewLock
  <2>2. CASE Goto(t, "requeue") /\ UNCHANGED holder
    BY <2>2, <1>goto, <1>same
  <2> QED BY <1>2, <2>1, <2>2 DEF LockClaimed
<1>3. ASSUME NEW t \in Threads, Requeue(t) \/ IntakeCutShort(t)
      PROVE  HoldsLock'
  BY <1>3, <1>return, <1>same DEF Requeue, IntakeCutShort
<1>4. ASSUME NEW w \in Workers, NEW j \in Jobs, LockCandidate(w, j)
      PROVE  HoldsLock'
  <2>1. CASE UNCHANGED <<thread, holder>>
    BY <2>1, <1>same
  <2>2. CASE /\ Lock(<<w, Resumer>>, j)
             /\ thread' = [thread EXCEPT ![<<w, Resumer>>] = [at |-> "recheck", job |-> j]]
    BY <1>0, <2>2, NewLock
  <2> QED BY <1>4, <2>1, <2>2 DEF LockCandidate
<1>5. ASSUME NEW t \in Threads, Recheck(t)
      PROVE  HoldsLock'
  <2>1. thread[t].at \in Locked
    BY <1>5 DEF Recheck, At
  <2> QED BY <1>5, <2>1, <1>goto, <1>same DEF Recheck
<1>6. ASSUME NEW t \in Threads, Advance(t)
      PROVE  HoldsLock'
  <2>1. thread[t].at \in Locked
    BY <1>6 DEF Advance
  <2>2. \E x : Goto(t, x)
    BY <1>6 DEF Advance
  <2> QED BY <1>6, <2>1, <2>2, <1>goto, <1>same DEF Advance
<1>7. ASSUME NEW t \in Threads, EnterFinalize(t) \/ MarkFailed(t) \/ PutBack(t)
      PROVE  HoldsLock'
  <2>1. thread[t].at \in Locked
    BY <1>7 DEF EnterFinalize, MarkFailed, PutBack, At
  <2> QED BY <1>7, <2>1, <1>goto, <1>same DEF EnterFinalize, MarkFailed, PutBack
<1>8. ASSUME NEW t \in Threads, StageFails(t) \/ WatchCancel(t) \/ Interrupted(t)
      PROVE  HoldsLock'
  <2>1. thread[t].at \in Locked
    BY <1>8 DEF StageFails, WatchCancel, Interrupted, Drives, Locked
  <2> QED BY <1>8, <2>1, <1>goto, <1>same DEF StageFails, WatchCancel, Interrupted
<1>9. ASSUME NEW t \in Threads, Unlock(t)
      PROVE  HoldsLock'
  <2> SUFFICES ASSUME NEW u \in Threads, thread'[u].at \in Locked
               PROVE  holder'[Key[thread'[u].job]] = u
    BY DEF HoldsLock, JobOf
  <2>1. u # t /\ thread'[u] = thread[u]
    BY <1>0, <1>9 DEF Unlock, Return, Nobody
  <2>2. thread[u].job \in Jobs /\ Key[thread[u].job] \in Keys
    BY <1>0, <2>1 DEF At, JobOf, Keys
  <2>3. holder[Key[thread[u].job]] = u
    BY <2>1 DEF HoldsLock, JobOf
  <2> QED BY <1>0, <1>9, <2>1, <2>2, <2>3 DEF Unlock
<1>10. ASSUME NEW w \in Workers, Crash(w)
       PROVE  HoldsLock'
  <2> SUFFICES ASSUME NEW u \in Threads, thread'[u].at \in Locked
               PROVE  holder'[Key[thread'[u].job]] = u
    BY DEF HoldsLock, JobOf
  <2>1. u[1] # w /\ thread'[u] = thread[u]
    BY <1>10 DEF Crash, Nobody
  <2>2. thread[u].job \in Jobs /\ Key[thread[u].job] \in Keys
    BY <1>0, <2>1 DEF At, JobOf, Keys
  <2>3. holder[Key[thread[u].job]] = u
    BY <2>1 DEF HoldsLock, JobOf
  <2> QED BY <1>0, <1>10, <2>1, <2>2, <2>3 DEF Crash
<1>11. ASSUME NEW t \in Threads, DbError(t)
       PROVE  HoldsLock'
  <2>1. CASE Return(t)
    BY <1>11, <2>1, <1>return, <1>same DEF DbError
  <2>2. CASE Goto(t, "release") /\ thread[t].at \in Locked
    BY <1>11, <2>2, <1>goto, <1>same DEF DbError
  <2> QED BY <1>11, <2>1, <2>2 DEF DbError
<1>12. ASSUME NEW k \in Keys, LoseSession(k)
       PROVE  FALSE
  BY <1>12 DEF LoseSession, Fault
<1>13. CASE UNCHANGED <<thread, holder>>
  BY <1>13, <1>same
<1>14. /\ \A w \in Workers : ListResumable(w) \/ StaleSweep(w) \/ Supervise(w) \/ Stop(w)
                               => UNCHANGED <<thread, holder>>
       /\ \A t \in Threads : DemucsProgress(t) => UNCHANGED <<thread, holder>>
       /\ \A j \in Jobs : GoesQuiet(j) \/ Create(j) \/ Cancel(j) => UNCHANGED <<thread, holder>>
       /\ \A j \in Jobs : Delete(j) \/ GpuEnds(j) \/ GpuLate(j) => UNCHANGED <<thread, holder>>
  BY DEF ListResumable, StaleSweep, ListStale, FailStale, Supervise, Exit, Restart, Stop,
         DemucsProgress, GoesQuiet, Create, Cancel, Delete, GpuEnds, GpuLate, OthersIdle
<1>15. WorkerNext => HoldsLock'
  BY <1>1, <1>2, <1>3, <1>4, <1>5, <1>6, <1>7, <1>8, <1>9, <1>10, <1>11, <1>12, <1>13, <1>14
  DEF WorkerNext, ThreadStep, Intake, ResumeLoop
<1> QED BY <1>13, <1>15

LEMMA LocksInit == WorkerInit => HoldsLock
BY LockedPoints DEF WorkerInit, HoldsLock, Nobody

\* Threads past their lock hold it, unless a lock session broke.
THEOREM LocksHeld ==
  ASSUME "session" \notin FaultKinds
  PROVE  WorkerSpec => [](WorkerTypeOK /\ HoldsLock)
<1>1. WorkerInit => WorkerTypeOK /\ HoldsLock
  BY TypeInit, LocksInit
<1>2. WorkerTypeOK /\ HoldsLock /\ [WorkerNext]_workerVars => (WorkerTypeOK /\ HoldsLock)'
  BY TypeStep, LocksStep
<1> QED BY <1>1, <1>2, PTL DEF WorkerSpec

\* No job is ever run by two threads at a time, for any number of processes
\* and slots and any collisions of lock keys.
THEOREM DriversExclusive ==
  ASSUME "session" \notin FaultKinds
  PROVE  WorkerSpec => []OneDriver
<1>1. WorkerTypeOK /\ HoldsLock => OneDriver
  BY DEF HoldsLock, OneDriver, Drives, Locked
<1> QED BY <1>1, LocksHeld, PTL

-----------------------------------------------------------------------------
(* An intake slot has its job to itself, with every kind of fault *)

EarlyStatuses == {"converting", "analyzing"}
LateStatuses == {"separating", "finalizing", "packaging"}
ClaimPoints == Early \cup {"claimed", "requeue", "putBack"}
LatePoints == {"separate", "finalize", "refinalize", "stems", "finalized", "pack"}

Ended(j) == status[j] \in Terminal \cup {"deleted"}
Claiming(t) == thread[t].at \in ClaimPoints
Finishing(t) == thread[t].at \in LatePoints

\* The jobs of intake slots are early, those of resumed runs are late, and no
\* two slots have the same job, until it has ended.
ClaimsInv ==
  /\ WorkerTypeOK
  /\ \A t \in Threads : Claiming(t) => status[JobOf(t)] \in EarlyStatuses \/ Ended(JobOf(t))
  /\ \A t \in Threads : Finishing(t) => status[JobOf(t)] \in LateStatuses \/ Ended(JobOf(t))
  /\ \A t, u \in Threads : Claiming(t) /\ Claiming(u) /\ JobOf(t) = JobOf(u) /\ t # u
                             => Ended(JobOf(t))

LEMMA EndedIsFinal ==
  /\ \A j \in Jobs : Ended(j) => ~Live(j) /\ status[j] \notin {"none", "pending"}
  /\ \A j \in Jobs : Ended(j) => status[j] \notin EarlyStatuses \cup LateStatuses
  /\ \A j \in Jobs : status[j] \in EarlyStatuses \cup LateStatuses => Live(j)
  /\ EarlyStatuses \cap LateStatuses = {}
BY DEF Ended, Live, Statuses, CpuStages, Terminal, EarlyStatuses, LateStatuses

LEMMA PointClasses ==
  /\ ClaimPoints \cap LatePoints = {}
  /\ (ClaimPoints \cup LatePoints) \cap {"idle", "recheck", "fail", "release"} = {}
  /\ Running \subseteq ClaimPoints \cup LatePoints
  /\ DOMAIN Plan \subseteq Running
BY PlanPoints DEF ClaimPoints, LatePoints, Early, Running

\* What a step may do to the statuses and to the threads: a job keeps its
\* status, ends, or stays among the early or the late ones, unless nobody
\* runs it; a thread keeps its job and its class, lets go of it, or resumes a
\* late job.
JobsKept ==
  \A j \in Jobs :
    \/ status'[j] = status[j]
    \/ Ended(j)'
    \/ status[j] \in LateStatuses /\ status'[j] \in LateStatuses
    \/ status[j] \in EarlyStatuses /\ status'[j] \in EarlyStatuses
    \/ \A u \in Threads : thread'[u].job = j => ~Claiming(u)' /\ ~Finishing(u)'
EndsKept == \A j \in Jobs : Ended(j) => Ended(j)'
ClaimsKept ==
  \A u \in Threads : Claiming(u)' => Claiming(u) /\ thread'[u].job = thread[u].job
RunsKept ==
  \A u \in Threads : Finishing(u)' =>
    \/ Finishing(u) /\ thread'[u].job = thread[u].job
    \/ status'[thread'[u].job] \in LateStatuses

LEMMA ClaimsFrame ==
  ASSUME ClaimsInv, WorkerTypeOK', JobsKept, EndsKept, ClaimsKept, RunsKept
  PROVE  ClaimsInv'
<1>1. \A t \in Threads : Claiming(t) \/ Finishing(t) => JobOf(t) \in Jobs
  BY PointClasses DEF ClaimsInv, WorkerTypeOK, Claiming, Finishing, At
<1>2. ASSUME NEW t \in Threads, Claiming(t)'
      PROVE  status'[thread'[t].job] \in EarlyStatuses \/ Ended(JobOf(t))'
  <2>1. Claiming(t) /\ thread'[t].job = thread[t].job /\ thread[t].job \in Jobs
    BY <1>1, <1>2 DEF ClaimsKept, JobOf
  <2>2. status[thread[t].job] \in EarlyStatuses \/ Ended(thread[t].job)
    BY <2>1 DEF ClaimsInv, JobOf
  <2> QED BY <1>2, <2>1, <2>2, EndedIsFinal DEF JobsKept, EndsKept, JobOf, Ended
<1>3. ASSUME NEW t \in Threads, Finishing(t)'
      PROVE  status'[thread'[t].job] \in LateStatuses \/ Ended(JobOf(t))'
  <2>1. CASE Finishing(t) /\ thread'[t].job = thread[t].job
    <3>1. thread[t].job \in Jobs
      BY <1>1, <2>1 DEF JobOf
    <3>2. status[thread[t].job] \in LateStatuses \/ Ended(thread[t].job)
      BY <2>1 DEF ClaimsInv, JobOf
    <3> QED BY <1>3, <2>1, <3>1, <3>2, EndedIsFinal DEF JobsKept, EndsKept, JobOf, Ended
  <2> QED BY <1>3, <2>1 DEF RunsKept
<1>4. ASSUME NEW t \in Threads, NEW u \in Threads, t # u, Claiming(t)', Claiming(u)',
             thread'[t].job = thread'[u].job
      PROVE  Ended(JobOf(t))'
  <2>1. /\ Claiming(t) /\ thread'[t].job = thread[t].job /\ thread[t].job \in Jobs
        /\ Claiming(u) /\ thread'[u].job = thread[u].job
    BY <1>1, <1>4 DEF ClaimsKept, JobOf
  <2>2. Ended(thread[t].job)
    BY <1>4, <2>1 DEF ClaimsInv, JobOf
  <2> QED BY <2>1, <2>2 DEF EndsKept, JobOf, Ended
<1> QED BY <1>2, <1>3, <1>4 DEF ClaimsInv, JobOf

\* A transition of a job to an end, or to a status of its class.
LEMMA TransitionEnds ==
  ASSUME WorkerTypeOK, NEW j \in Jobs, NEW s \in Statuses, NEW p, Transition(j, s, p)
  PROVE  /\ EndsKept
         /\ \A k \in Jobs : status'[k] = status[k] \/ (k = j /\ Live(j) /\ status'[j] = s)
<1>1. \A k \in Jobs : status'[k] = status[k] \/ (k = j /\ Live(j) /\ status'[j] = s)
  BY DEF Transition, Apply, WorkerTypeOK, JobTableTypeOK
<1> QED BY <1>1, EndedIsFinal DEF EndsKept, Ended

\* The plan of an early or late point stays in its class, or ends the run.
LEMMA PlanClasses ==
  /\ \A x \in DOMAIN Plan \cap ClaimPoints :
       \/ Plan[x].status \in EarlyStatuses /\ Plan[x].next \in ClaimPoints
       \/ Plan[x].status \in LateStatuses /\ Plan[x].next = "release"
  /\ \A x \in DOMAIN Plan \cap LatePoints :
       \/ Plan[x].status \in LateStatuses /\ Plan[x].next \in LatePoints
       \/ Plan[x].status \in Terminal /\ Plan[x].next = "release"
  /\ \A x \in DOMAIN Plan : Plan[x].status \in Statuses
<1>1. \A x \in DOMAIN Plan \cap ClaimPoints :
        \/ Plan[x].status \in EarlyStatuses /\ Plan[x].next \in ClaimPoints
        \/ Plan[x].status \in LateStatuses /\ Plan[x].next = "release"
  BY PlanPoints DEF Plan, Step, ClaimPoints, Early, EarlyStatuses, LateStatuses
<1>2. \A x \in DOMAIN Plan \cap LatePoints :
        \/ Plan[x].status \in LateStatuses /\ Plan[x].next \in LatePoints
        \/ Plan[x].status \in Terminal /\ Plan[x].next = "release"
  BY PlanPoints DEF Plan, Step, LatePoints, LateStatuses, Terminal
<1>3. \A x \in DOMAIN Plan : Plan[x].status \in Statuses
  BY <1>1, <1>2, PointClasses
  DEF EarlyStatuses, LateStatuses, Statuses, CpuStages, Terminal
<1> QED BY <1>1, <1>2, <1>3

LEMMA ClaimsStep ==
  ASSUME ClaimsInv, [WorkerNext]_workerVars
  PROVE  ClaimsInv'
<1> USE PointClasses, EndedIsFinal
<1>0. /\ WorkerTypeOK /\ WorkerTypeOK'
      /\ thread \in [Threads -> ThreadState]
      /\ status \in [Jobs -> RowStates]
      /\ \A t \in Threads : ~At(t, "idle") => JobOf(t) \in Jobs
  BY TypeStep DEF ClaimsInv, WorkerTypeOK, JobTableTypeOK
<1>1. {"pending", "converting", "separating", "failed"} \subseteq Statuses
  BY DEF Statuses, CpuStages, Terminal
<1>frame. ASSUME JobsKept, EndsKept, ClaimsKept, RunsKept
          PROVE  ClaimsInv'
  BY <1>0, <1>frame, ClaimsFrame
<1>jobs. UNCHANGED status => JobsKept /\ EndsKept
  BY DEF JobsKept, EndsKept, Ended
<1>threads. UNCHANGED thread => ClaimsKept /\ RunsKept
  BY DEF ClaimsKept, RunsKept, Claiming, Finishing
<1>fails. ASSUME NEW j \in Jobs, NEW p, Transition(j, "failed", p)
          PROVE  JobsKept /\ EndsKept
  <2>1. EndsKept /\ \A k \in Jobs : status'[k] = status[k] \/ status'[k] = "failed"
    BY <1>0, <1>1, <1>fails, TransitionEnds
  <2> QED BY <2>1 DEF JobsKept, Ended, Terminal
<1>goto. ASSUME NEW t \in Threads, NEW x, Goto(t, x),
                \/ x \notin ClaimPoints \cup LatePoints
                \/ x \in ClaimPoints /\ Claiming(t)
                \/ x \in LatePoints /\ Finishing(t)
         PROVE  ClaimsKept /\ RunsKept
  BY <1>0, <1>goto DEF Goto, ThreadState, ClaimsKept, RunsKept, Claiming, Finishing
<1>return. ASSUME NEW t \in Threads, Return(t)
           PROVE  ClaimsKept /\ RunsKept
  BY <1>0, <1>return DEF Return, Nobody, ClaimsKept, RunsKept, Claiming, Finishing
\* Intake
<1>2. ASSUME NEW t \in Threads, NEW j \in Jobs, Claim(t, j)
      PROVE  ClaimsInv'
  <2>1. /\ status[j] = "pending" /\ status' = [status EXCEPT ![j] = "converting"]
        /\ thread' = [thread EXCEPT ![t] = [at |-> "claimed", job |-> j]]
    BY <1>2 DEF Claim, ClaimRow, Apply
  <2>2. \A u \in Threads : Claiming(u) \/ Finishing(u) => JobOf(u) # j /\ JobOf(u) \in Jobs
    BY <1>0, <2>1 DEF ClaimsInv, Ended, Terminal, EarlyStatuses, LateStatuses, Claiming,
                      Finishing, At
  <2>3. "claimed" \in ClaimPoints /\ "claimed" \notin LatePoints /\ "converting" \in EarlyStatuses
    BY DEF ClaimPoints, EarlyStatuses
  <2>4. \A u \in Threads \ {t} : thread'[u] = thread[u]
    BY <1>0, <2>1
  <2>5. thread'[t] = [at |-> "claimed", job |-> j] /\ status'[j] = "converting"
    BY <1>0, <2>1
  <2>6. \A k \in Jobs \ {j} : status'[k] = status[k]
    BY <1>0, <2>1
  <2> QED BY <1>0, <2>2, <2>3, <2>4, <2>5, <2>6 DEF ClaimsInv, Ended, Claiming, Finishing, JobOf
<1>3. ASSUME NEW t \in Threads, LockClaimed(t)
      PROVE  ClaimsInv'
  <2>1. {"claimed", "convert", "requeue"} \subseteq ClaimPoints
    BY DEF ClaimPoints, Early
  <2>2. Claiming(t) /\ UNCHANGED status
    BY <1>3, <2>1 DEF LockClaimed, At, Claiming
  <2>3. ClaimsKept /\ RunsKept
    BY <1>3, <1>goto, <2>1, <2>2 DEF LockClaimed
  <2> QED BY <1>frame, <1>jobs, <2>2, <2>3
<1>4. ASSUME NEW t \in Threads, IntakeCutShort(t) \/ Unlock(t)
      PROVE  ClaimsInv'
  BY <1>4, <1>frame, <1>jobs, <1>return DEF IntakeCutShort, Unlock
\* A thread that puts its job back lets go of it.
<1>5. ASSUME NEW t \in Threads, Transition(JobOf(t), "pending", 0), Claiming(t),
             Return(t) \/ Goto(t, "release")
      PROVE  ClaimsInv'
  <2> DEFINE j == thread[t].job
  <2>0. j \in Jobs /\ j = JobOf(t)
    BY <1>0, <1>5 DEF At, JobOf, Claiming
  <2>1. /\ EndsKept
        /\ \A k \in Jobs : status'[k] = status[k] \/ (k = j /\ Live(j) /\ status'[j] = "pending")
    BY <1>0, <1>1, <1>5, <2>0, TransitionEnds
  <2>2. ClaimsKept /\ RunsKept
    BY <1>5, <1>goto, <1>return
  <2>3. ~Claiming(t)' /\ ~Finishing(t)'
    BY <1>0, <1>5 DEF Return, Goto, Nobody, ThreadState, Claiming, Finishing
  <2>4. ASSUME Live(j), NEW u \in Threads \ {t}, thread'[u].job = j
        PROVE  ~Claiming(u)' /\ ~Finishing(u)'
    <3>1. thread'[u] = thread[u]
      BY <1>0, <1>5 DEF Return, Goto
    <3>2. status[j] \in EarlyStatuses /\ ~Ended(j)
      BY <1>5, <2>0, <2>4 DEF ClaimsInv
    <3> QED BY <1>5, <2>0, <2>4, <3>1, <3>2 DEF ClaimsInv, Claiming, Finishing, JobOf
  <2>5. JobsKept
    BY <2>0, <2>1, <2>3, <2>4 DEF JobsKept
  <2> QED BY <1>frame, <2>1, <2>2, <2>5
<1>6. ASSUME NEW t \in Threads, Requeue(t) \/ PutBack(t)
      PROVE  ClaimsInv'
  <2>1. Claiming(t)
    BY <1>6 DEF Requeue, PutBack, At, Claiming, ClaimPoints
  <2> QED BY <1>5, <1>6, <2>1 DEF Requeue, PutBack
\* Resume loop
<1>7. ASSUME NEW w \in Workers, NEW j \in Jobs, LockCandidate(w, j)
      PROVE  ClaimsInv'
  <2>1. ClaimsKept /\ RunsKept
    <3>1. CASE UNCHANGED thread
      BY <1>threads, <3>1
    <3>2. CASE thread' = [thread EXCEPT ![<<w, Resumer>>] = [at |-> "recheck", job |-> j]]
      BY <1>0, <3>2 DEF ClaimsKept, RunsKept, Claiming, Finishing
    <3> QED BY <1>7, <3>1, <3>2 DEF LockCandidate
  <2> QED BY <1>7, <1>frame, <1>jobs, <2>1 DEF LockCandidate
<1>8. ASSUME NEW t \in Threads, Recheck(t)
      PROVE  ClaimsInv'
  <2>0. JobOf(t) \in Jobs /\ UNCHANGED status
    BY <1>0, <1>8 DEF Recheck, At
  <2>1. CASE Goto(t, "release")
    BY <1>frame, <1>goto, <1>jobs, <2>0, <2>1
  <2>2. CASE Resumable(JobOf(t)) /\ Goto(t, Entry(status[JobOf(t)]))
    <3>1. Entry(status[JobOf(t)]) \in LatePoints
      BY <2>0, <2>2, EntryPoints DEF LatePoints
    <3>2. status[JobOf(t)] \in LateStatuses
      BY <2>2 DEF Resumable, LateStatuses
    <3>3. ClaimsKept /\ RunsKept
      BY <1>0, <2>0, <2>2, <3>1, <3>2
      DEF Goto, ThreadState, JobOf, ClaimsKept, RunsKept, Claiming, Finishing
    <3> QED BY <1>frame, <1>jobs, <2>0, <3>3
  <2> QED BY <1>8, <2>1, <2>2 DEF Recheck
\* A run under the lock
<1>9. ASSUME NEW t \in Threads, Advance(t)
      PROVE  ClaimsInv'
  <2> DEFINE x == thread[t].at
             j == thread[t].job
             s == Plan[x].status
  <2>0. /\ x \in DOMAIN Plan /\ j \in Jobs /\ j = JobOf(t)
        /\ Transition(j, s, Plan[x].progress)
        /\ Goto(t, IF Live(j) THEN Plan[x].next ELSE "release")
    BY <1>0, <1>9, PlanPoints DEF Advance, At, JobOf
  <2>1. s \in Statuses
    BY <2>0, PlanClasses
  <2>2. /\ EndsKept
        /\ \A k \in Jobs : status'[k] = status[k] \/ (k = j /\ Live(j) /\ status'[j] = s)
    <3> HIDE DEF j, s
    <3> QED BY <1>0, <2>0, <2>1, TransitionEnds
  <2>3. CASE ~Live(j)
    <3>1. Goto(t, "release")
      BY <2>0, <2>3
    <3>2. JobsKept
      BY <2>2, <2>3 DEF JobsKept
    <3> QED BY <1>frame, <1>goto, <2>2, <3>1, <3>2
  <2>4. CASE Live(j) /\ x \in ClaimPoints
    <3>1. Claiming(t) /\ status[j] \in EarlyStatuses /\ ~Ended(j)
      BY <2>0, <2>4 DEF ClaimsInv, Claiming
    <3>2. CASE s \in EarlyStatuses /\ Plan[x].next \in ClaimPoints
      <4>1. JobsKept
        BY <2>2, <3>1, <3>2 DEF JobsKept
      <4>2. Goto(t, Plan[x].next)
        BY <2>0, <2>4
      <4> QED BY <1>frame, <1>goto, <2>2, <3>1, <3>2, <4>1, <4>2
    <3>3. CASE Plan[x].next = "release"
      <4>1. Goto(t, "release")
        BY <2>0, <2>4, <3>3
      <4>2. ASSUME NEW u \in Threads, thread'[u].job = j
            PROVE  ~Claiming(u)' /\ ~Finishing(u)'
        <5>1. CASE u = t
          BY <1>0, <4>1, <5>1 DEF Goto, ThreadState, Claiming, Finishing
        <5>2. CASE u # t
          <6>1. thread'[u] = thread[u]
            BY <1>0, <4>1, <5>2 DEF Goto
          <6> QED BY <2>0, <3>1, <4>2, <5>2, <6>1 DEF ClaimsInv, Claiming, Finishing, JobOf
        <5> QED BY <5>1, <5>2
      <4>3. JobsKept
        BY <2>2, <4>2 DEF JobsKept
      <4> QED BY <1>frame, <1>goto, <2>2, <4>1, <4>3
    <3> QED BY <2>0, <2>4, <3>2, <3>3, PlanClasses
  <2>5. CASE Live(j) /\ x \in LatePoints
    <3>1. Finishing(t) /\ status[j] \in LateStatuses /\ ~Ended(j)
      BY <2>0, <2>5 DEF ClaimsInv, Finishing
    <3>2. \/ s \in LateStatuses /\ Plan[x].next \in LatePoints
          \/ s \in Terminal /\ Plan[x].next = "release"
      BY <2>0, <2>5, PlanClasses
    <3>3. JobsKept
      BY <2>2, <3>1, <3>2 DEF JobsKept, Ended
    <3>4. Goto(t, Plan[x].next)
      BY <2>0, <2>5
    <3> QED BY <1>frame, <1>goto, <2>2, <3>1, <3>2, <3>3, <3>4
  <2> QED BY <2>0, <2>3, <2>4, <2>5
<1>10. ASSUME NEW t \in Threads, EnterFinalize(t)
       PROVE  ClaimsInv'
  <2>1. Finishing(t) /\ {"stems", "refinalize"} \subseteq LatePoints
    BY <1>10 DEF EnterFinalize, At, Finishing, LatePoints
  <2> QED BY <1>10, <1>frame, <1>goto, <1>jobs, <2>1 DEF EnterFinalize
<1>11. ASSUME NEW t \in Threads, DemucsProgress(t)
       PROVE  ClaimsInv'
  <2>0. JobOf(t) \in Jobs /\ Finishing(t)
    BY <1>0, <1>11 DEF DemucsProgress, At, Finishing, LatePoints
  <2>1. /\ EndsKept
        /\ \A k \in Jobs : \/ status'[k] = status[k]
                           \/ k = JobOf(t) /\ Live(k) /\ status'[k] = "separating"
    BY <1>0, <1>1, <1>11, <2>0, TransitionEnds DEF DemucsProgress
  <2>2. JobsKept
    <3>1. Live(JobOf(t)) => status[JobOf(t)] \in LateStatuses
      BY <2>0 DEF ClaimsInv
    <3>2. "separating" \in LateStatuses
      BY DEF LateStatuses
    <3> QED BY <2>0, <2>1, <3>1, <3>2 DEF JobsKept
  <2> QED BY <1>11, <1>frame, <1>threads, <2>1, <2>2 DEF DemucsProgress
<1>12. ASSUME NEW t \in Threads, StageFails(t) \/ WatchCancel(t)
       PROVE  ClaimsInv'
  BY <1>12, <1>frame, <1>goto, <1>jobs DEF StageFails, WatchCancel
<1>13. ASSUME NEW t \in Threads, Interrupted(t)
       PROVE  ClaimsInv'
  <2>0. (Claiming(t) \/ Finishing(t)) /\ JobOf(t) \in Jobs /\ UNCHANGED status
    BY <1>0, <1>13 DEF Interrupted, Drives, At, Claiming, Finishing
  <2>1. CASE Goto(t, "release")
    BY <1>frame, <1>goto, <1>jobs, <2>0, <2>1
  <2>2. CASE Goto(t, "putBack") /\ status[JobOf(t)] \in EarlyStatuses
    <3>1. Claiming(t) /\ "putBack" \in ClaimPoints
      BY <2>0, <2>2 DEF ClaimsInv, ClaimPoints
    <3> QED BY <1>frame, <1>goto, <1>jobs, <2>0, <2>2, <3>1
  <2> QED BY <1>13, <2>1, <2>2 DEF Interrupted, EarlyStatuses
<1>14. ASSUME NEW t \in Threads, MarkFailed(t)
       PROVE  ClaimsInv'
  <2>1. JobOf(t) \in Jobs
    BY <1>0, <1>14 DEF MarkFailed, At
  <2> QED BY <1>14, <1>fails, <1>frame, <1>goto, <2>1 DEF MarkFailed
<1>15. ASSUME NEW w \in Workers, NEW j \in Jobs, FailStale(w, j)
       PROVE  ClaimsInv'
  BY <1>15, <1>fails, <1>frame, <1>threads DEF FailStale
<1>16. ASSUME NEW w \in Workers, Crash(w)
       PROVE  ClaimsInv'
  <2>1. ClaimsKept /\ RunsKept
    BY <1>16 DEF Crash, Nobody, ClaimsKept, RunsKept, Claiming, Finishing
  <2> QED BY <1>16, <1>frame, <1>jobs, <2>1 DEF Crash
<1>17. ASSUME NEW t \in Threads, DbError(t)
       PROVE  ClaimsInv'
  BY <1>17, <1>frame, <1>goto, <1>return, <1>jobs DEF DbError
\* Environment
<1>18. ASSUME NEW j \in Jobs, Create(j) \/ Cancel(j) \/ Delete(j) \/ GpuEnds(j) \/ GpuLate(j)
       PROVE  ClaimsInv'
  <2>1. UNCHANGED thread
    BY <1>18 DEF Create, Cancel, Delete, GpuEnds, GpuLate, OthersIdle
  <2>2. /\ \A k \in Jobs \ {j} : status'[k] = status[k]
        /\ \/ status[j] = "none"
           \/ status'[j] \in {"cancelled", "failed"} /\ Live(j)
           \/ status'[j] = "deleted"
           \/ status[j] \in LateStatuses /\ status'[j] \in LateStatuses
    BY <1>0, <1>18
    DEF Create, CreateRow, Cancel, CancelRow, Delete, DeleteRow, GpuEnds, GpuLate, Apply,
        LateStatuses, Live, Statuses, CpuStages, Terminal
  <2>3. EndsKept
    BY <2>2 DEF EndsKept, Ended, Terminal
  <2>4. ASSUME status[j] = "none", NEW u \in Threads, thread'[u].job = j
        PROVE  ~Claiming(u)' /\ ~Finishing(u)'
    BY <2>1, <2>4 DEF ClaimsInv, Claiming, Finishing, JobOf, Ended, Terminal, EarlyStatuses, LateStatuses
  <2>5. JobsKept
    BY <2>2, <2>4 DEF JobsKept, Ended, Terminal
  <2> QED BY <1>frame, <1>threads, <2>1, <2>3, <2>5
<1>19. CASE UNCHANGED <<status, thread>>
  BY <1>19, <1>frame, <1>jobs, <1>threads
<1>20. /\ \A w \in Workers : ListResumable(w) \/ ListStale(w) \/ Supervise(w) \/ Stop(w)
                               => UNCHANGED <<status, thread>>
       /\ \A k \in Keys : LoseSession(k) => UNCHANGED <<status, thread>>
       /\ \A j \in Jobs : GoesQuiet(j) => UNCHANGED <<status, thread>>
  BY DEF ListResumable, ListStale, Supervise, Exit, Restart, Stop, LoseSession, GoesQuiet
<1>21. WorkerNext => ClaimsInv'
  BY <1>2, <1>3, <1>4, <1>6, <1>7, <1>8, <1>9, <1>10, <1>11, <1>12, <1>13, <1>14, <1>15, <1>16,
     <1>17, <1>18, <1>19, <1>20
  DEF WorkerNext, ThreadStep, Intake, ResumeLoop, StaleSweep
<1> QED BY <1>19, <1>21

LEMMA ClaimsInit == WorkerInit => ClaimsInv
BY TypeInit, PointClasses DEF WorkerInit, ClaimsInv, Claiming, Finishing, Nobody

\* The statuses of claimed and resumed jobs, and that no two slots have one job.
THEOREM ClaimsExclusive == WorkerSpec => []ClaimsInv
<1>1. ClaimsInv /\ [WorkerNext]_workerVars => ClaimsInv'
  BY ClaimsStep
<1> QED BY <1>1, ClaimsInit, PTL DEF WorkerSpec

\* From its claim to the hand-off an intake slot has its job to itself,
\* through every fault, even a lost lock session.
THEOREM IntakeExclusive == WorkerSpec => []IntakeOwnsItsJob
<1>1. ClaimsInv => IntakeOwnsItsJob
  <2> SUFFICES ASSUME ClaimsInv, NEW t \in Threads,
                      thread[t].at \in Early \cup {"claimed", "requeue", "putBack"}
               PROVE  status[JobOf(t)] \in {"converting", "analyzing"} \/ ~Live(JobOf(t))
    BY DEF IntakeOwnsItsJob
  <2>1. Claiming(t)
    BY DEF Claiming, ClaimPoints
  <2> QED BY <2>1 DEF ClaimsInv, EarlyStatuses, Ended, Live, Statuses, CpuStages, Terminal
<1> QED BY <1>1, ClaimsExclusive, PTL

-----------------------------------------------------------------------------
(* Stages in order, as long as no lock session breaks and no lease call is late *)

StageOf == [claimed    |-> {"converting"}, requeue   |-> {"converting"},
            convert    |-> {"converting"}, converted |-> {"converting"},
            analyze    |-> {"analyzing"},  analyzed  |-> {"analyzing"},
            putBack    |-> EarlyStatuses,  separate  |-> {"separating"},
            finalize   |-> {"finalizing"}, refinalize |-> {},
            stems      |-> {"finalizing"}, finalized |-> {"finalizing", "packaging"},
            pack       |-> {"packaging"}]

\* A job is in the stage its thread is at, until it has ended.
AtStage ==
  /\ \A t \in Threads : thread[t].at \in DOMAIN StageOf =>
       status[JobOf(t)] \in StageOf[thread[t].at] \/ Ended(JobOf(t))
  /\ \A t \in Threads : At(t, "separate") => LocalDemucs

OrderInv == ClaimsInv /\ HoldsLock /\ AtStage

LEMMA StagePoints ==
  DOMAIN StageOf = ClaimPoints \cup LatePoints
BY DEF StageOf, ClaimPoints, LatePoints, Early

LEMMA PlanFollows ==
  \A x \in DOMAIN Plan :
    /\ \A s \in StageOf[x] : Plan[x].status = s \/ Plan[x].status \in NextStages(s)
    /\ \/ Plan[x].next = "release"
       \/ Plan[x].next \in DOMAIN StageOf /\ Plan[x].status \in StageOf[Plan[x].next]
    /\ Plan[x].next # "separate"
<1>1. \A x \in DOMAIN Plan : \/ Plan[x].next = "release"
                             \/ /\ Plan[x].next \in DOMAIN StageOf
                                /\ Plan[x].status \in StageOf[Plan[x].next]
  BY PlanPoints DEF Plan, Step, StageOf
<1>2. \A x \in DOMAIN Plan :
        \A s \in StageOf[x] : Plan[x].status = s \/ Plan[x].status \in NextStages(s)
  BY PlanPoints DEF Plan, Step, StageOf, NextStages, Following
<1>3. \A x \in DOMAIN Plan : Plan[x].next # "separate"
  BY PlanPoints DEF Plan, Step
<1> QED BY <1>1, <1>2, <1>3

\* Two threads at stages of one job: the job has ended.
LEMMA Alone ==
  ASSUME ClaimsInv, HoldsLock, NEW t \in Threads, NEW u \in Threads, t # u,
         Claiming(t) \/ Finishing(t), Claiming(u) \/ Finishing(u), JobOf(t) = JobOf(u)
  PROVE  Ended(JobOf(t))
<1>1. JobOf(t) \in Jobs
  BY PointClasses DEF ClaimsInv, WorkerTypeOK, Claiming, Finishing, At
<1>2. CASE Claiming(t) /\ Claiming(u)
  BY <1>2 DEF ClaimsInv
<1>3. CASE Finishing(t) /\ Finishing(u)
  <2>1. LatePoints \subseteq Locked
    BY LockedPoints DEF LatePoints
  <2> QED BY <1>3, <2>1 DEF HoldsLock, Finishing
<1>4. CASE Claiming(t) /\ Finishing(u)
  BY <1>1, <1>4, EndedIsFinal DEF ClaimsInv
<1>5. CASE Finishing(t) /\ Claiming(u)
  BY <1>1, <1>5, EndedIsFinal DEF ClaimsInv
<1>6. (Claiming(t) \/ Finishing(t)) /\ (Claiming(u) \/ Finishing(u))
  OBVIOUS
<1> QED BY <1>2, <1>3, <1>4, <1>5, <1>6 DEF Claiming, Finishing

LEMMA StageFrame ==
  ASSUME OrderInv, EndsKept,
         \A u \in Threads : thread'[u].at \in DOMAIN StageOf =>
           \/ thread'[u] = thread[u] /\ status'[thread[u].job] = status[thread[u].job]
           \/ Ended(JobOf(u))'
           \/ status'[thread'[u].job] \in StageOf[thread'[u].at],
         \A u \in Threads : thread'[u].at = "separate" => thread[u].at = "separate" \/ LocalDemucs
  PROVE  AtStage'
<1>1. \A u \in Threads : thread'[u].at \in DOMAIN StageOf =>
        status'[thread'[u].job] \in StageOf[thread'[u].at] \/ Ended(JobOf(u))'
  BY DEF OrderInv, AtStage, JobOf, Ended
<1>2. \A u \in Threads : thread'[u].at = "separate" => LocalDemucs
  BY DEF OrderInv, AtStage, At
<1> QED BY <1>1, <1>2 DEF AtStage, JobOf, At

\* Thread t alone moves, to a point x, and may write its job.
LEMMA StageMove ==
  ASSUME OrderInv, NEW t \in Threads, NEW s \in Statuses, NEW p, NEW x,
         Claiming(t) \/ Finishing(t),
         Transition(JobOf(t), s, p) \/ UNCHANGED jobVars,
         thread'[t].at = x, x \in DOMAIN StageOf => thread'[t].job = thread[t].job,
         \A u \in Threads \ {t} : thread'[u] = thread[u],
         x \in DOMAIN StageOf => Ended(JobOf(t)) \/ status'[JobOf(t)] \in StageOf[x],
         x = "separate" => LocalDemucs
  PROVE  AtStage'
<1> DEFINE j == JobOf(t)
<1>0. WorkerTypeOK /\ ClaimsInv /\ HoldsLock /\ j \in Jobs
  BY PointClasses DEF OrderInv, ClaimsInv, WorkerTypeOK, Claiming, Finishing, At
<1>1. /\ EndsKept
      /\ \A k \in Jobs : status'[k] = status[k] \/ (k = j /\ Live(j))
  <2>1. CASE UNCHANGED jobVars
    BY <2>1 DEF EndsKept, Ended
  <2>2. CASE Transition(j, s, p)
    <3> HIDE DEF j
    <3> QED BY <1>0, <2>2, TransitionEnds
  <2> QED BY <2>1, <2>2
<1>2. ASSUME NEW u \in Threads, thread'[u].at \in DOMAIN StageOf
      PROVE  \/ thread'[u] = thread[u] /\ status'[thread[u].job] = status[thread[u].job]
             \/ Ended(JobOf(u))'
             \/ status'[thread'[u].job] \in StageOf[thread'[u].at]
  <2>1. CASE u = t
    BY <1>0, <1>1, <1>2, <2>1 DEF JobOf, EndsKept, Ended
  <2>2. CASE u # t
    <3>1. thread'[u] = thread[u] /\ (Claiming(u) \/ Finishing(u)) /\ JobOf(u) \in Jobs
      BY <1>0, <1>2, <2>2, StagePoints, PointClasses
      DEF Claiming, Finishing, WorkerTypeOK, At
    <3>2. JobOf(u) = j => Ended(j)
      BY <1>0, <2>2, <3>1, Alone
    <3>3. Ended(j) => ~Live(j)
      BY <1>0, EndedIsFinal
    <3> QED BY <1>1, <3>1, <3>2, <3>3 DEF JobOf
  <2> QED BY <2>1, <2>2
<1>3. \A u \in Threads : thread'[u].at = "separate" => thread[u].at = "separate" \/ LocalDemucs
  OBVIOUS
<1> QED BY <1>1, <1>2, <1>3, StageFrame

\* What StagesInOrder says of a step.
Ordered ==
  \A j \in Jobs : status'[j] # status[j] => \/ status'[j] \in NextStages(status[j])
                                            \/ Live(j) /\ status'[j] \in {"failed", "cancelled"}
                                            \/ status'[j] = "deleted"

LEMMA TransitionOrdered ==
  ASSUME WorkerTypeOK, NEW j \in Jobs, NEW s \in Statuses, NEW p, Transition(j, s, p),
         \/ Live(j) => s = status[j] \/ s \in NextStages(status[j])
         \/ s \in {"failed", "cancelled"}
  PROVE  Ordered
BY TransitionEnds DEF Ordered

LEMMA OrderStep ==
  ASSUME "late" \notin FaultKinds, OrderInv, WorkerNext
  PROVE  AtStage' /\ Ordered
<1> DEFINE Good == AtStage' /\ Ordered
<1>s. SUFFICES Good
  OBVIOUS
<1> USE PointClasses, EndedIsFinal
<1>0. /\ WorkerTypeOK /\ ClaimsInv /\ HoldsLock /\ AtStage
      /\ thread \in [Threads -> ThreadState]
      /\ status \in [Jobs -> RowStates]
      /\ \A t \in Threads : ~At(t, "idle") => JobOf(t) \in Jobs
  BY DEF OrderInv, ClaimsInv, WorkerTypeOK, JobTableTypeOK
<1>1. {"pending", "converting", "separating", "failed"} \subseteq Statuses
  BY DEF Statuses, CpuStages, Terminal
<1>2. /\ {"claimed", "requeue", "convert", "putBack", "separate", "finalize", "refinalize",
          "stems"} \subseteq DOMAIN StageOf
      /\ {"idle", "release", "fail", "recheck"} \cap DOMAIN StageOf = {}
  BY DEF StageOf
<1>same. UNCHANGED status => EndsKept /\ Ordered
  BY DEF EndsKept, Ended, Ordered
\* Threads keep their points or leave the stages; jobs keep their status or end.
<1>frame. ASSUME EndsKept, Ordered,
                 \A u \in Threads : thread'[u].at \in DOMAIN StageOf =>
                   /\ thread'[u] = thread[u]
                   /\ status'[thread[u].job] = status[thread[u].job] \/ Ended(JobOf(u))'
          PROVE  Good
  <2>1. \A u \in Threads : thread'[u].at = "separate" => thread[u].at = "separate" \/ LocalDemucs
    BY <1>2, <1>frame
  <2> QED BY <1>frame, <2>1, StageFrame
<1>leave. ASSUME NEW t \in Threads, UNCHANGED status,
                 \/ Return(t)
                 \/ \E x \in {"fail", "release"} : Goto(t, x)
                 \/ \E j \in Jobs : thread' = [thread EXCEPT ![t] = [at |-> "recheck", job |-> j]]
          PROVE  Good
  <2>1. \A u \in Threads : thread'[u].at \in DOMAIN StageOf => thread'[u] = thread[u]
    BY <1>0, <1>2, <1>leave DEF Return, Goto, Nobody, ThreadState
  <2> QED BY <1>frame, <1>leave, <1>same, <2>1
<1>ends. ASSUME NEW j \in Jobs, NEW p, Transition(j, "failed", p),
                \A u \in Threads : thread'[u].at \in DOMAIN StageOf => thread'[u] = thread[u]
         PROVE  Good
  <2>1. Ordered
    BY <1>0, <1>1, <1>ends, TransitionOrdered
  <2>2. EndsKept /\ \A k \in Jobs : status'[k] = status[k] \/ status'[k] = "failed"
    BY <1>0, <1>1, <1>ends, TransitionEnds
  <2>3. ASSUME NEW u \in Threads, thread'[u].at \in DOMAIN StageOf
        PROVE  /\ thread'[u] = thread[u]
               /\ status'[thread[u].job] = status[thread[u].job] \/ Ended(JobOf(u))'
    <3>1. thread'[u] = thread[u] /\ JobOf(u) \in Jobs
      BY <1>0, <1>2, <1>ends, <2>3 DEF At
    <3> QED BY <2>2, <3>1 DEF JobOf, Ended, Terminal
  <2> QED BY <1>frame, <2>1, <2>2, <2>3
\* A thread at a stage moves on.
<1>goto. ASSUME NEW t \in Threads, NEW x, Goto(t, x)
         PROVE  /\ thread'[t].at = x /\ thread'[t].job = thread[t].job
                /\ \A u \in Threads \ {t} : thread'[u] = thread[u]
  BY <1>0, <1>goto DEF Goto, ThreadState
<1>moves. ASSUME NEW t \in Threads, NEW x \in DOMAIN StageOf, Goto(t, x), UNCHANGED jobVars,
                 Claiming(t) \/ Finishing(t), x # "separate",
                 Ended(JobOf(t)) \/ status[JobOf(t)] \in StageOf[x]
          PROVE  Good
  <2>1. AtStage'
    BY <1>0, <1>1, <1>goto, <1>moves, StageMove
  <2> QED BY <1>moves, <1>same, <2>1
\* Intake
<1>3. ASSUME NEW t \in Threads, NEW j \in Jobs, Claim(t, j)
      PROVE  Good
  <2>1. /\ status[j] = "pending" /\ status' = [status EXCEPT ![j] = "converting"]
        /\ thread' = [thread EXCEPT ![t] = [at |-> "claimed", job |-> j]]
    BY <1>3 DEF Claim, ClaimRow, Apply
  <2>2. thread'[t] = [at |-> "claimed", job |-> j] /\ status'[j] = "converting"
    BY <1>0, <2>1
  <2>3. \A k \in Jobs \ {j} : status'[k] = status[k]
    BY <1>0, <2>1
  <2>4. \A u \in Threads : Claiming(u) \/ Finishing(u) => JobOf(u) # j /\ JobOf(u) \in Jobs
    BY <1>0, <2>1 DEF ClaimsInv, Ended, Terminal, EarlyStatuses, LateStatuses, Claiming,
                      Finishing, At
  <2>5. ASSUME NEW u \in Threads, thread'[u].at \in DOMAIN StageOf
        PROVE  \/ thread'[u] = thread[u] /\ status'[thread[u].job] = status[thread[u].job]
               \/ status'[thread'[u].job] \in StageOf[thread'[u].at]
    <3>1. CASE u = t
      BY <2>2, <3>1 DEF StageOf
    <3>2. CASE u # t
      <4>1. thread'[u] = thread[u]
        BY <1>0, <2>1, <3>2
      <4> QED BY <2>3, <2>4, <2>5, <4>1, StagePoints DEF Claiming, Finishing, JobOf
    <3> QED BY <3>1, <3>2
  <2>6. \A u \in Threads : thread'[u].at = "separate" => thread[u].at = "separate"
    BY <1>0, <2>1
  <2>7. EndsKept
    BY <2>1, <2>3 DEF EndsKept, Ended, Terminal
  <2>8. Ordered
    BY <2>1, <2>2, <2>3 DEF Ordered, NextStages, Following
  <2> QED BY <1>0, <2>5, <2>6, <2>7, <2>8, StageFrame DEF OrderInv
<1>4. ASSUME NEW t \in Threads, LockClaimed(t)
      PROVE  Good
  <2>1. At(t, "claimed") /\ Claiming(t)
    BY <1>4 DEF LockClaimed, At, Claiming, ClaimPoints
  <2>2. StageOf["claimed"] = StageOf["convert"] /\ StageOf["claimed"] = StageOf["requeue"]
    BY DEF StageOf
  <2>3. status[JobOf(t)] \in StageOf["claimed"] \/ Ended(JobOf(t))
    BY <1>0, <1>2, <2>1 DEF AtStage, At
  <2> QED BY <1>2, <1>4, <1>moves, <2>1, <2>2, <2>3 DEF LockClaimed
<1>5. ASSUME NEW t \in Threads, Requeue(t) \/ PutBack(t)
      PROVE  Good
  <2>1. /\ Claiming(t) /\ JobOf(t) \in Jobs /\ Transition(JobOf(t), "pending", 0)
        /\ \E x \in {"idle", "release"} : thread'[t].at = x
        /\ \A u \in Threads \ {t} : thread'[u] = thread[u]
    BY <1>0, <1>5, <1>goto DEF Requeue, PutBack, At, Return, Nobody, Claiming, ClaimPoints
  <2>2. AtStage'
    BY <1>1, <1>2, <2>1, StageMove
  <2>3. Live(JobOf(t)) => "pending" \in NextStages(status[JobOf(t)])
    BY <1>0, <2>1 DEF ClaimsInv, EarlyStatuses, NextStages, Following
  <2>4. Ordered
    BY <1>0, <1>1, <2>1, <2>3, TransitionOrdered
  <2> QED BY <2>2, <2>4
\* Resume loop
<1>6. ASSUME NEW w \in Workers, NEW j \in Jobs, LockCandidate(w, j)
      PROVE  Good
  <2>1. <<w, Resumer>> \in Threads
    BY ThreadNames
  <2>2. CASE UNCHANGED thread
    <3>1. UNCHANGED status
      BY <1>6 DEF LockCandidate
    <3> QED BY <1>frame, <1>same, <2>2, <3>1
  <2>3. CASE thread' = [thread EXCEPT ![<<w, Resumer>>] = [at |-> "recheck", job |-> j]]
    BY <1>6, <1>leave, <2>1, <2>3 DEF LockCandidate
  <2> QED BY <1>6, <2>2, <2>3 DEF LockCandidate
<1>7. ASSUME NEW t \in Threads, Recheck(t)
      PROVE  Good
  <2>0. UNCHANGED status
    BY <1>7 DEF Recheck
  <2>1. CASE Goto(t, "release")
    BY <1>leave, <2>0, <2>1
  <2>2. CASE Resumable(JobOf(t)) /\ Goto(t, Entry(status[JobOf(t)]))
    <3> DEFINE x == Entry(status[JobOf(t)])
    <3>1. status[JobOf(t)] \in StageOf[x] /\ (x = "separate" => LocalDemucs)
      BY <2>2 DEF Resumable, Entry, StageOf
    <3>2. thread'[t].at = x /\ thread'[t].job = JobOf(t)
      BY <1>goto, <2>2 DEF JobOf
    <3>3. \A u \in Threads : u # t => thread'[u] = thread[u]
      BY <1>goto, <2>2
    <3> HIDE DEF x
    <3>4. \A u \in Threads : \/ thread'[u] = thread[u] /\ status'[thread[u].job] = status[thread[u].job]
                             \/ status'[thread'[u].job] \in StageOf[thread'[u].at]
      BY <2>0, <3>1, <3>2, <3>3
    <3>5. \A u \in Threads : thread'[u].at = "separate" => thread[u].at = "separate" \/ LocalDemucs
      BY <3>1, <3>2, <3>3
    <3> QED BY <1>0, <1>same, <2>0, <3>4, <3>5, StageFrame DEF OrderInv
  <2> QED BY <1>7, <2>1, <2>2 DEF Recheck
\* A run under the lock
<1>8. ASSUME NEW t \in Threads, Advance(t)
      PROVE  Good
  <2> DEFINE x == thread[t].at
             j == JobOf(t)
             s == Plan[x].status
             y == IF Live(j) THEN Plan[x].next ELSE "release"
  <2>0. /\ x \in DOMAIN Plan /\ j \in Jobs
        /\ Transition(j, s, Plan[x].progress) /\ Goto(t, y)
    BY <1>0, <1>8, PlanPoints DEF Advance, At
  <2>1. /\ s \in Statuses /\ x \in DOMAIN StageOf /\ (Claiming(t) \/ Finishing(t))
    BY <2>0, PlanClasses, StagePoints DEF Claiming, Finishing
  <2>2. Live(j) => status[j] \in StageOf[x]
    BY <1>0, <2>0, <2>1 DEF AtStage
  <2>3. Ordered
    <3>1. Live(j) => s = status[j] \/ s \in NextStages(status[j])
      BY <2>0, <2>2, PlanFollows
    <3> HIDE DEF j, s
    <3> QED BY <1>0, <2>0, <2>1, <3>1, TransitionOrdered
  <2>4. Live(j) => status'[j] = s
    BY <1>0, <2>0 DEF Transition, Apply
  <2>5. y = "release" \/ (Live(j) /\ y \in DOMAIN StageOf /\ s \in StageOf[y] /\ y # "separate")
    BY <2>0, PlanFollows
  <2>6. y \in DOMAIN StageOf => Ended(j) \/ status'[j] \in StageOf[y]
    BY <1>2, <2>4, <2>5
  <2>7. /\ thread'[t].at = y /\ thread'[t].job = thread[t].job
        /\ \A u \in Threads \ {t} : thread'[u] = thread[u]
    <3> HIDE DEF y
    <3> QED BY <1>goto, <2>0
  <2>8. AtStage'
    <3>1. y # "separate"
      BY <2>5
    <3> HIDE DEF s, y
    <3> QED BY <2>0, <2>1, <2>6, <2>7, <3>1, StageMove
  <2> QED BY <2>3, <2>8
<1>9. ASSUME NEW t \in Threads, EnterFinalize(t)
      PROVE  Good
  <2>1. At(t, "finalize") /\ Finishing(t) /\ UNCHANGED jobVars
    BY <1>9 DEF EnterFinalize, At, Finishing, LatePoints
  <2>2. status[JobOf(t)] \in StageOf["finalize"] \/ Ended(JobOf(t))
    BY <1>0, <1>2, <2>1 DEF AtStage, At
  <2>3. StageOf["finalize"] = {"finalizing"} /\ StageOf["stems"] = {"finalizing"}
    BY DEF StageOf
  <2>4. \/ Goto(t, "stems") /\ status[JobOf(t)] = "finalizing"
        \/ Goto(t, "refinalize") /\ status[JobOf(t)] # "finalizing"
    BY <1>9 DEF EnterFinalize
  <2> QED BY <1>2, <1>moves, <2>1, <2>2, <2>3, <2>4
<1>10. ASSUME NEW t \in Threads, DemucsProgress(t)
       PROVE  Good
  <2>1. /\ At(t, "separate") /\ Finishing(t) /\ LocalDemucs /\ JobOf(t) \in Jobs
        /\ Transition(JobOf(t), "separating", StageProgress("separating", 50))
        /\ UNCHANGED thread
    BY <1>0, <1>10 DEF DemucsProgress, At, Finishing, LatePoints, AtStage
  <2>2. StageOf["separate"] = {"separating"}
    BY DEF StageOf
  <2>3. status[JobOf(t)] = "separating" \/ Ended(JobOf(t))
    BY <1>0, <1>2, <2>1, <2>2 DEF AtStage, At
  <2>4. Ended(JobOf(t)) \/ status'[JobOf(t)] = "separating"
    BY <1>0, <2>1, <2>3 DEF Transition, Apply
  <2>5. AtStage'
    BY <1>1, <2>1, <2>2, <2>4, StageMove DEF At
  <2>6. Ordered
    BY <1>0, <1>1, <2>1, <2>3, TransitionOrdered
  <2> QED BY <2>5, <2>6
<1>11. ASSUME NEW t \in Threads, StageFails(t) \/ WatchCancel(t)
       PROVE  Good
  BY <1>11, <1>leave DEF StageFails, WatchCancel
<1>12. ASSUME NEW t \in Threads, Interrupted(t)
       PROVE  Good
  <2>0. (Claiming(t) \/ Finishing(t)) /\ UNCHANGED jobVars
    BY <1>12 DEF Interrupted, Drives, Claiming, Finishing
  <2>1. CASE Goto(t, "release")
    BY <1>leave, <2>0, <2>1
  <2>2. CASE Goto(t, "putBack") /\ status[JobOf(t)] \in EarlyStatuses
    <3>1. StageOf["putBack"] = EarlyStatuses
      BY DEF StageOf
    <3> QED BY <1>2, <1>moves, <2>0, <2>2, <3>1
  <2> QED BY <1>12, <2>1, <2>2 DEF Interrupted, EarlyStatuses
<1>13. ASSUME NEW t \in Threads, MarkFailed(t)
       PROVE  Good
  <2>1. JobOf(t) \in Jobs
    BY <1>0, <1>13 DEF MarkFailed, At
  <2>2. \A u \in Threads : thread'[u].at \in DOMAIN StageOf => thread'[u] = thread[u]
    BY <1>2, <1>13, <1>goto DEF MarkFailed
  <2> QED BY <1>13, <1>ends, <2>1, <2>2 DEF MarkFailed
<1>14. ASSUME NEW t \in Threads, IntakeCutShort(t) \/ Unlock(t) \/ DbError(t)
       PROVE  Good
  BY <1>14, <1>leave DEF IntakeCutShort, Unlock, DbError
\* The sweep, processes and the environment
<1>15. ASSUME NEW w \in Workers, NEW j \in Jobs, FailStale(w, j)
       PROVE  Good
  BY <1>15, <1>ends DEF FailStale
<1>16. ASSUME NEW w \in Workers, Crash(w)
       PROVE  Good
  <2>1. \A u \in Threads : thread'[u].at \in DOMAIN StageOf => thread'[u] = thread[u]
    BY <1>2, <1>16 DEF Crash, Nobody
  <2>2. UNCHANGED status
    BY <1>16 DEF Crash
  <2> QED BY <1>frame, <1>same, <2>1, <2>2
<1>17. ASSUME NEW j \in Jobs, Create(j) \/ Cancel(j) \/ Delete(j) \/ GpuEnds(j) \/ GpuLate(j)
       PROVE  Good
  <2>1. UNCHANGED thread
    BY <1>17 DEF Create, Cancel, Delete, GpuEnds, GpuLate, OthersIdle
  <2>2. /\ \A k \in Jobs \ {j} : status'[k] = status[k]
        /\ \/ status[j] = "none" /\ status'[j] = "pending"
           \/ status'[j] \in {"cancelled", "failed"} /\ Live(j)
           \/ status'[j] = "deleted"
           \/ ~LocalDemucs /\ status[j] = "separating" /\ status'[j] = "finalizing"
    BY <1>0, <1>17
    DEF Create, CreateRow, Cancel, CancelRow, Delete, DeleteRow, GpuEnds, GpuLate, Apply, Fault,
        Live, Statuses, CpuStages, Terminal
  <2>3. EndsKept /\ Ordered
    BY <2>2 DEF EndsKept, Ended, Terminal, Ordered, NextStages, Following
  <2>4. ASSUME NEW u \in Threads, thread'[u].at \in DOMAIN StageOf
        PROVE  status'[thread[u].job] = status[thread[u].job] \/ Ended(JobOf(u))'
    <3>1. /\ thread'[u] = thread[u] /\ JobOf(u) \in Jobs /\ thread[u].at \in DOMAIN StageOf
          /\ status[JobOf(u)] \in StageOf[thread[u].at] \/ Ended(JobOf(u))
      BY <1>0, <1>2, <2>1, <2>4 DEF AtStage, At
    <3>2. status[JobOf(u)] # "none"
      BY <3>1 DEF StageOf, EarlyStatuses
    <3>3. status[JobOf(u)] = "separating" => LocalDemucs
      <4>1. status[JobOf(u)] = "separating" => thread[u].at = "separate"
        BY <3>1 DEF StageOf, EarlyStatuses, Ended, Terminal
      <4> QED BY <1>0, <4>1 DEF AtStage, At
    <3>4. JobOf(u)' = JobOf(u) /\ thread[u].job = JobOf(u)
      BY <2>1 DEF JobOf
    <3>5. \A k \in Jobs : \/ status'[k] = status[k]
                          \/ status'[k] \in {"cancelled", "failed", "deleted"}
                          \/ status[k] = "none"
                          \/ status[k] = "separating" /\ ~LocalDemucs
      BY <2>2
    <3>6. status'[JobOf(u)] = status[JobOf(u)] \/ status'[JobOf(u)] \in {"cancelled", "failed", "deleted"}
      BY <3>1, <3>2, <3>3, <3>5
    <3> QED BY <3>4, <3>6 DEF Ended, Terminal
  <2> QED BY <1>frame, <2>1, <2>3, <2>4
<1>18. CASE UNCHANGED <<status, thread>>
  BY <1>18, <1>frame, <1>same
<1>19. /\ \A w \in Workers : ListResumable(w) \/ ListStale(w) \/ Supervise(w) \/ Stop(w)
                               => UNCHANGED <<status, thread>>
       /\ \A k \in Keys : LoseSession(k) => UNCHANGED <<status, thread>>
       /\ \A j \in Jobs : GoesQuiet(j) => UNCHANGED <<status, thread>>
  BY DEF ListResumable, ListStale, Supervise, Exit, Restart, Stop, LoseSession, GoesQuiet
<1> QED
  BY <1>3, <1>4, <1>5, <1>6, <1>7, <1>8, <1>9, <1>10, <1>11, <1>12, <1>13, <1>14, <1>15, <1>16,
     <1>17, <1>18, <1>19
  DEF WorkerNext, ThreadStep, Intake, ResumeLoop, StaleSweep

LEMMA OrderInit == WorkerInit => AtStage
BY StagePoints DEF WorkerInit, AtStage, StageOf, Nobody, At

\* Every job goes through its stages in order, is failed or cancelled while
\* live, or is deleted; only early jobs go back to the queue.
THEOREM StagesOrdered ==
  ASSUME "session" \notin FaultKinds, "late" \notin FaultKinds
  PROVE  WorkerSpec => StagesInOrder
<1>1. WorkerInit => OrderInv
  BY OrderInit, ClaimsInit, LocksInit DEF OrderInv
<1>2. OrderInv /\ [WorkerNext]_workerVars => OrderInv'
  <2>1. ASSUME OrderInv, WorkerNext PROVE OrderInv'
    BY <2>1, ClaimsStep, LocksStep, OrderStep DEF OrderInv, ClaimsInv
  <2>2. ASSUME OrderInv, UNCHANGED workerVars PROVE OrderInv'
    <3>1. AtStage'
      BY <2>2 DEF OrderInv, AtStage, At, JobOf, Ended
    <3> QED BY <2>2, <3>1, ClaimsStep, LocksStep DEF OrderInv, ClaimsInv
  <2> QED BY <2>1, <2>2
<1>3. OrderInv /\ [WorkerNext]_workerVars => [Ordered]_workerVars
  BY OrderStep
<1> QED BY <1>1, <1>2, <1>3, PTL DEF WorkerSpec, StagesInOrder, Ordered
=============================================================================
