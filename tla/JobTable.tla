------------------------------ MODULE JobTable ------------------------------
(***************************************************************************)
(* The jobs table of internal/jobs: the one piece of state the API server, *)
(* the workers and their sweepers share.  Every other module extends this  *)
(* one and changes a row through the operations below, each of which is    *)
(* one database transaction of the program.                                *)
(*                                                                         *)
(* A row is abstracted to its status and stage_progress, plus `quiet`:     *)
(* whether StaleAfter (45 minutes) has passed since its last job_event.    *)
(* Timestamps, names and the audio facts of a row are left out.            *)
(***************************************************************************)
EXTENDS Faults

CONSTANT Jobs         (* the job ids that may be created                   *)

VARIABLES status,     (* status[j]: "none" before the row, "deleted" after *)
          progress,   (* progress[j]: stage_progress, 0..100               *)
          quiet       (* quiet[j]: no job_event for StaleAfter             *)

jobVars == <<status, progress, quiet>>

-----------------------------------------------------------------------------
(* Statuses and the progress band of each stage *)

Terminal == {"completed", "failed", "cancelled"}
CpuStages == {"converting", "analyzing", "finalizing", "packaging"}
Statuses == {"pending", "separating"} \cup CpuStages \cup Terminal
RowStates == Statuses \cup {"none", "deleted"}

\* The row exists and IsTerminal does not hold: Transition will accept it.
Live(j) == status[j] \in Statuses \ Terminal

Starts == [analyzing |-> 14, separating |-> 28, finalizing |-> 76,
           packaging |-> 89, completed |-> 100]
Ends == [converting |-> 14, analyzing |-> 28, separating |-> 76, finalizing |-> 89,
         packaging |-> 99, completed |-> 100]

StageStart(s) == IF s \in DOMAIN Starts THEN Starts[s] ELSE 0
StageEnd(s) == IF s \in DOMAIN Ends THEN Ends[s] ELSE 0

\* Mutant of StageProgress: the end of the band is added, not its width.
StageProgressPastEnd(s, percent) == StageStart(s) + (StageEnd(s) * percent + 50) \div 100

\* The band of s at a fraction given in per cent; it is clamped to 0..100
\* and the float is rounded half up by the + 0.5 before the truncation.
StageProgress(s, percent) ==
  LET f == IF percent < 0 THEN 0 ELSE IF percent > 100 THEN 100 ELSE percent
  IN  StageStart(s) + ((StageEnd(s) - StageStart(s)) * f + 50) \div 100

-----------------------------------------------------------------------------
(* Transactions on one row *)

\* The UPDATE and the job_event of a committed Transition.
Apply(j, s, p) ==
  /\ status' = [status EXCEPT ![j] = s]
  /\ progress' = [progress EXCEPT ![j] = p]
  /\ quiet' = [quiet EXCEPT ![j] = FALSE]

\* Mutant of Transition: the status read under the row lock is not looked at.
TransitionAnyRow(j, s, p) ==
  \/ status[j] \in Statuses /\ Apply(j, s, p)
  \/ status[j] \notin Statuses /\ UNCHANGED jobVars

\* Transition under the row lock: any non-terminal row takes the new status,
\* whatever stage it is in; a missing or terminal row is left alone and the
\* caller gets ErrNotFound or ErrTerminal.
Transition(j, s, p) ==
  \/ Live(j) /\ Apply(j, s, p)
  \/ ~Live(j) /\ UNCHANGED jobVars

\* A row is inserted in `pending` with its first event.
CreateRow(j) == status[j] = "none" /\ Apply(j, "pending", 0)

\* Claim's UPDATE: SKIP LOCKED passes over rows other transactions hold, so
\* any pending row may be the oldest one the claimer sees.
ClaimRow(j) == status[j] = "pending" /\ Apply(j, "converting", 0)

\* POST /jobs/{id}/cancel.
CancelRow(j) == Live(j) /\ Apply(j, "cancelled", 0)

\* DELETE /jobs/{id} and the retention sweep: the row goes, whatever its status.
DeleteRow(j) == status[j] \in Statuses /\ Apply(j, "deleted", 0)

-----------------------------------------------------------------------------
JobTableTypeOK ==
  /\ status \in [Jobs -> RowStates]
  /\ progress \in [Jobs -> 0..100]
  /\ quiet \in [Jobs -> BOOLEAN]
  /\ faults \in 0..MaxFaults
=============================================================================
