--------------------------- MODULE GpuLease_proofs --------------------------
(***************************************************************************)
(* Proofs about the lease protocol, for any number of jobs, runners,       *)
(* leases, handler threads and faults; and about the watchdog beside it,   *)
(* for any number of worker processes.                                     *)
(***************************************************************************)
EXTENDS GpuWait, FiniteSetTheorems, TLAPS

USE DEF jobVars, leaseVars, gpuVars, waitVars, gpuWaitVars

-----------------------------------------------------------------------------
(* The jobs table *)

LEMMA StageStartRange == \A s : StageStart(s) \in 0..100
BY DEF StageStart, Starts

\* A heartbeat's progress lies in the band of `separating`.
LEMMA BeatRange ==
  ASSUME NEW f \in Int
  PROVE  StageProgress("separating", f) \in 28..76
<1> DEFINE g == IF f < 0 THEN 0 ELSE IF f > 100 THEN 100 ELSE f
<1>1. g \in 0..100
  OBVIOUS
<1>2. StageProgress("separating", f) = 28 + (48 * g + 50) \div 100
  BY DEF StageProgress, StageStart, StageEnd, Starts, Ends
<1>3. (48 * g + 50) \div 100 \in 0..48
  <2> HIDE DEF g
  <2> QED BY <1>1
<1> HIDE DEF g
<1> QED BY <1>2, <1>3

\* A write to one row, and one that is refused, keep the table well typed.
LEMMA ApplyType ==
  ASSUME JobTableTypeOK, faults' \in 0..MaxFaults,
         NEW j \in Jobs, NEW s \in RowStates, NEW p \in 0..100,
         Apply(j, s, p) \/ UNCHANGED jobVars
  PROVE  JobTableTypeOK'
BY DEF JobTableTypeOK, Apply

LEMMA TransitionType ==
  ASSUME JobTableTypeOK, faults' \in 0..MaxFaults,
         NEW j \in Jobs, NEW s \in RowStates, NEW p \in 0..100,
         Transition(j, s, p)
  PROVE  JobTableTypeOK'
BY ApplyType DEF Transition

LEMMA FaultType ==
  ASSUME JobTableTypeOK, NEW kind, Fault(kind)
  PROVE  faults' \in 0..MaxFaults
BY FaultsAssumption DEF JobTableTypeOK, Fault

-----------------------------------------------------------------------------
(* Leases and threads *)

LEMMA NoneIsNoLease == None \notin Leases
BY GpuLeaseAssumption

\* What Close, a new lease state, does to the types and to the rows in use.
LEMMA CloseType ==
  ASSUME lease \in [Leases -> LeaseRow], NEW l \in Leases, NEW s \in LeaseStates, Close(l, s)
  PROVE  /\ lease' \in [Leases -> LeaseRow]
         /\ \A k \in Leases : lease'[k].job = lease[k].job
         /\ \A k \in Leases : lease'[k].overdue => lease[k].overdue /\ lease'[k] = lease[k]
         /\ s # "unused" =>
              \A k \in Leases : lease'[k].state = "unused" <=> lease[k].state = "unused"
BY DEF Close, Closed, LeaseRow

\* The parts of the type invariant that one kind of step can disturb.
TableType == JobTableTypeOK
RowType ==
  /\ lease \in [Leases -> LeaseRow]
  /\ \A l \in Leases : lease[l].state # "unused" => lease[l].job \in Jobs
  /\ \A l \in Leases : lease[l].overdue => lease[l].state = "active"
CallType ==
  /\ call \in [Threads -> ThreadState]
  /\ \A c \in Threads : ~At(c, "idle") => /\ call[c].lease \in Leases
                                         /\ lease[call[c].lease].state # "unused"
ListType ==
  /\ todo \subseteq Leases
  /\ \A l \in todo : lease[l].state # "unused"
  /\ driven \subseteq Jobs

LEMMA TypeParts == LeaseTypeOK <=> TableType /\ RowType /\ CallType /\ ListType
BY DEF LeaseTypeOK, TableType, RowType, CallType, ListType

\* A row in use stays in use.
Kept == \A l \in Leases : lease[l].state # "unused" => lease'[l].state # "unused"

\* A thread that moves on to another point, or returns, keeps the types.
LEMMA GotoType ==
  ASSUME CallType, Kept, NEW c \in Threads, NEW point \in Points, ~At(c, "idle"), Goto(c, point)
  PROVE  CallType'
BY DEF CallType, Kept, Goto, At, ThreadState

LEMMA ReturnType ==
  ASSUME CallType, Kept, NEW c \in Threads, Return(c)
  PROVE  CallType'
BY DEF CallType, Kept, Return, At, ThreadState, Idle, Points

LEMMA StartType ==
  ASSUME CallType, Kept, NEW c \in Threads, NEW point \in Points, NEW l \in Leases,
         NEW p \in 0..100, lease'[l].state # "unused", Start(c, point, l, p)
  PROVE  CallType'
BY DEF CallType, Kept, Start, At, ThreadState

LEMMA SameCallType ==
  ASSUME CallType, Kept, UNCHANGED call
  PROVE  CallType'
BY DEF CallType, Kept, At

LEMMA SameListType ==
  ASSUME ListType, Kept, todo' \subseteq todo, UNCHANGED driven
  PROVE  ListType'
BY DEF ListType, Kept

\* The job of a busy thread.
LEMMA BusyJob ==
  ASSUME LeaseTypeOK, NEW c \in Threads, ~At(c, "idle")
  PROVE  call[c].lease \in Leases /\ JobOf(c) \in Jobs
BY DEF LeaseTypeOK, JobOf

-----------------------------------------------------------------------------
(* Type correctness *)

LEMMA TypeInit == LeaseInit => LeaseTypeOK
<1> SUFFICES ASSUME LeaseInit PROVE LeaseTypeOK
  OBVIOUS
<1>1. TableType
  BY StageStartRange, FaultsAssumption
  DEF LeaseInit, TableType, JobTableTypeOK, RowStates, Statuses, CpuStages
<1>2. RowType /\ CallType /\ ListType
  BY DEF LeaseInit, RowType, CallType, ListType, Unused, Idle, At,
         LeaseRow, LeaseStates, ThreadState, Points
<1> QED BY <1>1, <1>2, TypeParts

\* The statuses the protocol writes.
LEMMA WrittenStatuses ==
  {"separating", "finalizing", "packaging", "completed", "failed", "cancelled", "deleted"}
    \subseteq RowStates
BY DEF RowStates, Statuses, CpuStages, Terminal

LEMMA TypeStep ==
  ASSUME LeaseTypeOK, [LeaseNext]_gpuVars
  PROVE  LeaseTypeOK'
<1> USE TypeParts, WrittenStatuses, StageStartRange
<1>0. TableType /\ RowType /\ CallType /\ ListType /\ faults \in 0..MaxFaults
  BY DEF TableType, JobTableTypeOK
<1>s. SUFFICES TableType' /\ RowType' /\ CallType' /\ ListType'
  BY DEF LeaseTypeOK, TableType, RowType, CallType, ListType
<1> DEFINE SameTable == UNCHANGED <<jobVars, faults>>
           SameLists == UNCHANGED <<todo, driven>>
<1>table. SameTable => TableType'
  BY <1>0 DEF TableType, JobTableTypeOK
<1>rows. UNCHANGED lease => RowType' /\ Kept
  BY <1>0 DEF RowType, Kept
<1>lists. Kept /\ SameLists => ListType'
  BY <1>0, SameListType
<1>closed. ASSUME NEW l \in Leases, NEW st \in LeaseStates \ {"unused"}, Close(l, st)
           PROVE  RowType' /\ Kept
  BY <1>0, <1>closed, CloseType DEF RowType, Kept
<1>row. ASSUME NEW j \in Jobs, NEW st \in RowStates, NEW p \in 0..100,
               Transition(j, st, p), faults' \in 0..MaxFaults
        PROVE  TableType'
  BY <1>0, <1>row, TransitionType DEF TableType
<1>busy. ASSUME NEW c \in Threads, ~At(c, "idle")
         PROVE  call[c].lease \in Leases /\ JobOf(c) \in Jobs /\ call[c].p \in 0..100
  BY <1>0, <1>busy DEF CallType, RowType, JobOf, ThreadState
<1>points. /\ {"offer", "beat", "drop", "verify", "count"} \subseteq Points
           /\ Calls \subseteq Threads /\ Sweeper \in Threads
           /\ 0 \in 0..100
  BY DEF Points, Threads
\* POST /gpu/lease
<1>1. ASSUME NEW c \in Calls, NEW r \in Runners, NEW j \in Jobs, NEW l \in Leases,
             Claim(c, r, j, l)
      PROVE  TableType' /\ RowType' /\ CallType' /\ ListType'
  <2>1. RowType' /\ Kept /\ lease'[l].state # "unused"
    BY <1>0, <1>1 DEF Claim, RowType, Kept, LeaseRow, LeaseStates
  <2>2. CallType'
    <3>1. Start(c, "offer", l, 0)
      BY <1>1 DEF Claim
    <3> QED BY <1>0, <1>points, <2>1, <3>1, StartType
  <2> QED BY <1>1, <1>table, <1>lists, <2>1, <2>2 DEF Claim
<1>2. ASSUME NEW c \in Threads, Offer(c)
      PROVE  TableType' /\ RowType' /\ CallType' /\ ListType'
  <2>0. ~At(c, "idle")
    BY <1>2 DEF Offer, At
  <2>1. TableType'
    BY <1>0, <1>2, <1>row, <1>busy, <2>0 DEF Offer
  <2>2. RowType' /\ Kept
    <3> DEFINE known == Live(JobOf(c))
    <3>1. known \in BOOLEAN
      BY DEF Live
    <3>2. lease' = [lease EXCEPT ![call[c].lease].known = known]
      BY <1>2 DEF Offer
    <3> HIDE DEF known
    <3> QED BY <1>0, <1>busy, <2>0, <3>1, <3>2 DEF RowType, Kept, LeaseRow
  <2> QED BY <1>0, <1>2, <1>lists, <2>1, <2>2, ReturnType DEF Offer
\* POST /gpu/lease/{id}/heartbeat
<1>3. ASSUME NEW c \in Calls, NEW l \in Leases, NEW f \in Fractions, Heartbeat(c, l, f)
      PROVE  TableType' /\ RowType' /\ CallType' /\ ListType'
  <2> DEFINE p == StageProgress("separating", f)
  <2>1. p \in 0..100
    BY BeatRange, GpuLeaseAssumption
  <2>2. RowType' /\ Kept /\ lease'[l].state # "unused"
    BY <1>0, <1>3 DEF Heartbeat, Callable, RowType, Kept, LeaseRow
  <2>3. CallType'
    <3> HIDE DEF p
    <3>1. \/ Start(c, "drop", l, 0) \/ Start(c, "beat", l, p) \/ UNCHANGED call
      BY <1>3 DEF Heartbeat, p
    <3> QED BY <1>0, <2>1, <2>2, <3>1, <1>points, StartType, SameCallType
  <2> QED BY <1>3, <1>table, <1>lists, <2>2, <2>3 DEF Heartbeat
<1>4. ASSUME NEW c \in Threads, DropLease(c)
      PROVE  TableType' /\ RowType' /\ CallType' /\ ListType'
  <2>1. RowType' /\ Kept
    BY <1>4, <1>busy, <1>closed DEF DropLease, At, LeaseStates
  <2> QED BY <1>0, <1>4, <1>table, <1>lists, <2>1, ReturnType DEF DropLease
<1>5. ASSUME NEW c \in Threads, Beat(c)
      PROVE  TableType' /\ RowType' /\ CallType' /\ ListType'
  <2>1. TableType'
    BY <1>0, <1>5, <1>busy, <1>row DEF Beat, At
  <2> QED BY <1>0, <1>5, <1>rows, <1>lists, <2>1, ReturnType DEF Beat
\* POST /gpu/lease/{id}/complete
<1>6. ASSUME NEW c \in Calls, NEW l \in Leases, Complete(c, l)
      PROVE  TableType' /\ RowType' /\ CallType' /\ ListType'
  <2>1. Kept /\ RowType' /\ lease'[l].state # "unused"
    BY <1>6, <1>rows DEF Complete, Callable
  <2>2. Start(c, "verify", l, 0) \/ Start(c, "drop", l, 0)
    BY <1>6 DEF Complete
  <2>3. c \in Threads /\ {"verify", "drop"} \subseteq Points /\ 0 \in 0..100
    BY DEF Threads, Points
  <2>4. CallType'
    BY <1>0, <2>1, <2>2, <2>3, StartType
  <2> QED BY <1>6, <1>table, <1>lists, <2>1, <2>4 DEF Complete
<1>7. ASSUME NEW c \in Threads, RejectStems(c)
      PROVE  TableType' /\ RowType' /\ CallType' /\ ListType'
  BY <1>0, <1>7, <1>table, <1>rows, <1>lists, ReturnType DEF RejectStems
<1>8. ASSUME NEW c \in Threads, CloseVerified(c)
      PROVE  TableType' /\ RowType' /\ CallType' /\ ListType'
  <2>1. RowType' /\ Kept
    BY <1>8, <1>busy, <1>closed DEF CloseVerified, At, LeaseStates
  <2>2. CallType'
    BY <1>0, <1>8, <2>1, GotoType, ReturnType DEF CloseVerified, Points, At
  <2> QED BY <1>8, <1>table, <1>lists, <2>1, <2>2 DEF CloseVerified
<1>9. ASSUME NEW c \in Threads, MoveOn(c)
      PROVE  TableType' /\ RowType' /\ CallType' /\ ListType'
  <2>1. TableType'
    BY <1>0, <1>9, <1>busy, <1>row DEF MoveOn, At
  <2> QED BY <1>0, <1>9, <1>rows, <1>lists, <2>1, ReturnType DEF MoveOn
<1>10. ASSUME NEW c \in Threads, MoveOnFails(c)
       PROVE  TableType' /\ RowType' /\ CallType' /\ ListType'
  <2>1. faults' \in 0..MaxFaults
    BY <1>0, <1>10, FaultType DEF MoveOnFails, TableType
  <2>2. JobOf(c) \in Jobs /\ ~At(c, "idle")
    BY <1>10, <1>busy DEF MoveOnFails, At
  <2>3. TableType'
    BY <1>0, <1>10, <1>row, <2>1, <2>2, ApplyType DEF MoveOnFails, TableType
  <2>4. CallType'
    BY <1>0, <1>10, <1>rows, <2>2, GotoType DEF MoveOnFails, Points
  <2> QED BY <1>10, <1>rows, <1>lists, <2>3, <2>4 DEF MoveOnFails
<1>11. ASSUME NEW c \in Threads, Reopen(c)
       PROVE  TableType' /\ RowType' /\ CallType' /\ ListType'
  <2>1. RowType' /\ Kept
    BY <1>0, <1>11, <1>busy DEF Reopen, RowType, Kept, LeaseRow, LeaseStates, At
  <2> QED BY <1>0, <1>11, <1>table, <1>lists, <2>1, ReturnType DEF Reopen
\* POST /gpu/lease/{id}/fail and the failure policy
<1>12. ASSUME NEW c \in Calls, NEW l \in Leases, Fail(c, l)
       PROVE  TableType' /\ RowType' /\ CallType' /\ ListType'
  <2>1. RowType' /\ Kept
    BY <1>12, <1>closed DEF Fail, LeaseStates
  <2>2. CallType'
    BY <1>0, <1>12, <2>1, StartType DEF Fail, Callable, Kept, Points, Threads
  <2> QED BY <1>12, <1>table, <1>lists, <2>1, <2>2 DEF Fail
<1>13. ASSUME NEW c \in Threads, CountFailures(c)
       PROVE  TableType' /\ RowType' /\ CallType' /\ ListType'
  <2>1. CallType'
    BY <1>0, <1>13, <1>rows, GotoType DEF CountFailures, Points, At
  <2> QED BY <1>13, <1>table, <1>rows, <1>lists, <2>1 DEF CountFailures
<1>14. ASSUME NEW c \in Threads, GiveUp(c) \/ Retry(c)
       PROVE  TableType' /\ RowType' /\ CallType' /\ ListType'
  <2>1. TableType'
    <3>1. JobOf(c) \in Jobs
      BY <1>14, <1>busy DEF GiveUp, Retry, At
    <3>2. PICK st \in RowStates, p \in 0..100 : Transition(JobOf(c), st, p)
      BY <1>14 DEF GiveUp, Retry
    <3> QED BY <1>0, <1>14, <1>row, <3>1, <3>2 DEF GiveUp, Retry
  <2> QED BY <1>0, <1>14, <1>rows, <1>lists, <2>1, ReturnType DEF GiveUp, Retry
\* The sweep
<1>15. ASSUME NEW l \in Leases, LeaseTimesOut(l)
       PROVE  TableType' /\ RowType' /\ CallType' /\ ListType'
  <2>1. RowType' /\ Kept
    BY <1>0, <1>15 DEF LeaseTimesOut, RowType, Kept, LeaseRow
  <2> QED BY <1>0, <1>15, <1>table, <1>lists, <2>1, SameCallType DEF LeaseTimesOut
<1>16. ASSUME ExpireStale
       PROVE  TableType' /\ RowType' /\ CallType' /\ ListType'
  <2>1. RowType' /\ Kept
    <3>1. ASSUME NEW l \in Leases
          PROVE  /\ lease'[l] \in LeaseRow
                 /\ lease'[l].job = lease[l].job
                 /\ lease[l].state # "unused" <=> lease'[l].state # "unused"
                 /\ lease'[l].overdue => lease[l].overdue /\ lease'[l] = lease[l]
      <4>1. lease[l] \in LeaseRow
        BY <1>0 DEF RowType
      <4>2. CASE lease'[l] = lease[l]
        BY <4>1, <4>2
      <4>3. CASE /\ lease[l].overdue
                 /\ lease'[l] = [lease[l] EXCEPT !.state = "expired", !.overdue = FALSE]
        <5>1. lease[l].state # "unused"
          BY <1>0, <4>3 DEF RowType
        <5> QED BY <4>1, <4>3, <5>1 DEF LeaseRow, LeaseStates
      <4> QED BY <1>16, <4>2, <4>3 DEF ExpireStale
    <3>2. lease' = [l \in Leases |-> lease'[l]]
      BY <1>16 DEF ExpireStale
    <3> QED BY <1>0, <3>1, <3>2 DEF RowType, Kept
  <2>2. ListType'
    <3>1. \A l \in todo' : l \in Leases /\ lease'[l].state = "expired"
      BY <1>0, <1>16 DEF ExpireStale, RowType, LeaseRow
    <3> QED BY <1>0, <1>16, <3>1 DEF ExpireStale, ListType
  <2> QED BY <1>0, <1>16, <1>table, <2>1, <2>2, SameCallType DEF ExpireStale
<1>17. ASSUME NEW l \in Leases, SweepNext(l)
       PROVE  TableType' /\ RowType' /\ CallType' /\ ListType'
  <2>1. Kept /\ RowType' /\ lease'[l].state # "unused"
    BY <1>0, <1>17, <1>rows DEF SweepNext, ListType
  <2>2. CallType'
    <3>1. Start(Sweeper, "count", l, 0)
      BY <1>17 DEF SweepNext
    <3> QED BY <1>0, <1>points, <2>1, <3>1, StartType
  <2>3. ListType'
    BY <1>0, <1>17, <2>1, SameListType DEF SweepNext
  <2> QED BY <1>17, <1>table, <2>1, <2>2, <2>3 DEF SweepNext
<1>18. ASSUME NEW c \in Threads, Abort(c)
       PROVE  TableType' /\ RowType' /\ CallType' /\ ListType'
  <2>1. TableType'
    BY <1>0, <1>18, FaultType DEF Abort, TableType, JobTableTypeOK
  <2>2. ListType'
    BY <1>0, <1>18, <1>rows, SameListType DEF Abort
  <2> QED BY <1>0, <1>18, <1>rows, <2>1, <2>2, ReturnType DEF Abort
\* The environment
<1>19. ASSUME NEW j \in Jobs, HandOver(j) \/ Cancel(j)
       PROVE  TableType' /\ RowType' /\ CallType' /\ ListType'
  <2>1. TableType'
    BY <1>0, <1>19, ApplyType DEF HandOver, Cancel, CancelRow, TableType
  <2> QED BY <1>0, <1>19, <1>rows, <1>lists, <2>1, SameCallType DEF HandOver, Cancel
<1>20. ASSUME NEW j \in Jobs, Resume(j) \/ Abandon(j)
       PROVE  TableType' /\ RowType' /\ CallType' /\ ListType'
  <2>1. TableType'
    BY <1>0, <1>20, FaultType DEF Resume, Abandon, TableType, JobTableTypeOK
  <2>2. ListType'
    BY <1>0, <1>20 DEF Resume, Abandon, ListType
  <2> QED BY <1>0, <1>20, <1>rows, <2>1, <2>2, SameCallType DEF Resume, Abandon
<1>21. ASSUME NEW j \in Jobs, NEW st \in {"finalizing", "packaging", "completed", "failed"},
              Drive(j, st)
       PROVE  TableType' /\ RowType' /\ CallType' /\ ListType'
  <2>1. TableType'
    BY <1>0, <1>21, <1>row DEF Drive
  <2>2. ListType'
    BY <1>0, <1>21 DEF Drive, ListType
  <2> QED BY <1>0, <1>21, <1>rows, <2>1, <2>2, SameCallType DEF Drive
<1>22. ASSUME NEW j \in Jobs, Delete(j)
       PROVE  TableType' /\ RowType' /\ CallType' /\ ListType'
  <2>1. TableType'
    BY <1>0, <1>22, ApplyType DEF Delete, DeleteRow, TableType
  <2>2. RowType' /\ Kept
    <3>1. ASSUME NEW l \in Leases
          PROVE  /\ lease'[l] \in LeaseRow
                 /\ lease'[l].job = lease[l].job
                 /\ lease[l].state # "unused" => lease'[l].state # "unused"
                 /\ lease[l].state = "unused" => lease'[l] = lease[l] \/ lease'[l].job \in Jobs
                 /\ lease'[l].overdue => lease[l].overdue /\ lease'[l] = lease[l]
      <4>1. lease[l] \in LeaseRow
        BY <1>0 DEF RowType
      <4>2. CASE lease'[l] = lease[l]
        BY <4>1, <4>2
      <4>3. CASE /\ lease[l].job = j
                 /\ lease'[l] = [lease[l] EXCEPT !.state = "deleted", !.overdue = FALSE]
        BY <4>1, <4>3 DEF LeaseRow, LeaseStates
      <4> QED BY <1>22, <4>2, <4>3 DEF Delete, Cascade
    <3>2. lease' = [l \in Leases |-> lease'[l]]
      BY <1>22 DEF Delete, Cascade
    <3> QED BY <1>0, <3>1, <3>2 DEF RowType, Kept
  <2> QED BY <1>0, <1>22, <1>lists, <2>1, <2>2, SameCallType DEF Delete
<1>23. CASE UNCHANGED gpuVars
  BY <1>0, <1>23, <1>table, <1>rows, <1>lists, SameCallType
<1> QED
  BY <1>1, <1>2, <1>3, <1>4, <1>5, <1>6, <1>7, <1>8, <1>9, <1>10, <1>11, <1>12, <1>13,
     <1>14, <1>15, <1>16, <1>17, <1>18, <1>19, <1>20, <1>21, <1>22, <1>23
  DEF LeaseNext, GpuStep, Request, ThreadStep, Sweep, Others

\* Every state of the lease protocol is well typed: a lease in use belongs to
\* a job, a handler in flight to a lease, and progress stays within 0..100.
THEOREM LeaseTypeCorrect == LeaseSpec => []LeaseTypeOK
<1>1. LeaseInit => LeaseTypeOK
  BY TypeInit
<1>2. LeaseTypeOK /\ [LeaseNext]_gpuVars => LeaseTypeOK'
  BY TypeStep
<1> QED BY <1>1, <1>2, PTL DEF LeaseSpec

-----------------------------------------------------------------------------
(* Who acts on a lease *)

\* What the safety invariants rest on: a lease that is not yet answered is
\* known to nobody but its claim call, so that no request can reach it; the
\* sweep only ever runs the failure policy; and a lease is deleted together
\* with its job.
IdleIsClean == \A c \in Threads : At(c, "idle") => call[c] = Idle

OfferIsPrivate ==
  \A c \in Threads : At(c, "offer") =>
    /\ ~lease[call[c].lease].known
    /\ \A d \in Threads \ {c} : call[d].lease = call[c].lease => InPolicy(d)

SweeperRunsPolicy == At(Sweeper, "idle") \/ InPolicy(Sweeper)

DeletedTogether ==
  \A l \in Leases : lease[l].state = "deleted" => status[lease[l].job] = "deleted"

OwnershipInv ==
  /\ LeaseTypeOK
  /\ OneActiveLease
  /\ CompleterOwnsLease
  /\ PolicyOncePerLease
  /\ IdleIsClean
  /\ OfferIsPrivate
  /\ SweeperRunsPolicy
  /\ DeletedTogether

\* The part of it that says who acts on which lease.
Owners ==
  /\ OneActiveLease
  /\ CompleterOwnsLease
  /\ PolicyOncePerLease
  /\ IdleIsClean
  /\ OfferIsPrivate
  /\ SweeperRunsPolicy

LEMMA OwnershipParts == OwnershipInv <=> LeaseTypeOK /\ Owners /\ DeletedTogether
BY DEF OwnershipInv, Owners

\* How a step of thread c changes the calls.
KeepOthers(c) == \A d \in Threads \ {c} : call'[d] = call[d]

LEMMA ReturnCalls ==
  ASSUME LeaseTypeOK, NEW c \in Threads, Return(c)
  PROVE  call'[c] = Idle /\ KeepOthers(c)
BY DEF LeaseTypeOK, Return, KeepOthers

LEMMA GotoCalls ==
  ASSUME LeaseTypeOK, NEW c \in Threads, NEW point, Goto(c, point)
  PROVE  call'[c].at = point /\ call'[c].lease = call[c].lease /\ KeepOthers(c)
BY DEF LeaseTypeOK, Goto, KeepOthers, ThreadState

LEMMA StartCalls ==
  ASSUME LeaseTypeOK, NEW c \in Threads, NEW point, NEW l, NEW p, Start(c, point, l, p)
  PROVE  call'[c].at = point /\ call'[c].lease = l /\ KeepOthers(c) /\ At(c, "idle")
BY DEF LeaseTypeOK, Start, KeepOthers

\* How a step changes the leases.
KeepRows(L) == \A k \in Leases \ L : lease'[k] = lease[k]

LEMMA CloseRows ==
  ASSUME LeaseTypeOK, NEW l \in Leases, NEW st \in LeaseStates, Close(l, st)
  PROVE  /\ KeepRows({l})
         /\ lease'[l].job = lease[l].job /\ lease'[l].known = lease[l].known
         /\ lease'[l].state = IF lease[l].state = "active" THEN st ELSE lease[l].state
BY DEF LeaseTypeOK, Close, Closed, KeepRows, LeaseRow

\* No lease changes its state, its job or who knows it.
SameRows ==
  \A l \in Leases : /\ lease'[l].state = lease[l].state
                    /\ lease'[l].job = lease[l].job
                    /\ lease'[l].known = lease[l].known

LEMMA SameRowsOneActive ==
  ASSUME Owners, SameRows
  PROVE  OneActiveLease'
BY DEF Owners, SameRows, OneActiveLease, ActiveLeases, LeasesOf

\* The lease of a busy thread is in use; an idle thread has none.
LEMMA BusyLease ==
  ASSUME LeaseTypeOK, Owners, NEW d \in Threads
  PROVE  \/ At(d, "idle") /\ call[d].lease = None /\ None \notin Leases
         \/ /\ ~At(d, "idle")
            /\ call[d].lease \in Leases
            /\ lease[call[d].lease].state # "unused"
BY NoneIsNoLease DEF LeaseTypeOK, Owners, IdleIsClean, Idle

\* A thread that returns disturbs nobody.
LEMMA ReturnOwners ==
  ASSUME LeaseTypeOK, Owners, NEW c \in Threads, Return(c), SameRows, todo' \subseteq todo
  PROVE  Owners'
<1>1. call'[c] = Idle /\ KeepOthers(c)
  BY ReturnCalls
<1>2. \A d \in Threads : ~At(d, "idle") => call[d].lease \in Leases /\ call[d].lease # None
  BY BusyLease, NoneIsNoLease
<1>3. todo \subseteq Leases
  BY DEF LeaseTypeOK
<1> USE DEF Owners, At, Idle, SameRows
<1>4. CompleterOwnsLease'
  BY <1>1, <1>2 DEF CompleterOwnsLease, Completing, KeepOthers, IdleIsClean
<1>5. PolicyOncePerLease'
  BY <1>1, <1>2, <1>3 DEF PolicyOncePerLease, InPolicy, KeepOthers
<1>6. IdleIsClean' /\ SweeperRunsPolicy'
  BY <1>1 DEF IdleIsClean, SweeperRunsPolicy, InPolicy, KeepOthers, Threads
<1>7. OfferIsPrivate'
  BY <1>1, <1>2 DEF OfferIsPrivate, InPolicy, KeepOthers
<1> QED BY <1>4, <1>5, <1>6, <1>7, SameRowsOneActive

\* Nor does one that goes on within its phase.
LEMMA GotoOwners ==
  ASSUME LeaseTypeOK, Owners, NEW c \in Threads, NEW point, Goto(c, point),
         \/ Completing(c) /\ point \in {"moveOn", "reopen"}
         \/ InPolicy(c) /\ point \in {"count", "giveUp", "retry"},
         SameRows, UNCHANGED todo
  PROVE  Owners'
<1>1. call'[c].at = point /\ call'[c].lease = call[c].lease /\ KeepOthers(c)
  BY GotoCalls
<1>2. \A d \in Threads : ~At(d, "idle") => call[d].lease \in Leases /\ call[d].lease # None
  BY BusyLease, NoneIsNoLease
<1>3. todo \subseteq Leases
  BY DEF LeaseTypeOK
<1> USE DEF Owners, At, SameRows, InPolicy, Completing
<1>4. CompleterOwnsLease'
  BY <1>1, <1>2 DEF CompleterOwnsLease, KeepOthers
<1>5. PolicyOncePerLease'
  BY <1>1, <1>2, <1>3 DEF PolicyOncePerLease, KeepOthers
<1>6. IdleIsClean' /\ SweeperRunsPolicy'
  BY <1>1 DEF IdleIsClean, SweeperRunsPolicy, KeepOthers, Threads
<1>7. OfferIsPrivate'
  BY <1>1, <1>2 DEF OfferIsPrivate, KeepOthers
<1> QED BY <1>4, <1>5, <1>6, <1>7, SameRowsOneActive

\* Nor does a heartbeat or a complete call that arrives for a lease its
\* runner knows.
LEMMA StartOwners ==
  ASSUME LeaseTypeOK, Owners, NEW c \in Calls, NEW point \in {"beat", "drop", "verify"},
         NEW l \in Leases, NEW p, Start(c, point, l, p), Callable(l), SameRows, UNCHANGED todo
  PROVE  Owners'
<1>1. call'[c].at = point /\ call'[c].lease = l /\ KeepOthers(c) /\ At(c, "idle") /\ c \in Threads
  BY StartCalls DEF Threads
<1>2. \A d \in Threads : ~At(d, "idle") => call[d].lease \in Leases /\ call[d].lease # None
  BY BusyLease, NoneIsNoLease
<1>3. todo \subseteq Leases
  BY DEF LeaseTypeOK
<1> USE DEF Owners, At, SameRows, InPolicy, Completing, Callable
<1>4. CompleterOwnsLease'
  BY <1>1, <1>2 DEF CompleterOwnsLease, KeepOthers
<1>5. PolicyOncePerLease'
  BY <1>1, <1>2, <1>3 DEF PolicyOncePerLease, KeepOthers
<1>6. IdleIsClean' /\ SweeperRunsPolicy'
  BY <1>1, GpuLeaseAssumption DEF IdleIsClean, SweeperRunsPolicy, KeepOthers, Threads
<1>7. OfferIsPrivate'
  BY <1>1, <1>2 DEF OfferIsPrivate, KeepOthers
<1> QED BY <1>4, <1>5, <1>6, <1>7, SameRowsOneActive

\* Nor does a step that changes neither calls nor lists.
LEMMA SameOwners ==
  ASSUME LeaseTypeOK, Owners, SameRows, UNCHANGED <<call, todo>>
  PROVE  Owners'
<1>1. \A d \in Threads : ~At(d, "idle") => call[d].lease \in Leases
  BY BusyLease
<1>2. todo \subseteq Leases
  BY DEF LeaseTypeOK
<1> USE DEF Owners, At, SameRows, InPolicy, Completing
<1>3. CompleterOwnsLease' /\ PolicyOncePerLease'
  BY <1>1, <1>2 DEF CompleterOwnsLease, PolicyOncePerLease
<1>4. IdleIsClean' /\ SweeperRunsPolicy' /\ OfferIsPrivate'
  BY <1>1 DEF IdleIsClean, SweeperRunsPolicy, OfferIsPrivate
<1> QED BY <1>3, <1>4, SameRowsOneActive

\* The steps that change a lease's state, one lemma each.
LEMMA ClaimOwners ==
  ASSUME LeaseTypeOK, Owners, NEW c \in Calls, NEW r \in Runners, NEW j \in Jobs, NEW l \in Leases,
         Claim(c, r, j, l)
  PROVE  Owners'
<1>1. call'[c].at = "offer" /\ call'[c].lease = l /\ KeepOthers(c) /\ At(c, "idle") /\ c \in Threads
  BY StartCalls DEF Claim, Threads
<1>2. /\ lease'[l] = [state |-> "active", job |-> j, runner |-> r, known |-> FALSE, overdue |-> FALSE]
      /\ KeepRows({l}) /\ lease[l].state = "unused"
  BY DEF Claim, LeaseTypeOK, KeepRows
<1>3. \A d \in Threads : ~At(d, "idle") =>
        call[d].lease \in Leases /\ call[d].lease # None /\ call[d].lease # l
  BY <1>2, BusyLease, NoneIsNoLease
<1>4. todo \subseteq Leases /\ l \notin todo /\ UNCHANGED todo
  BY <1>2 DEF Claim, LeaseTypeOK
<1> USE DEF Owners, At, InPolicy, Completing, KeepRows
<1>5. OneActiveLease'
  BY <1>2 DEF Claim, Eligible, OneActiveLease, ActiveLeases, LeasesOf
<1>6. CompleterOwnsLease'
  BY <1>1, <1>2, <1>3, <1>4 DEF CompleterOwnsLease, KeepOthers
<1>7. PolicyOncePerLease'
  BY <1>1, <1>2, <1>3, <1>4 DEF PolicyOncePerLease, KeepOthers
<1>8. IdleIsClean' /\ SweeperRunsPolicy'
  BY <1>1, GpuLeaseAssumption DEF IdleIsClean, SweeperRunsPolicy, KeepOthers, Threads
<1>9. OfferIsPrivate'
  <2>1. \A d \in Threads \ {c} : call[d].lease # l
    BY <1>3, BusyLease
  <2> QED BY <1>1, <1>2, <1>3, <2>1 DEF OfferIsPrivate, KeepOthers
<1> QED BY <1>5, <1>6, <1>7, <1>8, <1>9

LEMMA OfferOwners ==
  ASSUME LeaseTypeOK, Owners, NEW c \in Threads, Offer(c)
  PROVE  Owners'
<1> DEFINE l == call[c].lease
<1>1. call'[c] = Idle /\ KeepOthers(c) /\ At(c, "offer")
  BY ReturnCalls DEF Offer
<1>2. /\ KeepRows({l}) /\ l \in Leases
      /\ lease'[l].state = lease[l].state /\ lease'[l].job = lease[l].job
  <2>1. l \in Leases /\ lease[l] \in LeaseRow
    BY <1>1 DEF LeaseTypeOK, At
  <2>2. lease' = [lease EXCEPT ![l].known = Live(JobOf(c))]
    BY DEF Offer
  <2> QED BY <2>1, <2>2 DEF LeaseTypeOK, KeepRows, LeaseRow
<1>3. \A d \in Threads : ~At(d, "idle") => call[d].lease \in Leases /\ call[d].lease # None
  BY BusyLease, NoneIsNoLease
<1>4. todo \subseteq Leases /\ UNCHANGED todo
  BY DEF Offer, LeaseTypeOK
<1> HIDE DEF l
<1> USE DEF Owners, At, InPolicy, Completing, KeepRows, KeepOthers, Idle
<1>5. OneActiveLease'
  BY <1>2 DEF OneActiveLease, ActiveLeases, LeasesOf
<1>6. CompleterOwnsLease'
  BY <1>1, <1>2, <1>3, <1>4 DEF CompleterOwnsLease, l
<1>7. PolicyOncePerLease'
  BY <1>1, <1>2, <1>3, <1>4 DEF PolicyOncePerLease, l
<1>8. IdleIsClean' /\ SweeperRunsPolicy'
  BY <1>1 DEF IdleIsClean, SweeperRunsPolicy, Threads
<1>9. OfferIsPrivate'
  BY <1>1, <1>2, <1>3 DEF OfferIsPrivate, l
<1> QED BY <1>5, <1>6, <1>7, <1>8, <1>9

LEMMA DropOwners ==
  ASSUME LeaseTypeOK, Owners, NEW c \in Threads, DropLease(c)
  PROVE  Owners'
<1> DEFINE l == call[c].lease
<1>1. call'[c] = Idle /\ KeepOthers(c) /\ At(c, "drop")
  BY ReturnCalls DEF DropLease
<1>2. /\ KeepRows({l}) /\ l \in Leases
      /\ lease'[l].job = lease[l].job /\ lease'[l].known = lease[l].known
      /\ lease'[l].state = IF lease[l].state = "active" THEN "failed" ELSE lease[l].state
  BY <1>1, CloseRows, BusyLease DEF DropLease, At, LeaseStates
<1>3. \A d \in Threads : ~At(d, "idle") => call[d].lease \in Leases /\ call[d].lease # None
  BY BusyLease, NoneIsNoLease
<1>4. todo \subseteq Leases /\ UNCHANGED todo
  BY DEF DropLease, LeaseTypeOK
<1> HIDE DEF l
<1> USE DEF Owners, At, InPolicy, Completing, KeepRows, KeepOthers, Idle
<1>5. OneActiveLease'
  BY <1>2 DEF OneActiveLease, ActiveLeases, LeasesOf
<1>6. CompleterOwnsLease'
  BY <1>1, <1>2, <1>3, <1>4 DEF CompleterOwnsLease
<1>7. PolicyOncePerLease'
  BY <1>1, <1>2, <1>3, <1>4 DEF PolicyOncePerLease
<1>8. IdleIsClean' /\ SweeperRunsPolicy'
  BY <1>1 DEF IdleIsClean, SweeperRunsPolicy, Threads
<1>9. OfferIsPrivate'
  BY <1>1, <1>2, <1>3 DEF OfferIsPrivate
<1> QED BY <1>5, <1>6, <1>7, <1>8, <1>9

\* The compare-and-set of Complete: whoever wins it is alone with the lease.
LEMMA CloseVerifiedOwners ==
  ASSUME LeaseTypeOK, Owners, NEW c \in Threads, CloseVerified(c)
  PROVE  Owners'
<1> DEFINE l == call[c].lease
<1>0. At(c, "verify") /\ l \in Leases /\ UNCHANGED todo
  BY BusyLease DEF CloseVerified, At
<1>1. CASE lease[l].state # "active"
  <2>1. Return(c) /\ SameRows
    BY <1>1 DEF CloseVerified, Close, SameRows
  <2> QED BY <1>0, <2>1, ReturnOwners
<1>2. CASE lease[l].state = "active"
  <2>1. /\ call'[c].at = "moveOn" /\ call'[c].lease = l /\ KeepOthers(c)
    BY <1>2, GotoCalls DEF CloseVerified
  <2>2. /\ KeepRows({l}) /\ lease'[l].state = "completed"
        /\ lease'[l].job = lease[l].job /\ lease'[l].known = lease[l].known
    BY <1>0, <1>2, CloseRows DEF CloseVerified, LeaseStates
  <2>3. \A d \in Threads : ~At(d, "idle") => call[d].lease \in Leases /\ call[d].lease # None
    BY BusyLease, NoneIsNoLease
  <2>4. todo \subseteq Leases /\ l \notin todo
    BY <1>2 DEF LeaseTypeOK, Owners, PolicyOncePerLease
  <2> HIDE DEF l
  <2> USE DEF Owners, At, InPolicy, Completing, KeepRows, KeepOthers
  <2>5. OneActiveLease'
    BY <2>2 DEF OneActiveLease, ActiveLeases, LeasesOf
  <2>6. \A d \in Threads \ {c} : call[d].lease = l => call[d].at \in {"beat", "drop", "verify"}
    <3> SUFFICES ASSUME NEW d \in Threads \ {c}, call[d].lease = l
                 PROVE  call[d].at \in {"beat", "drop", "verify"}
      OBVIOUS
    <3>1. call[d].at \in Points /\ call[d].at # "idle"
      BY <1>0, BusyLease DEF LeaseTypeOK, ThreadState
    <3>2. call[d].at # "offer"
      BY <1>0 DEF OfferIsPrivate, l
    <3>3. ~Completing(d) /\ ~InPolicy(d)
      BY <1>2 DEF CompleterOwnsLease, PolicyOncePerLease
    <3> QED BY <3>1, <3>2, <3>3 DEF Points
  <2>7. CompleterOwnsLease'
    BY <1>0, <1>2, <2>1, <2>2, <2>3, <2>4, <2>6 DEF CompleterOwnsLease, l
  <2>8. PolicyOncePerLease'
    BY <1>0, <1>2, <2>1, <2>2, <2>3, <2>4 DEF PolicyOncePerLease
  <2>9. IdleIsClean' /\ SweeperRunsPolicy'
    BY <1>0, <2>1 DEF IdleIsClean, SweeperRunsPolicy, Threads
  <2>10. OfferIsPrivate'
    BY <1>0, <2>1, <2>2, <2>3 DEF OfferIsPrivate, l
  <2> QED BY <2>5, <2>7, <2>8, <2>9, <2>10
<1> QED BY <1>1, <1>2

LEMMA ReopenOwners ==
  ASSUME LeaseTypeOK, Owners, NEW c \in Threads, Reopen(c)
  PROVE  Owners'
<1> DEFINE l == call[c].lease
<1>0. At(c, "reopen") /\ l \in Leases /\ Return(c) /\ UNCHANGED todo
  BY BusyLease DEF Reopen, At
<1>1. CASE lease[l].state = "completed" /\ ActiveLeases(JobOf(c)) = {}
  <2>1. call'[c] = Idle /\ KeepOthers(c)
    BY <1>0, ReturnCalls
  <2>2. /\ KeepRows({l}) /\ lease'[l].state = "active"
        /\ lease'[l].job = lease[l].job /\ lease'[l].known = lease[l].known
    <3>1. lease' = [lease EXCEPT ![l].state = "active"]
      BY <1>1 DEF Reopen
    <3> QED BY <1>0, <3>1 DEF KeepRows, LeaseTypeOK, LeaseRow
  <2>3. \A d \in Threads : ~At(d, "idle") => call[d].lease \in Leases /\ call[d].lease # None
    BY BusyLease, NoneIsNoLease
  <2>4. todo \subseteq Leases /\ l \notin todo
    BY <1>0 DEF LeaseTypeOK, Owners, CompleterOwnsLease, Completing, At
  <2>5. \A d \in Threads \ {c} : call[d].lease = l => call[d].at \in {"beat", "drop", "verify"}
    BY <1>0 DEF Owners, CompleterOwnsLease, Completing, At
  <2>6. \A k \in Leases : lease[k].job = lease[l].job => lease[k].state # "active"
    BY <1>1 DEF ActiveLeases, LeasesOf, JobOf
  <2> HIDE DEF l
  <2> USE DEF Owners, At, InPolicy, Completing, KeepRows, KeepOthers, Idle
  <2>7. OneActiveLease'
    BY <2>2, <2>6 DEF OneActiveLease, ActiveLeases, LeasesOf
  <2>8. CompleterOwnsLease'
    BY <1>0, <2>1, <2>2, <2>3, <2>4, <2>5 DEF CompleterOwnsLease
  <2>9. PolicyOncePerLease'
    BY <1>0, <2>1, <2>2, <2>3, <2>4, <2>5 DEF PolicyOncePerLease
  <2>10. IdleIsClean' /\ SweeperRunsPolicy'
    BY <2>1 DEF IdleIsClean, SweeperRunsPolicy, Threads
  <2>11. OfferIsPrivate'
    BY <2>1, <2>2, <2>3 DEF OfferIsPrivate
  <2> QED BY <2>7, <2>8, <2>9, <2>10, <2>11
<1>2. CASE ~(lease[l].state = "completed" /\ ActiveLeases(JobOf(c)) = {})
  <2>1. SameRows
    BY <1>2 DEF Reopen, SameRows
  <2> QED BY <1>0, <2>1, ReturnOwners
<1> QED BY <1>1, <1>2

\* A fail call wins its lease for the failure policy.
LEMMA FailOwners ==
  ASSUME LeaseTypeOK, Owners, NEW c \in Calls, NEW l \in Leases, Fail(c, l)
  PROVE  Owners'
<1>1. /\ call'[c].at = "count" /\ call'[c].lease = l /\ KeepOthers(c)
      /\ At(c, "idle") /\ c \in Threads
  BY StartCalls DEF Fail, Threads
<1>2. /\ KeepRows({l}) /\ lease[l].state = "active" /\ lease'[l].state = "failed"
      /\ lease'[l].job = lease[l].job /\ lease'[l].known = lease[l].known /\ lease[l].known
  BY CloseRows DEF Fail, Callable, LeaseStates
<1>3. \A d \in Threads : ~At(d, "idle") => call[d].lease \in Leases /\ call[d].lease # None
  BY BusyLease, NoneIsNoLease
<1>4. todo \subseteq Leases /\ l \notin todo /\ UNCHANGED todo
  BY <1>2 DEF Fail, LeaseTypeOK, Owners, PolicyOncePerLease
<1>5. \A d \in Threads : call[d].lease = l => ~Completing(d) /\ ~InPolicy(d) /\ ~At(d, "offer")
  BY <1>2 DEF Owners, CompleterOwnsLease, PolicyOncePerLease, OfferIsPrivate
<1> USE DEF Owners, At, InPolicy, Completing, KeepRows, KeepOthers
<1>6. OneActiveLease'
  BY <1>2 DEF OneActiveLease, ActiveLeases, LeasesOf
<1>7. CompleterOwnsLease'
  BY <1>1, <1>2, <1>3, <1>4, <1>5 DEF CompleterOwnsLease
<1>8. PolicyOncePerLease'
  BY <1>1, <1>2, <1>3, <1>4, <1>5 DEF PolicyOncePerLease
<1>9. IdleIsClean' /\ SweeperRunsPolicy'
  BY <1>1, GpuLeaseAssumption DEF IdleIsClean, SweeperRunsPolicy, Threads
<1>10. OfferIsPrivate'
  BY <1>1, <1>2, <1>3, <1>5 DEF OfferIsPrivate
<1> QED BY <1>6, <1>7, <1>8, <1>9, <1>10

LEMMA ExpireOwners ==
  ASSUME LeaseTypeOK, Owners, ExpireStale
  PROVE  Owners'
<1> DEFINE stale == {l \in Leases : lease[l].overdue}
<1>1. \A l \in stale : l \in Leases /\ lease[l].state = "active"
  BY DEF LeaseTypeOK
<1>2. /\ \A l \in Leases : lease'[l].job = lease[l].job /\ lease'[l].known = lease[l].known
      /\ \A l \in stale : lease'[l].state = "expired"
      /\ KeepRows(stale)
  <2>1. lease' = [l \in Leases |-> IF l \in stale
                                   THEN [lease[l] EXCEPT !.state = "expired", !.overdue = FALSE]
                                   ELSE lease[l]]
    BY DEF ExpireStale
  <2>2. \A l \in Leases : lease[l] \in LeaseRow
    BY DEF LeaseTypeOK
  <2> HIDE DEF stale
  <2> QED BY <1>1, <2>1, <2>2 DEF KeepRows, LeaseRow
<1>3. todo' = stale /\ UNCHANGED call /\ At(Sweeper, "idle")
  BY DEF ExpireStale
<1>4. \A d \in Threads : ~At(d, "idle") => call[d].lease \in Leases
  BY BusyLease
<1> HIDE DEF stale
<1> USE DEF Owners, At, InPolicy, Completing, KeepRows
<1>5. OneActiveLease'
  BY <1>2 DEF OneActiveLease, ActiveLeases, LeasesOf
<1>6. CompleterOwnsLease'
  BY <1>1, <1>2, <1>3, <1>4 DEF CompleterOwnsLease
<1>7. PolicyOncePerLease'
  BY <1>1, <1>2, <1>3, <1>4 DEF PolicyOncePerLease
<1>8. IdleIsClean' /\ SweeperRunsPolicy' /\ OfferIsPrivate'
  BY <1>2, <1>3, <1>4 DEF IdleIsClean, SweeperRunsPolicy, OfferIsPrivate
<1> QED BY <1>5, <1>6, <1>7, <1>8

LEMMA SweepNextOwners ==
  ASSUME LeaseTypeOK, Owners, NEW l \in Leases, SweepNext(l)
  PROVE  Owners'
<1> DEFINE c == Sweeper
<1>1. /\ call'[c].at = "count" /\ call'[c].lease = l /\ KeepOthers(c)
      /\ At(c, "idle") /\ c \in Threads
  BY StartCalls DEF SweepNext, Threads
<1>2. UNCHANGED lease /\ todo' = todo \ {l} /\ l \in todo
  BY DEF SweepNext
<1>3. \A d \in Threads : ~At(d, "idle") => call[d].lease \in Leases /\ call[d].lease # None
  BY BusyLease, NoneIsNoLease
<1> USE DEF Owners, At, InPolicy, Completing, KeepOthers
<1>4. OneActiveLease'
  BY <1>2 DEF OneActiveLease, ActiveLeases, LeasesOf
<1>5. CompleterOwnsLease'
  BY <1>1, <1>2, <1>3 DEF CompleterOwnsLease
<1>6. PolicyOncePerLease'
  BY <1>1, <1>2, <1>3 DEF PolicyOncePerLease
<1>7. IdleIsClean' /\ SweeperRunsPolicy'
  BY <1>1 DEF IdleIsClean, SweeperRunsPolicy
<1>8. OfferIsPrivate'
  BY <1>1, <1>2, <1>3 DEF OfferIsPrivate
<1> QED BY <1>4, <1>5, <1>6, <1>7, <1>8

LEMMA DeleteOwners ==
  ASSUME LeaseTypeOK, Owners, NEW j \in Jobs, Delete(j)
  PROVE  Owners'
<1> DEFINE gone == LeasesOf(j)
<1>1. /\ \A l \in Leases : lease'[l].job = lease[l].job /\ lease'[l].known = lease[l].known
      /\ \A l \in gone : lease'[l].state = "deleted"
      /\ KeepRows(gone)
  <2>1. lease' = [l \in Leases |-> IF lease[l].job = j
                                   THEN [lease[l] EXCEPT !.state = "deleted", !.overdue = FALSE]
                                   ELSE lease[l]]
    BY DEF Delete, Cascade
  <2>2. \A l \in Leases : lease[l] \in LeaseRow
    BY DEF LeaseTypeOK
  <2> QED BY <2>1, <2>2 DEF KeepRows, LeaseRow, LeasesOf
<1>2. UNCHANGED <<call, todo>> /\ todo \subseteq Leases /\ gone \subseteq Leases
  BY DEF Delete, LeaseTypeOK, LeasesOf
<1>3. \A d \in Threads : ~At(d, "idle") => call[d].lease \in Leases
  BY BusyLease
<1> HIDE DEF gone
<1> USE DEF Owners, At, InPolicy, Completing, KeepRows
<1>4. OneActiveLease'
  BY <1>1, <1>2 DEF OneActiveLease, ActiveLeases, LeasesOf
<1>5. CompleterOwnsLease'
  BY <1>1, <1>2, <1>3 DEF CompleterOwnsLease
<1>6. PolicyOncePerLease'
  BY <1>1, <1>2, <1>3 DEF PolicyOncePerLease
<1>7. IdleIsClean' /\ SweeperRunsPolicy' /\ OfferIsPrivate'
  BY <1>1, <1>2, <1>3 DEF IdleIsClean, SweeperRunsPolicy, OfferIsPrivate
<1> QED BY <1>4, <1>5, <1>6, <1>7

LEMMA OwnersStep ==
  ASSUME LeaseTypeOK, Owners, [LeaseNext]_gpuVars
  PROVE  Owners'
<1>same. UNCHANGED lease => SameRows
  BY DEF SameRows
<1>1. ASSUME NEW c \in Calls, Request(c)
      PROVE  Owners'
  <2>1. ASSUME NEW l \in Leases, Complete(c, l)
        PROVE  Owners'
    <3> DEFINE point == IF status[lease[l].job] = "separating" THEN "verify" ELSE "drop"
    <3>1. Start(c, point, l, 0) /\ Callable(l) /\ SameRows /\ UNCHANGED todo
      BY <2>1, <1>same DEF Complete
    <3>2. point \in {"beat", "drop", "verify"}
      OBVIOUS
    <3> HIDE DEF point
    <3> QED BY <3>1, <3>2, StartOwners
  <2>2. ASSUME NEW l \in Leases, NEW f \in Fractions, Heartbeat(c, l, f)
        PROVE  Owners'
    <3> DEFINE p == StageProgress("separating", f)
    <3>1. SameRows
      <4>1. lease' = [lease EXCEPT ![l].overdue = FALSE]
        BY <2>2 DEF Heartbeat
      <4> QED BY <4>1 DEF SameRows, LeaseTypeOK, LeaseRow
    <3>2. Start(c, "drop", l, 0) \/ Start(c, "beat", l, p) \/ UNCHANGED call
      BY <2>2 DEF Heartbeat
    <3>3. Callable(l) /\ UNCHANGED todo
      BY <2>2 DEF Heartbeat
    <3> HIDE DEF p
    <3> QED BY <3>1, <3>2, <3>3, StartOwners, SameOwners
  <2> QED BY <1>1, <2>1, <2>2, ClaimOwners, FailOwners DEF Request
<1>2. ASSUME NEW c \in Threads, ThreadStep(c)
      PROVE  Owners'
  <2>1. CASE Beat(c) \/ RejectStems(c) \/ MoveOn(c) \/ GiveUp(c) \/ Retry(c)
    BY <2>1, <1>same, ReturnOwners DEF Beat, RejectStems, MoveOn, GiveUp, Retry
  <2>2. CASE CountFailures(c)
    <3> DEFINE point == IF Failures(JobOf(c)) >= MaxFailures THEN "giveUp" ELSE "retry"
    <3>1. Goto(c, point) /\ InPolicy(c) /\ SameRows /\ UNCHANGED todo
      BY <2>2, <1>same DEF CountFailures, InPolicy, At
    <3>2. point \in {"count", "giveUp", "retry"}
      OBVIOUS
    <3> HIDE DEF point
    <3> QED BY <3>1, <3>2, GotoOwners
  <2> QED BY <1>2, <2>1, <2>2, OfferOwners, DropOwners, CloseVerifiedOwners, ReopenOwners
          DEF ThreadStep
<1>3. ASSUME NEW c \in Threads, MoveOnFails(c)
      PROVE  Owners'
  BY <1>3, <1>same, GotoOwners DEF MoveOnFails, Completing, At
<1>4. ASSUME NEW c \in Threads, Abort(c)
      PROVE  Owners'
  BY <1>4, <1>same, ReturnOwners DEF Abort
<1>5. ASSUME NEW l \in Leases, LeaseTimesOut(l)
      PROVE  Owners'
  <2>1. lease' = [lease EXCEPT ![l].overdue = TRUE]
    BY <1>5 DEF LeaseTimesOut
  <2>2. SameRows
    BY <2>1 DEF SameRows, LeaseTypeOK, LeaseRow
  <2> QED BY <1>5, <2>2, SameOwners DEF LeaseTimesOut
<1>6. ASSUME Sweep
      PROVE  Owners'
  BY <1>6, ExpireOwners, SweepNextOwners DEF Sweep
<1>7. ASSUME Others
      PROVE  Owners'
  <2>1. ASSUME NEW j \in Jobs, HandOver(j) \/ Resume(j) \/ Abandon(j) \/ Cancel(j)
        PROVE  Owners'
    BY <2>1, <1>same, SameOwners DEF HandOver, Resume, Abandon, Cancel
  <2>2. ASSUME NEW j \in Jobs, NEW s, Drive(j, s)
        PROVE  Owners'
    BY <2>2, <1>same, SameOwners DEF Drive
  <2> QED BY <1>7, <2>1, <2>2, DeleteOwners DEF Others
<1>8. CASE UNCHANGED gpuVars
  BY <1>8, <1>same, SameOwners
<1> QED BY <1>1, <1>2, <1>3, <1>4, <1>5, <1>6, <1>7, <1>8 DEF LeaseNext, GpuStep

-----------------------------------------------------------------------------
(* What one step may do to a job and to a lease *)

LEMMA StatusStep ==
  ASSUME LeaseTypeOK, LeaseNext, NEW j \in Jobs
  PROVE  \/ status'[j] = status[j]
         \/ Live(j)
         \/ status[j] \in Statuses /\ status'[j] = "deleted"
<1> DEFINE Goal == \/ status'[j] = status[j]
                   \/ Live(j)
                   \/ status[j] \in Statuses /\ status'[j] = "deleted"
<1>1. ASSUME NEW k, NEW s, NEW p, Transition(k, s, p)
      PROVE  Goal
  BY <1>1 DEF Transition, Apply, LeaseTypeOK, JobTableTypeOK
<1>2. UNCHANGED jobVars => Goal
  OBVIOUS
<1>3. GpuStep => Goal
  BY <1>1, <1>2
  DEF GpuStep, Request, ThreadStep, Sweep, Claim, Offer, Heartbeat, DropLease, Beat, Complete,
      RejectStems, CloseVerified, MoveOn, MoveOnFails, Reopen, Fail, CountFailures, GiveUp,
      Retry, LeaseTimesOut, ExpireStale, SweepNext, Abort
<1>4. Others => Goal
  <2>1. ASSUME NEW k \in Jobs, HandOver(k) \/ Cancel(k) \/ Delete(k)
        PROVE  Goal
    BY <2>1 DEF HandOver, Cancel, CancelRow, Delete, DeleteRow, Apply, Live,
                LeaseTypeOK, JobTableTypeOK, Statuses, CpuStages, Terminal
  <2> QED BY <1>1, <1>2, <2>1 DEF Others, Resume, Abandon, Drive
<1> QED BY <1>3, <1>4 DEF LeaseNext

LEMMA LeaseStep ==
  ASSUME LeaseTypeOK, LeaseNext, NEW l \in Leases
  PROVE  /\ lease[l].state # "unused" => lease'[l].job = lease[l].job
         /\ \/ lease'[l].state = lease[l].state
            \/ lease[l].state = "unused" /\ lease'[l].state = "active"
            \/ lease[l].state = "active" /\ lease'[l].state \in {"completed", "failed", "expired"}
            \/ lease[l].state = "completed" /\ lease'[l].state = "active"
            \/ /\ lease'[l].state = "deleted" /\ lease'[l].job = lease[l].job
               /\ status'[lease[l].job] = "deleted"
<1> DEFINE Goal ==
      /\ lease[l].state # "unused" => lease'[l].job = lease[l].job
      /\ \/ lease'[l].state = lease[l].state
         \/ lease[l].state = "unused" /\ lease'[l].state = "active"
         \/ lease[l].state = "active" /\ lease'[l].state \in {"completed", "failed", "expired"}
         \/ lease[l].state = "completed" /\ lease'[l].state = "active"
         \/ /\ lease'[l].state = "deleted" /\ lease'[l].job = lease[l].job
            /\ status'[lease[l].job] = "deleted"
<1>0. lease[l] \in LeaseRow
  BY DEF LeaseTypeOK
<1>1. lease'[l] = lease[l] => Goal
  OBVIOUS
<1>2. ASSUME NEW k \in Leases, NEW s \in {"completed", "failed", "expired"}, Close(k, s)
      PROVE  Goal
  BY <1>1, <1>2, CloseRows DEF KeepRows, LeaseStates
<1>3. ASSUME NEW c \in Threads, DropLease(c) \/ CloseVerified(c)
      PROVE  Goal
  BY <1>2, <1>3 DEF DropLease, CloseVerified, At, LeaseTypeOK
<1>4. ASSUME NEW c \in Calls, NEW r \in Runners, NEW j \in Jobs, NEW k \in Leases, Claim(c, r, j, k)
      PROVE  Goal
  BY <1>1, <1>4 DEF Claim, LeaseTypeOK
<1>5. ASSUME NEW c \in Threads, Offer(c)
      PROVE  Goal
  <2>1. lease' = [lease EXCEPT ![call[c].lease].known = Live(JobOf(c))]
    BY <1>5 DEF Offer
  <2> QED BY <1>0, <2>1 DEF LeaseTypeOK, LeaseRow
<1>6. ASSUME NEW k \in Leases, NEW b \in BOOLEAN, lease' = [lease EXCEPT ![k].overdue = b]
      PROVE  Goal
  BY <1>0, <1>6 DEF LeaseTypeOK, LeaseRow
<1>7. ASSUME NEW c \in Threads, Reopen(c)
      PROVE  Goal
  <2> DEFINE k == call[c].lease
  <2>1. CASE lease' = [lease EXCEPT ![k].state = "active"] /\ lease[k].state = "completed"
    BY <1>0, <2>1 DEF LeaseTypeOK, LeaseRow
  <2> QED BY <1>1, <1>7, <2>1 DEF Reopen
<1>8. ASSUME ExpireStale
      PROVE  Goal
  <2>1. \/ lease'[l] = lease[l]
        \/ /\ lease[l].overdue
           /\ lease'[l] = [lease[l] EXCEPT !.state = "expired", !.overdue = FALSE]
    BY <1>8 DEF ExpireStale
  <2> QED BY <1>0, <2>1 DEF LeaseRow, LeaseTypeOK
<1>9. ASSUME NEW j \in Jobs, Delete(j)
      PROVE  Goal
  <2>1. \/ lease'[l] = lease[l]
        \/ /\ lease[l].job = j
           /\ lease'[l] = [lease[l] EXCEPT !.state = "deleted", !.overdue = FALSE]
    BY <1>9 DEF Delete, Cascade
  <2>2. status'[j] = "deleted"
    BY <1>9 DEF Delete, DeleteRow, Apply, LeaseTypeOK, JobTableTypeOK
  <2> QED BY <1>0, <2>1, <2>2 DEF LeaseRow
<1>10. GpuStep => Goal
  BY <1>1, <1>2, <1>3, <1>4, <1>5, <1>6, <1>7, <1>8
  DEF GpuStep, Request, ThreadStep, Sweep, Heartbeat, Beat, Complete, RejectStems, MoveOn,
      MoveOnFails, Fail, CountFailures, GiveUp, Retry, LeaseTimesOut, SweepNext, Abort
<1>11. Others => Goal
  BY <1>1, <1>9 DEF Others, HandOver, Resume, Drive, Abandon, Cancel
<1> QED BY <1>10, <1>11 DEF LeaseNext

-----------------------------------------------------------------------------
(* The ownership invariant *)

LEMMA OwnershipInit == LeaseInit => OwnershipInv
<1> SUFFICES ASSUME LeaseInit PROVE OwnershipInv
  OBVIOUS
<1>1. LeaseTypeOK
  BY TypeInit
<1>2. \A l \in Leases : lease[l].state = "unused"
  BY DEF LeaseInit, Unused
<1>3. \A c \in Threads : call[c] = Idle /\ call[c].at = "idle"
  BY DEF LeaseInit, Idle
<1>4. Owners /\ DeletedTogether
  BY <1>2, <1>3
  DEF LeaseInit, Owners, DeletedTogether, OneActiveLease, ActiveLeases, LeasesOf,
      CompleterOwnsLease, Completing, PolicyOncePerLease, InPolicy, IdleIsClean,
      OfferIsPrivate, SweeperRunsPolicy, At, Threads
<1> QED BY <1>1, <1>4, OwnershipParts

LEMMA OwnershipStep == OwnershipInv /\ [LeaseNext]_gpuVars => OwnershipInv'
<1> SUFFICES ASSUME OwnershipInv, [LeaseNext]_gpuVars
             PROVE  OwnershipInv'
  OBVIOUS
<1>1. LeaseTypeOK /\ Owners /\ DeletedTogether
  BY OwnershipParts
<1>2. LeaseTypeOK' /\ Owners'
  BY <1>1, TypeStep, OwnersStep
<1>3. DeletedTogether'
  <2>1. CASE LeaseNext
    <3> SUFFICES ASSUME NEW l \in Leases, lease'[l].state = "deleted"
                 PROVE  status'[lease'[l].job] = "deleted"
      BY DEF DeletedTogether
    <3>1. CASE lease[l].state = "deleted"
      <4>1. lease[l].job \in Jobs /\ status[lease[l].job] = "deleted"
        BY <1>1, <3>1 DEF LeaseTypeOK, DeletedTogether
      <4>2. ~Live(lease[l].job) /\ "deleted" \notin Statuses
        BY <4>1 DEF Live, Statuses, CpuStages, Terminal
      <4>3. status'[lease[l].job] = "deleted"
        BY <1>1, <2>1, <4>1, <4>2, StatusStep
      <4>4. lease'[l].job = lease[l].job
        BY <1>1, <2>1, <3>1, LeaseStep
      <4> QED BY <4>3, <4>4
    <3>2. CASE lease[l].state # "deleted"
      BY <1>1, <2>1, <3>2, LeaseStep
    <3> QED BY <3>1, <3>2
  <2>2. CASE UNCHANGED gpuVars
    BY <1>1, <2>2 DEF DeletedTogether
  <2> QED BY <2>1, <2>2
<1> QED BY <1>2, <1>3 DEF OwnershipInv, Owners

\* Who may act on a lease: the inductive invariant behind the theorems below.
THEOREM Ownership == LeaseSpec => []OwnershipInv
BY OwnershipInit, OwnershipStep, PTL DEF LeaseSpec

\* At most one lease of a job is active, whatever handlers, reopened leases
\* and the sweep do.
THEOREM LeasesExclusive == LeaseSpec => []OneActiveLease
BY Ownership, PTL DEF OwnershipInv

\* A complete call that passed its compare-and-set has its lease to itself.
THEOREM CompletionExclusive == LeaseSpec => []CompleterOwnsLease
BY Ownership, PTL DEF OwnershipInv

\* The failure policy never runs twice for one lease.
THEOREM PolicyRunsOnce == LeaseSpec => []PolicyOncePerLease
BY Ownership, PTL DEF OwnershipInv

-----------------------------------------------------------------------------
(* Action properties *)

\* A completed, failed or cancelled job is never brought back.
THEOREM EndsAreFinal == LeaseSpec => EndedStaysEnded
<1> DEFINE A == \A j \in Jobs : status[j] \in Terminal => status'[j] \in {status[j], "deleted"}
<1>1. LeaseTypeOK /\ [LeaseNext]_gpuVars => A
  <2> SUFFICES ASSUME LeaseTypeOK, [LeaseNext]_gpuVars, NEW j \in Jobs, status[j] \in Terminal
               PROVE  status'[j] \in {status[j], "deleted"}
    OBVIOUS
  <2>1. ~Live(j)
    BY DEF Live
  <2> QED BY <2>1, StatusStep
<1> QED BY <1>1, LeaseTypeCorrect, PTL DEF LeaseSpec, EndedStaysEnded

\* A counted attempt stays counted.
THEOREM CountsAreFinal == LeaseSpec => CountedStaysCounted
<1> DEFINE A == \A l \in Leases : lease[l].state \in {"failed", "expired"}
                  => lease'[l].state \in {lease[l].state, "deleted"}
<1>1. LeaseTypeOK /\ [LeaseNext]_gpuVars => A
  BY LeaseStep
<1> QED BY <1>1, LeaseTypeCorrect, PTL DEF LeaseSpec, CountedStaysCounted

\* Only a complete call whose stems were verified under its own closed lease,
\* or the resume worker, moves a waiting job on.
THEOREM VerifiedWorkOnly == LeaseSpec => OnlyVerifiedWorkMovesOn
<1> DEFINE Moved(j) == status[j] = "separating" /\ status'[j] = "finalizing"
           Allowed(j) == \/ j \in driven
                         \/ \E c \in Calls : /\ At(c, "moveOn")
                                             /\ JobOf(c) = j
                                             /\ lease[call[c].lease].state = "completed"
           A == \A j \in Jobs : Moved(j) => Allowed(j)
<1>1. OwnershipInv /\ [LeaseNext]_gpuVars => A
  <2> SUFFICES ASSUME OwnershipInv, [LeaseNext]_gpuVars, NEW j \in Jobs, Moved(j)
               PROVE  Allowed(j)
    OBVIOUS
  <2>1. LeaseTypeOK /\ Owners /\ DeletedTogether
    BY OwnershipParts
  <2>2. ASSUME NEW c \in Threads, At(c, "moveOn"), JobOf(c) = j
        PROVE  Allowed(j)
    <3>1. c \in Calls
      BY <2>1, <2>2 DEF Threads, Owners, SweeperRunsPolicy, InPolicy, At
    <3>2. call[c].lease \in Leases /\ lease[call[c].lease].state \in {"completed", "deleted"}
      BY <2>1, <2>2 DEF LeaseTypeOK, Owners, CompleterOwnsLease, Completing, At
    <3>3. lease[call[c].lease].state # "deleted"
      BY <2>1, <2>2, <3>2 DEF DeletedTogether, JobOf
    <3> QED BY <2>2, <3>1, <3>2, <3>3
  <2>3. ASSUME NEW k, NEW s, NEW p, Transition(k, s, p)
        PROVE  k = j /\ s = "finalizing"
    BY <2>1, <2>3 DEF Transition, Apply, LeaseTypeOK, JobTableTypeOK
  <2>4. ~UNCHANGED jobVars
    OBVIOUS
  <2>5. GpuStep => \E c \in Threads : MoveOn(c) \/ MoveOnFails(c)
    <3>1. ASSUME NEW c \in Threads
          PROVE  ~Offer(c) /\ ~Beat(c) /\ ~GiveUp(c) /\ ~Retry(c)
      BY <2>3 DEF Offer, Beat, GiveUp, Retry
    <3>2. ASSUME NEW c \in Threads
          PROVE  /\ ~DropLease(c) /\ ~RejectStems(c) /\ ~CloseVerified(c) /\ ~Reopen(c)
                 /\ ~CountFailures(c) /\ ~Abort(c)
      BY <2>4 DEF DropLease, RejectStems, CloseVerified, Reopen, CountFailures, Abort
    <3>3. ~Sweep /\ \A l \in Leases : ~LeaseTimesOut(l)
      BY <2>4 DEF Sweep, ExpireStale, SweepNext, LeaseTimesOut
    <3>4. ASSUME NEW c \in Calls
          PROVE  ~Request(c)
      BY <2>4 DEF Request, Claim, Complete, Fail, Heartbeat
    <3> QED BY <3>1, <3>2, <3>3, <3>4 DEF GpuStep, ThreadStep
  <2>6. GpuStep => Allowed(j)
    BY <2>2, <2>3, <2>4, <2>5 DEF MoveOn, MoveOnFails
  <2>7. Others => j \in driven
    <3>1. ASSUME NEW k \in Jobs
          PROVE  ~HandOver(k) /\ ~Cancel(k) /\ ~Delete(k) /\ ~Resume(k) /\ ~Abandon(k)
      BY <2>1, <2>4 DEF HandOver, Cancel, CancelRow, Delete, DeleteRow, Apply, Resume, Abandon,
                        LeaseTypeOK, JobTableTypeOK
    <3> QED BY <2>3, <3>1 DEF Others, Drive
  <2> QED BY <2>4, <2>6, <2>7 DEF LeaseNext
<1> QED BY <1>1, Ownership, PTL DEF LeaseSpec, OnlyVerifiedWorkMovesOn

-----------------------------------------------------------------------------
(* The verdict of a count *)

Granted == {l \in Leases : lease[l].state # "unused"}

\* Only finitely many leases were ever granted, and the others are blank.
GrantsInv ==
  /\ IsFiniteSet(Granted)
  /\ \A l \in Leases : lease[l].state = "unused" => lease[l] = Unused

\* What was granted is counted right until the verdict is acted on.
GiveUpInv == OwnershipInv /\ GrantsInv /\ GiveUpIsDue

\* Every step grants at most one lease.
LEMMA GrantsOne ==
  ASSUME LeaseTypeOK, GrantsInv, LeaseNext
  PROVE  \E k : \A l \in Leases : lease[l].state = "unused" =>
                  lease'[l] = lease[l] \/ (l = k /\ lease'[l].state # "unused")
<1>1. ASSUME NEW c \in Calls, NEW r \in Runners, NEW j \in Jobs, NEW k \in Leases, Claim(c, r, j, k)
      PROVE  \E m : \A l \in Leases : lease[l].state = "unused" =>
                      lease'[l] = lease[l] \/ (l = m /\ lease'[l].state # "unused")
  <2>1. \A l \in Leases : lease'[l] = lease[l] \/ (l = k /\ lease'[l].state # "unused")
    BY <1>1 DEF Claim, LeaseTypeOK
  <2> QED BY <2>1
<1>2. CASE ~\E c \in Calls, r \in Runners, j \in Jobs, k \in Leases : Claim(c, r, j, k)
  <2> SUFFICES ASSUME NEW l \in Leases, lease[l].state = "unused"
               PROVE  lease'[l] = lease[l]
    OBVIOUS
  <2> DEFINE Goal == lease'[l] = lease[l]
  <2>0. lease[l] = Unused
    BY DEF GrantsInv
  <2>1. ASSUME NEW k \in Leases, NEW s \in {"completed", "failed", "expired"}, Close(k, s)
        PROVE  Goal
    BY <2>1 DEF Close, Closed, LeaseTypeOK
  <2>2. ASSUME NEW c \in Threads, DropLease(c) \/ CloseVerified(c)
        PROVE  Goal
    BY <2>1, <2>2 DEF DropLease, CloseVerified, At, LeaseTypeOK
  <2>3. ASSUME NEW c \in Threads, Offer(c) \/ Reopen(c)
        PROVE  Goal
    <3>1. call[c].lease \in Leases /\ lease[call[c].lease].state # "unused"
      BY <2>3 DEF Offer, Reopen, At, LeaseTypeOK
    <3> QED BY <2>3, <3>1 DEF Offer, Reopen, LeaseTypeOK
  <2>4. ASSUME NEW k \in Leases, NEW f, NEW c, LeaseTimesOut(k) \/ Heartbeat(c, k, f)
        PROVE  Goal
    BY <2>4 DEF LeaseTimesOut, Heartbeat, Callable, LeaseTypeOK
  <2>5. ExpireStale => Goal
    BY DEF ExpireStale, LeaseTypeOK
  <2>6. ASSUME NEW j \in Jobs, Delete(j)
        PROVE  Goal
    <3>1. lease[l].job # j
      BY <2>0, GpuLeaseAssumption DEF Unused
    <3> QED BY <2>6, <3>1 DEF Delete, Cascade
  <2>7. UNCHANGED lease => Goal
    OBVIOUS
  <2> HIDE DEF Goal
  <2>8. GpuStep => Goal
    BY <1>2, <2>1, <2>2, <2>3, <2>4, <2>5, <2>7
    DEF GpuStep, Request, ThreadStep, Sweep, Beat, Complete, RejectStems, MoveOn,
        MoveOnFails, Fail, CountFailures, GiveUp, Retry, SweepNext, Abort
  <2>9. Others => Goal
    BY <2>6, <2>7 DEF Others, HandOver, Resume, Drive, Abandon, Cancel
  <2> QED BY <2>8, <2>9 DEF LeaseNext, Goal
<1> QED BY <1>1, <1>2

LEMMA GrantsStep ==
  ASSUME LeaseTypeOK, LeaseTypeOK', GrantsInv, LeaseNext
  PROVE  GrantsInv'
<1>1. PICK k : \A l \in Leases : lease[l].state = "unused" =>
                  lease'[l] = lease[l] \/ (l = k /\ lease'[l].state # "unused")
  BY GrantsOne
<1>2. Granted' \subseteq Granted \cup {k}
  BY <1>1 DEF Granted
<1>3. IsFiniteSet(Granted \cup {k})
  BY FS_AddElement DEF GrantsInv
<1>4. IsFiniteSet(Granted')
  BY <1>2, <1>3, FS_Subset
<1>5. ASSUME NEW l \in Leases, lease'[l].state = "unused"
      PROVE  lease'[l] = Unused
  <2>1. lease[l].state = "unused"
    BY <1>5, LeaseStep
  <2> QED BY <1>1, <1>5, <2>1 DEF GrantsInv
<1> QED BY <1>4, <1>5 DEF GrantsInv


\* A verdict is reached by a count, and kept until it is acted on.
LEMMA VerdictStep ==
  ASSUME LeaseTypeOK, LeaseNext, NEW c \in Threads, call'[c].at = "giveUp"
  PROVE  /\ call'[c].lease = call[c].lease /\ UNCHANGED <<status, lease>>
            /\ At(c, "count") /\ Failures(JobOf(c)) >= MaxFailures
         \/ call'[c] = call[c]
<1> DEFINE Goal == \/ /\ call'[c].lease = call[c].lease /\ UNCHANGED <<status, lease>>
                      /\ At(c, "count") /\ Failures(JobOf(c)) >= MaxFailures
                   \/ call'[c] = call[c]
<1>0. call[c] \in ThreadState /\ call \in [Threads -> ThreadState]
  BY DEF LeaseTypeOK
<1>1. UNCHANGED call => Goal
  OBVIOUS
<1>2. ASSUME NEW d \in Threads, NEW point, NEW l, NEW p, Start(d, point, l, p), point # "giveUp"
      PROVE  Goal
  BY <1>2, StartCalls DEF KeepOthers
<1>3. ASSUME NEW d \in Threads, Return(d)
      PROVE  Goal
  BY <1>3, ReturnCalls DEF KeepOthers, Idle
<1>4. ASSUME NEW d \in Threads, NEW point, Goto(d, point), point # "giveUp"
      PROVE  Goal
  BY <1>4, GotoCalls DEF KeepOthers
<1>5. ASSUME NEW d \in Threads, CountFailures(d)
      PROVE  Goal
  <2>1. CASE d = c
    <3>1. At(c, "count") /\ UNCHANGED <<status, lease>>
      BY <1>5, <2>1 DEF CountFailures
    <3>2. CASE Failures(JobOf(c)) >= MaxFailures
      <4>1. Goto(c, "giveUp")
        BY <1>5, <2>1, <3>2 DEF CountFailures
      <4> QED BY <3>1, <3>2, <4>1, GotoCalls
    <3>3. CASE ~(Failures(JobOf(c)) >= MaxFailures)
      <4>1. Goto(c, "retry")
        BY <1>5, <2>1, <3>3 DEF CountFailures
      <4> QED BY <4>1, GotoCalls
    <3> QED BY <3>2, <3>3
  <2>2. CASE d # c
    BY <1>0, <1>5, <2>2 DEF CountFailures, Goto
  <2> QED BY <2>1, <2>2
<1> HIDE DEF Goal
<1>6. ASSUME NEW d \in Calls, Request(d)
      PROVE  Goal
  <2>1. d \in Threads
    BY DEF Threads
  <2>2. ASSUME NEW l \in Leases, Complete(d, l)
        PROVE  Goal
    <3>1. PICK point \in {"verify", "drop"} : Start(d, point, l, 0)
      BY <2>2 DEF Complete
    <3> QED BY <1>2, <2>1, <3>1
  <2> QED BY <1>1, <1>2, <1>6, <2>1, <2>2 DEF Request, Claim, Heartbeat, Fail
<1>7. ASSUME NEW d \in Threads, ThreadStep(d) \/ MoveOnFails(d) \/ Abort(d)
      PROVE  Goal
  BY <1>1, <1>3, <1>4, <1>5, <1>7
  DEF ThreadStep, Offer, DropLease, Beat, RejectStems, CloseVerified, MoveOn, MoveOnFails, Reopen,
      GiveUp, Retry, Abort
<1>8. Sweep => Goal
  <2>1. Sweeper \in Threads
    BY DEF Threads
  <2> QED BY <1>1, <1>2, <2>1 DEF Sweep, ExpireStale, SweepNext
<1>9. GpuStep => Goal
  BY <1>1, <1>6, <1>7, <1>8 DEF GpuStep, LeaseTimesOut
<1>10. Others => Goal
  BY <1>1 DEF Others, HandOver, Resume, Drive, Abandon, Cancel, Delete
<1> QED BY <1>9, <1>10 DEF LeaseNext, Goal

\* No step takes a failure back, but the deletion of the job.
LEMMA FailuresGrow ==
  ASSUME OwnershipInv, OwnershipInv', GrantsInv', LeaseNext, NEW j \in Jobs, status'[j] # "deleted"
  PROVE  Failures(j) <= Failures(j)' /\ Failures(j) \in Nat /\ Failures(j)' \in Nat
<1> DEFINE F == {l \in LeasesOf(j) : lease[l].state \in {"failed", "expired"}}
           G == {l \in LeasesOf(j)' : lease'[l].state \in {"failed", "expired"}}
<1>1. F \subseteq G
  <2> SUFFICES ASSUME NEW l \in Leases, lease[l].job = j, lease[l].state \in {"failed", "expired"}
               PROVE  lease'[l].job = j /\ lease'[l].state = lease[l].state
    BY DEF LeasesOf
  <2>1. LeaseTypeOK
    BY DEF OwnershipInv
  <2> QED BY <2>1, LeaseStep
<1>2. G \subseteq Granted'
  BY DEF LeasesOf, Granted
<1>3. IsFiniteSet(Granted')
  BY DEF GrantsInv
<1>4. IsFiniteSet(G)
  BY <1>2, <1>3, FS_Subset
<1>5. IsFiniteSet(F) /\ Cardinality(F) <= Cardinality(G)
  BY <1>1, <1>4, FS_Subset
<1>6. Cardinality(F) \in Nat /\ Cardinality(G) \in Nat
  BY <1>4, <1>5, FS_CardinalityType
<1>7. Failures(j) = Cardinality(F) /\ Failures(j)' = Cardinality(G)
  BY DEF Failures
<1> QED BY <1>5, <1>6, <1>7

LEMMA GiveUpStep == GiveUpInv /\ [LeaseNext]_gpuVars => GiveUpInv'
<1> SUFFICES ASSUME GiveUpInv, [LeaseNext]_gpuVars  PROVE GiveUpInv'
  OBVIOUS
<1>1. OwnershipInv /\ OwnershipInv' /\ LeaseTypeOK /\ LeaseTypeOK'
  BY OwnershipStep DEF GiveUpInv, OwnershipInv
<1>2. CASE UNCHANGED gpuVars
  <2>1. GrantsInv'
    BY <1>2 DEF GiveUpInv, GrantsInv, Granted
  <2>2. GiveUpIsDue'
    BY <1>2 DEF GiveUpInv, GiveUpIsDue, At, JobOf, Failures, LeasesOf
  <2> QED BY <1>1, <2>1, <2>2 DEF GiveUpInv
<1>3. CASE LeaseNext
  <2>1. GrantsInv'
    BY <1>1, <1>3, GrantsStep DEF GiveUpInv
  <2>2. ASSUME NEW c \in Threads, At(c, "giveUp")'
        PROVE  (Failures(JobOf(c)) >= MaxFailures \/ status[JobOf(c)] = "deleted")'
    <3>0. PICK l, j : l = call[c].lease /\ j = lease[l].job
      OBVIOUS
    <3>1. call'[c].at = "giveUp"
      BY <2>2 DEF At
    <3>2. call'[c].lease = l /\ (At(c, "count") \/ At(c, "giveUp"))
      BY <1>1, <1>3, <3>0, <3>1, VerdictStep DEF At
    <3>3. l \in Leases /\ lease[l].state # "unused" /\ j \in Jobs
      BY <1>1, <3>0, <3>2 DEF LeaseTypeOK, At
    <3>4. lease'[l].job = j
      BY <1>1, <1>3, <3>0, <3>3, LeaseStep
    <3>5. JobOf(c) = j /\ JobOf(c)' = j
      BY <3>0, <3>2, <3>4 DEF JobOf
    <3>6. Failures(j) >= MaxFailures \/ status[j] = "deleted"
      BY <1>1, <1>3, <3>1, <3>5, VerdictStep DEF GiveUpInv, GiveUpIsDue, At
    <3>7. CASE status'[j] = "deleted"
      BY <3>5, <3>7
    <3>8. CASE status'[j] # "deleted"
      <4>1. status[j] # "deleted"
        BY <1>1, <1>3, <3>3, <3>8, StatusStep DEF Live, Statuses, CpuStages, Terminal
      <4>2. Failures(j) <= Failures(j)' /\ Failures(j) \in Nat /\ Failures(j)' \in Nat
        BY <1>1, <1>3, <2>1, <3>3, <3>8, FailuresGrow
      <4>3. Failures(j)' >= MaxFailures
        BY <3>6, <4>1, <4>2, GpuLeaseAssumption
      <4>4. Failures(JobOf(c))' = Failures(j)'
        BY <3>5 DEF Failures, LeasesOf
      <4> QED BY <4>3, <4>4
    <3> QED BY <3>7, <3>8
  <2> QED BY <1>1, <2>1, <2>2 DEF GiveUpInv, GiveUpIsDue
<1> QED BY <1>2, <1>3

LEMMA GiveUpStarts == LeaseInit => GiveUpInv
<1> SUFFICES ASSUME LeaseInit PROVE GiveUpInv
  OBVIOUS
<1>1. OwnershipInv
  BY OwnershipInit
<1>2. Granted = {} /\ \A l \in Leases : lease[l] = Unused
  BY DEF LeaseInit, Granted, Unused
<1>3. GrantsInv
  BY <1>2, FS_EmptySet DEF GrantsInv
<1>4. GiveUpIsDue
  BY DEF LeaseInit, GiveUpIsDue, At, Idle
<1> QED BY <1>1, <1>3, <1>4 DEF GiveUpInv

\* A job is failed for its attempts only while they are used up, however much
\* happened between the count and the transition.
THEOREM VerdictsAreDue == LeaseSpec => []GiveUpIsDue
<1>1. GiveUpInv => GiveUpIsDue
  BY DEF GiveUpInv
<1> QED BY <1>1, GiveUpStarts, GiveUpStep, PTL DEF LeaseSpec


-----------------------------------------------------------------------------
(* The watchdog beside the leases *)

WaitInv ==
  /\ GiveUpInv /\ WaitTypeOK
  /\ ripe \in [Watchers -> SUBSET Jobs] /\ condemned \in [Watchers -> SUBSET Jobs]

\* A step of a watchdog: at most one job fails, no lease and no call moves.
LEMMA WatchdogKeepsLeases ==
  ASSUME GiveUpInv, UNCHANGED <<leaseVars, driven>>, faults' \in 0..MaxFaults,
         UNCHANGED jobVars \/ \E j \in Jobs : Transition(j, "failed", 0)
  PROVE  GiveUpInv'
<1>1. LeaseTypeOK /\ Owners /\ DeletedTogether
  BY OwnershipParts DEF GiveUpInv
<1>2. LeaseTypeOK'
  <2>1. JobTableTypeOK'
    <3>1. JobTableTypeOK /\ "failed" \in RowStates /\ 0 \in 0..100
      BY <1>1, WrittenStatuses DEF LeaseTypeOK
    <3>2. CASE UNCHANGED jobVars
      BY <3>1, <3>2 DEF JobTableTypeOK
    <3>3. ASSUME NEW j \in Jobs, Transition(j, "failed", 0)
          PROVE  JobTableTypeOK'
      BY <3>1, <3>3, TransitionType
    <3> QED BY <3>2, <3>3
  <2> QED BY <1>1, <2>1 DEF LeaseTypeOK, At
<1>3. Owners'
  BY <1>1, SameOwners DEF SameRows
<1>4. \A j : status[j] = "deleted" /\ j \in Jobs => status'[j] = "deleted"
  BY <1>1 DEF Transition, Apply, Live, Statuses, CpuStages, Terminal, LeaseTypeOK, JobTableTypeOK
<1>5. DeletedTogether'
  <2>1. \A l \in Leases : lease[l].state = "deleted" => lease[l].job \in Jobs
    BY <1>1 DEF LeaseTypeOK
  <2> QED BY <1>1, <1>4, <2>1 DEF DeletedTogether
<1>6. OwnershipInv'
  BY <1>2, <1>3, <1>5 DEF OwnershipInv, Owners
<1>7. GrantsInv'
  BY DEF GiveUpInv, GrantsInv, Granted
<1>8. GiveUpIsDue'
  <2> SUFFICES ASSUME NEW c \in Threads, At(c, "giveUp")
               PROVE  Failures(JobOf(c)) >= MaxFailures \/ status'[JobOf(c)] = "deleted"
    BY DEF GiveUpIsDue, At, JobOf, Failures, LeasesOf
  <2>1. JobOf(c) \in Jobs
    BY <1>1, BusyJob DEF At
  <2> QED BY <1>4, <2>1 DEF GiveUpInv, GiveUpIsDue
<1> QED BY <1>6, <1>7, <1>8 DEF GiveUpInv

LEMMA WaitInit0 == WaitInit => WaitInv
<1> SUFFICES ASSUME WaitInit PROVE WaitInv
  OBVIOUS
<1>1. GiveUpInv
  BY GiveUpStarts DEF WaitInit
<1>2. WaitTypeOK
  BY <1>1 DEF WaitInit, WaitTypeOK, GiveUpInv, OwnershipInv
<1> QED BY <1>1, <1>2 DEF WaitInv, WaitInit

LEMMA WaitStays == WaitInv /\ [WaitNext]_gpuWaitVars => WaitInv'
<1> SUFFICES ASSUME WaitInv, [WaitNext]_gpuWaitVars  PROVE WaitInv'
  OBVIOUS
<1> DEFINE Lists == /\ clock \in [Watchers -> SUBSET Jobs]
                    /\ ripe \in [Watchers -> SUBSET Jobs] /\ condemned \in [Watchers -> SUBSET Jobs]
                    /\ \A w \in Watchers : ripe[w] \subseteq clock[w] /\ condemned[w] \subseteq ripe[w]
<1>1. GiveUpInv /\ Lists /\ LeaseTypeOK
  BY DEF WaitInv, WaitTypeOK
<1>2. GiveUpInv'
  <2>1. faults \in 0..MaxFaults
    BY <1>1 DEF LeaseTypeOK, JobTableTypeOK
  <2>2. ASSUME NEW w \in Watchers, NEW j \in Jobs,
               Watch(w) \/ WaitTimesOut(w, j) \/ Condemn(w, j)
        PROVE  GiveUpInv'
    <3>1. UNCHANGED <<leaseVars, driven>> /\ faults' = faults
          /\ (UNCHANGED jobVars \/ Transition(j, "failed", 0))
      BY <2>2 DEF Watch, WaitTimesOut, Condemn
    <3> QED BY <1>1, <2>1, <3>1, WatchdogKeepsLeases
  <2>3. ASSUME NEW w \in Watchers, CondemnFails(w) \/ RestartWatcher(w)
        PROVE  GiveUpInv'
    <3>1. UNCHANGED <<leaseVars, driven>> /\ UNCHANGED jobVars /\ \E kind : Fault(kind)
      BY <2>3 DEF CondemnFails, RestartWatcher
    <3>2. faults' \in 0..MaxFaults
      BY <1>1, <3>1, FaultType DEF LeaseTypeOK
    <3> QED BY <1>1, <3>1, <3>2, WatchdogKeepsLeases
  <2>4. ASSUME NEW w \in Watchers, Watch(w)
        PROVE  GiveUpInv'
    <3>1. UNCHANGED <<leaseVars, driven>> /\ UNCHANGED <<faults, jobVars>>
      BY <2>4 DEF Watch
    <3> QED BY <1>1, <2>1, <3>1, WatchdogKeepsLeases
  <2>5. CASE [LeaseNext]_gpuVars
    BY <1>1, <2>5, GiveUpStep
  <2> QED BY <2>2, <2>3, <2>4, <2>5 DEF WaitNext, WaitStep, WatchStep
<1>3. Lists'
  <2>1. ASSUME NEW w \in Watchers, Watch(w)
        PROVE  Lists'
    <3>1. Unleased \subseteq Jobs
      BY DEF Unleased, Waiting
    <3> QED BY <1>1, <2>1, <3>1 DEF Watch
  <2>2. ASSUME NEW w \in Watchers, NEW j \in Jobs, WaitTimesOut(w, j) \/ Condemn(w, j)
        PROVE  Lists'
    BY <1>1, <2>2 DEF WaitTimesOut, Condemn
  <2>3. ASSUME NEW w \in Watchers, CondemnFails(w) \/ RestartWatcher(w)
        PROVE  Lists'
    BY <1>1, <2>3 DEF CondemnFails, RestartWatcher
  <2>4. UNCHANGED waitVars => Lists'
    BY <1>1
  <2> HIDE DEF Lists
  <2> QED BY <2>1, <2>2, <2>3, <2>4 DEF WaitNext, WaitStep, WatchStep
<1>4. LeaseTypeOK'
  BY <1>2 DEF GiveUpInv, OwnershipInv
<1> QED BY <1>2, <1>3, <1>4 DEF WaitInv, WaitTypeOK

\* A watchdog condemns only jobs whose time ran out on its own clock, for any
\* number of worker processes that fail jobs beside each other.
THEOREM WatchdogCorrect == WaitSpec => []WaitTypeOK
<1>1. WaitInv => WaitTypeOK
  BY DEF WaitInv
<1> QED BY <1>1, WaitInit0, WaitStays, PTL DEF WaitSpec

\* The watchdogs, which fail jobs without a look at their leases, break nothing
\* the lease protocol promises.
THEOREM LeasesHoldBesideWatchdogs ==
  WaitSpec => [](OneActiveLease /\ CompleterOwnsLease /\ PolicyOncePerLease /\ GiveUpIsDue)
<1>1. WaitInv => OneActiveLease /\ CompleterOwnsLease /\ PolicyOncePerLease /\ GiveUpIsDue
  BY DEF WaitInv, GiveUpInv, OwnershipInv
<1> QED BY <1>1, WaitInit0, WaitStays, PTL DEF WaitSpec

=============================================================================
