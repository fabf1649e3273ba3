------------------------------- MODULE Runner -------------------------------
(***************************************************************************)
(* GPU agents at work on one job (internal/agent): lease, download,        *)
(* separate, upload by signed URL, transcribe, complete, with the heartbeat*)
(* beside the work; and what the work leaves in the directory of the job   *)
(* (internal/signed, internal/storage), which a DELETE or the retention    *)
(* sweep removes after the row.  The lease API is that of GpuLease with    *)
(* each handler one step, but complete, which verifies first and acts      *)
(* later.  The content of a file is the lease whose agent uploaded it.     *)
(***************************************************************************)
EXTENDS Faults, Sequences, FiniteSets

CONSTANTS Agents,
          Stems,        (* the stems of the recipe, in the order of upload *)
          Analysis,     (* analysis.json                                   *)
          Notes,        (* notes the adapters may find                     *)
          MaxFailures   (* failed or expired leases a job survives         *)

StemFiles == {Stems[i] : i \in DOMAIN Stems}

ASSUME RunnerAssumption ==
  /\ MaxFailures \in Nat \ {0}
  /\ Stems \in Seq(StemFiles) /\ Stems # <<>>
  /\ IsFiniteSet(Notes)

VARIABLES job,      (* the status of the job                               *)
          leases,   (* its leases, in the order of their grants            *)
          agent,    (* agent[a]: where RunOnce is                          *)
          puts,     (* uploads at the server                               *)
          disk,     (* the directory of the job                            *)
          removing  (* the row is deleted, the directory is to go          *)

runnerVars == <<job, leases, agent, puts, disk, removing, faults>>

Artifacts == {Analysis} \cup Notes
Files == StemFiles \cup Artifacts
Gone == [dir |-> FALSE, source |-> FALSE, files |-> [f \in Files |-> 0]]

Resting == [at |-> "idle", lease |-> 0, queue |-> <<>>, sent |-> {}, beating |-> FALSE, stop |-> FALSE]

At(a, point) == agent[a].at = point

\* Under the work context, which a closed lease cancels.
Working(a) == agent[a].at \in {"download", "separate", "hung", "upload", "putting"}

Goto(a, point) == agent' = [agent EXCEPT ![a].at = point]

-----------------------------------------------------------------------------
(* The lease API: one transaction or one handler each                      *)

Lost == {"failed", "expired"}
Failures(ls) == Cardinality({l \in DOMAIN ls : ls[l].state \in Lost})
Active(l) == l \in DOMAIN leases /\ leases[l].state = "active"
Closed(l, s) == [leases EXCEPT ![l].state = s]
Live == job \in {"separating", "finalizing"}

\* Mutant of Exhausted: one attempt more is waited for, that nobody is offered.
ExhaustedPast(ls) == Failures(ls) > MaxFailures

\* afterFailure gives the job up.
Exhausted(ls) == Failures(ls) >= MaxFailures

\* A lease is closed as lost, and the failure policy runs.
Loses(l, s) ==
  /\ leases' = Closed(l, s)
  /\ job' = IF Live /\ Exhausted(leases') THEN "failed" ELSE job

\* tryClaim: the job waits, nobody holds it, attempts are left.
Offered ==
  /\ job = "separating"
  /\ \A l \in DOMAIN leases : leases[l].state # "active"
  /\ Failures(leases) < MaxFailures

\* Lease: the agent gets it, or (lost) never hears of it.
Lease(a, lost) ==
  LET l == Len(leases) + 1 IN
  /\ At(a, "idle") /\ Offered
  /\ leases' = Append(leases, [agent |-> a, state |-> "active"])
  /\ IF lost
     THEN Fault("net") /\ UNCHANGED agent
     ELSE /\ agent' = [agent EXCEPT ![a] = [Resting EXCEPT !.at = "download", !.lease = l, !.beating = TRUE]]
          /\ UNCHANGED faults
  /\ UNCHANGED <<job, puts, disk, removing>>

\* No heartbeat for the TTL, which is longer than a complete call may take:
\* nobody beats, or (silent) the beats do not get through.
Silent(l) == \A a \in Agents : agent[a].lease = l => ~agent[a].beating /\ agent[a].at \notin {"complete", "verified"}

Expire(l) ==
  /\ Active(l)
  /\ IF Silent(l) THEN UNCHANGED faults ELSE Fault("silence")
  /\ Loses(l, "expired")
  /\ UNCHANGED <<agent, puts, disk, removing>>

-----------------------------------------------------------------------------
(* The heartbeat                                                           *)

\* Mutant of Told: a closed lease is written to the log.
ToldNothing(h) == h

\* 409 and 410 cancel the work context.
Told(h) == [h EXCEPT !.beating = FALSE, !.stop = TRUE]

\* The job has left separating (409, and the lease is closed), or the lease
\* is closed (410).  The 404 of a deleted lease is an error like any other.
Heartbeat(a) ==
  LET l == agent[a].lease IN
  /\ agent[a].beating /\ leases[l].state # "deleted"
  /\ ~Active(l) \/ job # "separating"
  /\ leases' = IF Active(l) THEN Closed(l, "failed") ELSE leases
  /\ agent' = [agent EXCEPT ![a] = Told(@)]
  /\ UNCHANGED <<job, puts, disk, removing, faults>>

-----------------------------------------------------------------------------
(* The work                                                                *)

\* The PUT that a waits for is given up: an answer on its way is lost.
Unheard(a) ==
  LET own == {p \in puts : p.lease = agent[a].lease} IN
  (puts \ own) \cup {[p EXCEPT !.heard = FALSE] : p \in {q \in own : q.step \notin {"ok", "error"}}}

\* process returns an error, and the heartbeat ends with it.
Fails(a) ==
  /\ agent' = [agent EXCEPT ![a].at = "fail", ![a].beating = FALSE]
  /\ puts' = Unheard(a)

\* The work context ends whatever goes on, a hung separation too.
Stop(a) ==
  /\ Working(a) /\ agent[a].stop
  /\ Fails(a)
  /\ UNCHANGED <<job, leases, disk, removing, faults>>

Download(a) ==
  /\ At(a, "download")
  /\ IF disk.source THEN Goto(a, "separate") /\ UNCHANGED puts ELSE Fails(a)
  /\ UNCHANGED <<job, leases, disk, removing, faults>>

\* The separation and the conversion of its stems.
Separate(a) ==
  /\ At(a, "separate")
  /\ agent' = [agent EXCEPT ![a].at = "upload", ![a].queue = Stems]
  /\ UNCHANGED <<job, leases, puts, disk, removing, faults>>

\* A separation has no timeout.
Hang(a) ==
  /\ At(a, "separate")
  /\ Fault("hang")
  /\ Goto(a, "hung")
  /\ UNCHANGED <<job, leases, puts, disk, removing>>

\* Mutant of Sending: the heartbeat ends with the separation.
SendingSilent(h) == [h EXCEPT !.at = "putting", !.beating = FALSE]

Sending(h) == [h EXCEPT !.at = "putting"]

Upload(a) ==
  /\ At(a, "upload") /\ agent[a].queue # <<>>
  /\ agent' = [agent EXCEPT ![a] = Sending(@)]
  /\ puts' = puts \cup {[lease |-> agent[a].lease, file |-> Head(agent[a].queue),
                         step |-> "sent", heard |-> TRUE]}
  /\ UNCHANGED <<job, leases, disk, removing, faults>>

Sent(h, f) == [h EXCEPT !.at = "upload", !.queue = Tail(@), !.sent = @ \cup {f}]

\* The answer to the PUT: the next file, or the end of the attempt.
Answered(a) ==
  \E p \in puts :
    /\ At(a, "putting") /\ p.lease = agent[a].lease /\ p.heard /\ p.step \in {"ok", "error"}
    /\ puts' = puts \ {p}
    /\ agent' = [agent EXCEPT ![a] =
                   IF p.step = "ok" THEN Sent(@, p.file) ELSE [@ EXCEPT !.at = "fail", !.beating = FALSE]]
    /\ UNCHANGED <<job, leases, disk, removing, faults>>

\* All stems are up: the adapters run, each under a timeout.  What fails is
\* left out; analysis.json says so and always exists.
Transcribe(a, found) ==
  LET order == CHOOSE s \in [1..Cardinality(found) -> found] : \A f \in found : \E i \in DOMAIN s : s[i] = f IN
  /\ At(a, "upload") /\ agent[a].queue = <<>> /\ Analysis \notin agent[a].sent
  /\ agent' = [agent EXCEPT ![a].queue = <<Analysis>> \o order]
  /\ UNCHANGED <<job, leases, puts, disk, removing, faults>>

\* Everything is up: the heartbeat is stopped and complete is called.
CallComplete(a) ==
  /\ At(a, "upload") /\ agent[a].queue = <<>> /\ Analysis \in agent[a].sent
  /\ agent' = [agent EXCEPT ![a].at = "complete", ![a].beating = FALSE]
  /\ UNCHANGED <<job, leases, puts, disk, removing, faults>>

\* verifyStem and verifyArtifact, for what the agent reports.
Matches(a) == \A f \in agent[a].sent : disk.files[f] = agent[a].lease

\* Complete up to its compare-and-set; bad stems leave the lease active.
Verify(a) ==
  LET l == agent[a].lease IN
  /\ At(a, "complete")
  /\ leases' = IF Active(l) /\ job # "separating" THEN Closed(l, "failed") ELSE leases
  /\ Goto(a, IF Active(l) /\ job = "separating" /\ Matches(a) THEN "verified" ELSE "fail")
  /\ UNCHANGED <<job, puts, disk, removing, faults>>

\* The rest of Complete, and its answer.
CloseAndMove(a) ==
  LET l == agent[a].lease IN
  /\ At(a, "verified")
  /\ leases' = IF Active(l) THEN Closed(l, "completed") ELSE leases
  /\ job' = IF Active(l) /\ Live THEN "finalizing" ELSE job
  /\ agent' = [agent EXCEPT ![a] = IF Active(l) /\ Live THEN Resting ELSE [@ EXCEPT !.at = "fail"]]
  /\ UNCHANGED <<puts, disk, removing, faults>>

\* A tool, a connection or an answer fails; an answer of complete may be lost
\* before or after it acted.
Breaks(a) ==
  /\ Working(a) \/ At(a, "complete") \/ At(a, "verified")
  /\ Fault(IF At(a, "separate") THEN "tool" ELSE "net")
  /\ Fails(a)
  /\ IF At(a, "verified") /\ Active(agent[a].lease) /\ Live
     THEN \/ leases' = Closed(agent[a].lease, "completed") /\ job' = "finalizing"
          \/ UNCHANGED <<job, leases>>
     ELSE UNCHANGED <<job, leases>>
  /\ UNCHANGED <<disk, removing>>

\* POST fail: refused for a lease that is no longer active.
Report(a) ==
  /\ At(a, "fail")
  /\ IF Active(agent[a].lease) THEN Loses(agent[a].lease, "failed") ELSE UNCHANGED <<job, leases>>
  /\ agent' = [agent EXCEPT ![a] = Resting]
  /\ UNCHANGED <<puts, disk, removing, faults>>

\* The report is lost, or the agent dies or is shut down where it is.
Vanish(a) ==
  /\ ~At(a, "idle")
  /\ Fault("crash")
  /\ agent' = [agent EXCEPT ![a] = Resting]
  /\ puts' = Unheard(a)
  /\ UNCHANGED <<job, leases, disk, removing>>

-----------------------------------------------------------------------------
(* Uploads at the server                                                   *)

\* A PUT that nobody waits for leaves nothing but its file.
Settles(p, s) ==
  puts' = (puts \ {p}) \cup (IF p.heard \/ s \in {"temp", "lost"} THEN {[p EXCEPT !.step = s]} ELSE {})

Stored(p) == [disk EXCEPT !.dir = TRUE, !.files[p.file] = p.lease]

\* Mutant of Begin: a stem is written into its own file.
BeginInPlace(p) ==
  /\ p.step = "sent"
  /\ disk' = [disk EXCEPT !.dir = TRUE, !.files[p.file] = 0]
  /\ Settles(p, "temp")
  /\ UNCHANGED <<job, leases, agent, removing, faults>>

\* putStem makes the directory and a temporary file of its own; putJSON reads
\* its small body first and writes and renames it at once.
Begin(p) ==
  /\ p.step = "sent"
  /\ IF p.file \in Artifacts
     THEN disk' = Stored(p) /\ Settles(p, "ok")
     ELSE disk' = [disk EXCEPT !.dir = TRUE] /\ Settles(p, "temp")
  /\ UNCHANGED <<job, leases, agent, removing, faults>>

\* The body is whole: the rename, which fails when the directory was removed.
Finish(p) ==
  /\ p.step \in {"temp", "lost"}
  /\ IF p.step = "temp" THEN disk' = Stored(p) /\ Settles(p, "ok") ELSE UNCHANGED disk /\ Settles(p, "error")
  /\ UNCHANGED <<job, leases, agent, removing, faults>>

\* The agent went away before the body was whole: the temporary file goes.
Cut(p) ==
  /\ ~p.heard
  /\ puts' = puts \ {p}
  /\ UNCHANGED <<job, leases, agent, disk, removing, faults>>

\* The signed URL has expired.
Refuse(p) ==
  /\ p.step = "sent"
  /\ Fault("url")
  /\ Settles(p, "error")
  /\ UNCHANGED <<job, leases, agent, disk, removing>>

-----------------------------------------------------------------------------
(* Users, retention and the worker                                         *)

Cancel ==
  /\ Live
  /\ job' = "cancelled"
  /\ UNCHANGED <<leases, agent, puts, disk, removing, faults>>

\* del and SweepRetention: the row first, its leases cascade; then the files.
Delete ==
  /\ job # "deleted"
  /\ job' = "deleted" /\ removing' = TRUE
  /\ leases' = [l \in DOMAIN leases |-> [leases[l] EXCEPT !.state = "deleted"]]
  /\ UNCHANGED <<agent, puts, disk, faults>>

RemoveJob ==
  /\ removing
  /\ removing' = FALSE /\ disk' = Gone
  /\ puts' = {[p EXCEPT !.step = IF @ = "temp" THEN "lost" ELSE @] : p \in puts}
  /\ UNCHANGED <<job, leases, agent, faults>>

\* finalize needs every stem; without analysis.json it goes on with a warning.
Finalize ==
  /\ job = "finalizing"
  /\ job' = IF \A f \in StemFiles : disk.files[f] # 0 THEN "completed" ELSE "failed"
  /\ UNCHANGED <<leases, agent, puts, disk, removing, faults>>

-----------------------------------------------------------------------------
RunnerInit ==
  /\ job = "separating" /\ leases = <<>> /\ puts = {} /\ removing = FALSE /\ faults = 0
  /\ agent = [a \in Agents |-> Resting]
  /\ disk = [Gone EXCEPT !.dir = TRUE, !.source = TRUE]

\* What an agent does by itself.
Work(a) ==
  \/ Stop(a) \/ Download(a) \/ Separate(a) \/ Upload(a) \/ Answered(a) \/ CallComplete(a)
  \/ \E found \in SUBSET Notes : Transcribe(a, found)
  \/ Verify(a) \/ CloseAndMove(a) \/ Report(a)

Serve(p) == Begin(p) \/ Finish(p)

RunnerNext ==
  \/ \E a \in Agents : \/ \E lost \in BOOLEAN : Lease(a, lost)
                       \/ Work(a) \/ Heartbeat(a) \/ Hang(a) \/ Breaks(a) \/ Vanish(a)
  \/ \E l \in DOMAIN leases : Expire(l)
  \/ \E p \in puts : Serve(p) \/ Cut(p) \/ Refuse(p)
  \/ Cancel \/ Delete \/ RemoveJob \/ Finalize

RunnerSpec == RunnerInit /\ [][RunnerNext]_runnerVars

\* Agents poll, work and beat, the server answers, the sweep runs.
RunnerFairness ==
  /\ WF_runnerVars(\E a \in Agents : Lease(a, FALSE))
  /\ \A a \in Agents : WF_runnerVars(Work(a)) /\ WF_runnerVars(Heartbeat(a))
  /\ WF_runnerVars(\E p \in puts : Serve(p))
  /\ WF_runnerVars(\E l \in DOMAIN leases : Silent(l) /\ Expire(l))

FairRunnerSpec == RunnerSpec /\ RunnerFairness

-----------------------------------------------------------------------------
(* What the agents promise                                                 *)

Puts == [lease : 1..Len(leases), file : Files, step : {"sent", "temp", "lost", "ok", "error"}, heard : BOOLEAN]

\* Types; an agent that puts waits for exactly one upload.
RunnerTypeOK ==
  /\ job \in {"separating", "finalizing", "completed", "failed", "cancelled", "deleted"}
  /\ \A l \in DOMAIN leases : leases[l].agent \in Agents
  /\ puts \subseteq Puts
  /\ \A f \in Files : disk.files[f] \in 0..Len(leases)
  /\ \A a \in Agents :
       /\ agent[a].sent \subseteq Files /\ agent[a].lease \in 0..Len(leases)
       /\ At(a, "putting") <=> \E p \in puts : p.heard /\ p.lease = agent[a].lease

\* From finalizing on every file is there and whole, whichever attempt it is
\* of, and stays so: what earlier attempts left at the server, agents that
\* lost the job and uploads that nobody waits for do not take it back.
StemsAreWhole ==
  job \in {"finalizing", "completed"} => \A f \in StemFiles \cup {Analysis} : disk.files[f] # 0

\* An attempt is counted only for a reason: when nothing went wrong and the
\* user let it run, the agent of the first lease finishes it.
HealthyWorkSucceeds ==
  faults = 0 /\ job \notin {"cancelled", "deleted"} =>
    Len(leases) <= 1 /\ Failures(leases) = 0 /\ job # "failed"

\* Attempts are counted for a reason, and what was verified stays whole.
RunnerInv == RunnerTypeOK /\ StemsAreWhole /\ HealthyWorkSucceeds

\* The job, or this lease of it, is no longer the agent's.
NotOurs(a, l) ==
  /\ agent[a].lease = l /\ l \in DOMAIN leases
  /\ job \in {"cancelled", "failed"} \/ leases[l].state \in Lost

\* An agent leaves a job that was cancelled, given up or leased to another,
\* even when its separation hangs (a deleted job tells it nothing).
LostWorkStops ==
  \A a \in Agents : \A l \in 1..MaxFailures :
    NotOurs(a, l) ~> agent[a].lease # l \/ job = "deleted"

\* A waiting job goes on or is given up, unless a separation hangs.
JobIsServed ==
  job = "separating" ~> job # "separating" \/ \E a \in Agents : At(a, "hung")

\* Once nobody is at work on it any more, a deleted job has left nothing: no
\* upload has made its directory again.
DeletedStaysDeleted ==
  job = "deleted" /\ ~removing /\ puts = {} /\ (\A a \in Agents : At(a, "idle")) => ~disk.dir
=============================================================================
