---------------------------- MODULE Runner_proofs ---------------------------
(***************************************************************************)
(* Proofs about the agents and the directory of the job, for any number of *)
(* agents, stems, notes, attempts and faults: the types, that the files of *)
(* a job that goes on to finalizing are whole, and that an attempt is      *)
(* counted for a reason.                                                   *)
(***************************************************************************)
EXTENDS Runner, FiniteSetTheorems, SequenceTheorems, TLAPS

USE DEF runnerVars

-----------------------------------------------------------------------------
(* The inductive invariant *)

Points == {"idle", "download", "separate", "hung", "upload", "putting", "complete", "verified", "fail"}
WorkPoints == {"download", "separate", "hung", "upload", "putting"}
PutSteps == {"sent", "temp", "lost", "ok", "error"}
JobStates == {"separating", "finalizing", "completed", "failed", "cancelled", "deleted"}
LeaseStates == {"active", "completed", "failed", "expired", "deleted"}

LeaseType == [agent : Agents, state : LeaseStates]
AgentType == [at : Points, lease : Nat, queue : Seq(Files), sent : SUBSET Files,
              beating : BOOLEAN, stop : BOOLEAN]
PutType == [lease : Nat, file : Files, step : PutSteps, heard : BOOLEAN]
DiskType == [dir : BOOLEAN, source : BOOLEAN, files : [Files -> Nat]]

Types ==
  /\ job \in JobStates /\ leases \in Seq(LeaseType) /\ agent \in [Agents -> AgentType]
  /\ puts \subseteq PutType /\ disk \in DiskType /\ removing \in BOOLEAN /\ faults \in Nat

\* Nothing bears a lease that was not granted.
Bounds ==
  /\ \A a \in Agents : agent[a].lease <= Len(leases)
  /\ \A p \in puts : p.lease \in 1..Len(leases)
  /\ \A f \in Files : disk.files[f] <= Len(leases)

OneEach == \A a, b \in Agents : agent[a].lease = agent[b].lease /\ agent[a].lease # 0 => a = b

\* The uploads of a lease that somebody waits for.
Heard(l) == {p \in puts : p.heard /\ p.lease = l}
Queued(s) == {s[i] : i \in DOMAIN s}

\* An agent waits for one upload, that of the head of its queue; every stem is
\* up or queued, and what is up is on the disk.
Works(h) ==
  /\ h.at = "idle" <=> h.lease = 0
  /\ h.beating => h.at \in WorkPoints
  /\ h.at = "putting" => h.queue # <<>> /\ \E p : Heard(h.lease) = {p} /\ p.file = Head(h.queue)
  /\ h.at # "putting" => Heard(h.lease) = {}
  /\ h.at \in {"upload", "putting", "complete", "verified"} => StemFiles \subseteq h.sent \cup Queued(h.queue)
  /\ h.at \in {"complete", "verified"} => h.queue = <<>> /\ Analysis \in h.sent
  /\ job # "deleted" => \A f \in h.sent : disk.files[f] # 0

\* What was stored stays until the job is deleted.
Kept ==
  /\ removing => job = "deleted"
  /\ \A p \in puts : p.step = "ok" /\ job # "deleted" => disk.files[p.file] # 0
  /\ StemsAreWhole

\* While nothing goes wrong there is one attempt, under way or completed.
UnderWay ==
  /\ Len(leases) = 1 /\ leases[1].state = "active" /\ job = "separating"
  /\ \E a \in Agents : agent[a].lease = 1
Through ==
  /\ Len(leases) = 1 /\ leases[1].state = "completed" /\ job \in {"finalizing", "completed"}
  /\ \A a \in Agents : agent[a].at = "idle"
Fine ==
  /\ disk.source /\ \A p \in puts : p.step \notin {"lost", "error"}
  /\ \A a \in Agents : /\ ~agent[a].stop /\ agent[a].at \notin {"fail", "hung"}
                       /\ agent[a].at \in WorkPoints => agent[a].beating
  /\ (Len(leases) = 0 /\ job = "separating") \/ UnderWay \/ Through
Healthy == faults = 0 /\ job \notin {"cancelled", "deleted"} => Fine

RunnerIInv ==
  Types /\ Bounds /\ OneEach /\ (\A a \in Agents : Works(agent[a])) /\ Kept /\ Healthy

-----------------------------------------------------------------------------
(* Frames *)

LEMMA FilesOf == StemFiles \subseteq Files /\ Analysis \in Files
BY DEF Files, Artifacts

\* A fault ends what is said of healthy runs.
LEMMA Unhealthy ==
  ASSUME faults \in Nat, NEW kind, Fault(kind)
  PROVE  faults' \in Nat /\ Healthy'
BY DEF Fault, Healthy

\* A step of one agent, which does not touch the disk.
LEMMA AgentMoves ==
  ASSUME RunnerIInv, NEW a \in Agents, NEW h \in AgentType, agent' = [agent EXCEPT ![a] = h],
         UNCHANGED <<disk, removing>>, faults' \in Nat, job' \in JobStates,
         leases' \in Seq(LeaseType), Len(leases) <= Len(leases'),
         h.lease <= Len(leases'), h.lease \in {0, agent[a].lease} \/ h.lease > Len(leases),
         puts' \subseteq PutType,
         \A q \in puts' : /\ q.lease \in 1..Len(leases')
                          /\ q.step = "ok" => \E p \in puts : p.step = "ok" /\ p.file = q.file,
         \A l : l # agent[a].lease => Heard(l)' = Heard(l),
         job' = "deleted" <=> job = "deleted",
         job' \in {"finalizing", "completed"} =>
           \/ job \in {"finalizing", "completed"}
           \/ \A f \in StemFiles \cup {Analysis} : disk.files[f] # 0,
         Works(h)', Healthy'
  PROVE  RunnerIInv'
<1>1. Types /\ Bounds /\ OneEach /\ Kept /\ \A b \in Agents : Works(agent[b])
  BY DEF RunnerIInv
<1>2. /\ agent \in [Agents -> AgentType] /\ agent'[a] = h
      /\ \A b \in Agents : b # a => agent'[b] = agent[b]
  BY <1>1 DEF Types
<1>3. Len(leases) \in Nat /\ Len(leases') \in Nat
  BY <1>1 DEF Types
<1>4. Types'
  BY <1>1, <1>2 DEF Types
<1>5. Bounds'
  <2>1. \A b \in Agents : agent'[b].lease <= Len(leases')
    BY <1>1, <1>2, <1>3 DEF Bounds, AgentType
  <2>2. \A f \in Files : disk.files[f] <= Len(leases')
    BY <1>1, <1>3 DEF Bounds, Types, DiskType
  <2> QED BY <2>1, <2>2 DEF Bounds
<1>6. OneEach'
  <2>1. \A b, c \in Agents : agent'[b].lease = agent'[c].lease /\ agent'[b].lease # 0 => b = c
    <3>1. \A b \in Agents : agent[b].lease \in Nat /\ agent[b].lease <= Len(leases)
      BY <1>1, <1>2 DEF Bounds, AgentType
    <3>2. h.lease \in Nat
      BY DEF AgentType
    <3> QED BY <1>1, <1>2, <1>3, <3>1, <3>2 DEF OneEach
  <2> QED BY <2>1 DEF OneEach
<1>7. ASSUME NEW b \in Agents  PROVE Works(agent[b])'
  <2>1. CASE b = a
    BY <1>2, <2>1 DEF Works, Heard
  <2>2. CASE b # a
    <3>1. agent'[b] = agent[b] /\ Works(agent[b])
      BY <1>1, <1>2, <2>2
    <3>2. PICK g : g = agent[b]
      OBVIOUS
    <3>3. Heard(g.lease)' = Heard(g.lease)
      <4>1. CASE g.lease # agent[a].lease
        BY <4>1
      <4>2. CASE g.lease = agent[a].lease
        <5>1. g.lease = 0
          BY <1>1, <2>2, <3>2, <4>2 DEF OneEach
        <5> QED BY <1>1, <1>3, <5>1 DEF Heard, Bounds
      <4> QED BY <4>1, <4>2
    <3>4. Works(g)'
      BY <3>1, <3>2, <3>3 DEF Works
    <3> QED BY <3>1, <3>2, <3>4 DEF Works, Heard
  <2> QED BY <2>1, <2>2
<1>8. Kept'
  <2>1. \A q \in puts' : q.step = "ok" /\ job' # "deleted" => disk'.files[q.file] # 0
    BY <1>1 DEF Kept
  <2>2. StemsAreWhole'
    BY <1>1 DEF Kept, StemsAreWhole
  <2> QED BY <1>1, <2>1, <2>2 DEF Kept
<1> QED BY <1>4, <1>5, <1>6, <1>7, <1>8 DEF RunnerIInv

\* Somebody waits for the same files as before.
SameHeard == \A l : /\ Heard(l) = {} => Heard(l)' = {}
                    /\ \A x : Heard(l) = {x} => \E y : Heard(l)' = {y} /\ y.file = x.file

\* A step of the server, the lease API or a user: no agent moves.
LEMMA ServerMoves ==
  ASSUME RunnerIInv, agent' = agent, faults' \in Nat, job' \in JobStates, removing' \in BOOLEAN,
         leases' \in Seq(LeaseType), Len(leases') = Len(leases),
         disk' \in DiskType, \A f \in Files : disk'.files[f] <= Len(leases),
         job' # "deleted" => job # "deleted" /\ \A f \in Files : disk.files[f] # 0 => disk'.files[f] # 0,
         puts' \subseteq PutType,
         \A q \in puts' : /\ q.lease \in 1..Len(leases)
                          /\ q.step = "ok" /\ job' # "deleted" => disk'.files[q.file] # 0,
         SameHeard, removing' => job' = "deleted",
         job' \in {"finalizing", "completed"} =>
           job \in {"finalizing", "completed"} \/ \A f \in StemFiles \cup {Analysis} : disk.files[f] # 0,
         Healthy'
  PROVE  RunnerIInv'
<1>1. Types /\ Bounds /\ OneEach /\ Kept /\ \A b \in Agents : Works(agent[b]) /\ agent[b] \in AgentType
  BY DEF RunnerIInv, Types
<1>2. Types' /\ Bounds' /\ OneEach'
  BY <1>1 DEF Types, Bounds, OneEach
<1>3. ASSUME NEW b \in Agents  PROVE Works(agent[b])'
  <2>1. PICK g : g = agent[b]
    OBVIOUS
  <2>2. Works(g) /\ g.sent \subseteq Files /\ agent'[b] = g
    BY <1>1, <2>1 DEF AgentType
  <2>3. /\ Heard(g.lease) = {} => Heard(g.lease)' = {}
        /\ \A x : Heard(g.lease) = {x} => \E y : Heard(g.lease)' = {y} /\ y.file = x.file
    BY DEF SameHeard
  <2>4. Works(g)'
    BY <2>2, <2>3 DEF Works
  <2> QED BY <2>1, <2>2, <2>4 DEF Works, Heard
<1>4. Kept'
  BY <1>1, FilesOf DEF Kept, StemsAreWhole
<1> QED BY <1>2, <1>3, <1>4 DEF RunnerIInv

-----------------------------------------------------------------------------
(* Uploads *)

\* An upload with another step, or one that nobody waits for any more.
LEMMA PutStep ==
  ASSUME NEW p \in PutType, NEW s \in PutSteps
  PROVE  /\ [p EXCEPT !.step = s] \in PutType
         /\ [p EXCEPT !.step = s].lease = p.lease /\ [p EXCEPT !.step = s].file = p.file
         /\ [p EXCEPT !.step = s].step = s /\ ([p EXCEPT !.step = s].heard <=> p.heard)
BY DEF PutType

LEMMA PutUnheard ==
  ASSUME NEW p \in PutType
  PROVE  /\ [p EXCEPT !.heard = FALSE] \in PutType
         /\ [p EXCEPT !.heard = FALSE].lease = p.lease /\ [p EXCEPT !.heard = FALSE].file = p.file
         /\ [p EXCEPT !.heard = FALSE].step = p.step /\ ~[p EXCEPT !.heard = FALSE].heard
BY DEF PutType

\* The attempt of an agent is over: nobody waits for its uploads.
LEMMA UnheardPuts ==
  ASSUME puts \subseteq PutType, NEW a \in Agents, puts' = Unheard(a)
  PROVE  /\ puts' \subseteq PutType
         /\ \A q \in puts' : \E p \in puts : q.lease = p.lease /\ q.file = p.file /\ q.step = p.step
         /\ \A l : l # agent[a].lease => Heard(l)' = Heard(l)
         /\ \A l : l = agent[a].lease => Heard(l)' = {}
<1> DEFINE e(p) == [p EXCEPT !.heard = FALSE]
<1>1. \A p \in puts : e(p) \in PutType /\ e(p).lease = p.lease /\ e(p).file = p.file
                      /\ e(p).step = p.step /\ ~e(p).heard
  BY PutUnheard
<1>2. PICK l : l = agent[a].lease
  OBVIOUS
<1>3. PICK own : own = {p \in puts : p.lease = l}
  OBVIOUS
<1>4. PICK T : T = {q \in own : q.step \notin {"ok", "error"}}
  OBVIOUS
<1>5. puts' = (puts \ own) \cup {e(p) : p \in T}
  BY <1>2, <1>3, <1>4 DEF Unheard
<1> HIDE DEF e
<1>6. T \subseteq puts /\ \A p \in T : p.lease = l
  BY <1>3, <1>4
<1>7. puts' \subseteq PutType
  BY <1>1, <1>5, <1>6
<1>8. \A q \in puts' : \E p \in puts : q.lease = p.lease /\ q.file = p.file /\ q.step = p.step
  BY <1>1, <1>5, <1>6
<1>9. \A k : k # l => Heard(k)' = Heard(k)
  <2>1. \A q \in puts' : q.lease # l => q \in puts
    BY <1>1, <1>5, <1>6
  <2>2. \A q \in puts : q.lease # l => q \in puts'
    BY <1>3, <1>5
  <2> QED BY <2>1, <2>2 DEF Heard
<1>10. Heard(l)' = {}
  <2>1. \A q \in puts' : q.lease = l => ~q.heard
    BY <1>1, <1>3, <1>5, <1>6
  <2> QED BY <2>1 DEF Heard
<1> QED BY <1>2, <1>7, <1>8, <1>9, <1>10

LEMMA SettledPuts ==
  ASSUME puts \subseteq PutType, NEW p \in puts, NEW s \in PutSteps, Settles(p, s)
  PROVE  /\ puts' \subseteq PutType /\ SameHeard
         /\ \A q \in puts' : q \in puts \/ (q.lease = p.lease /\ q.file = p.file /\ q.step = s)
<1>1. PICK q : q = [p EXCEPT !.step = s]
  OBVIOUS
<1>2. q \in PutType /\ q.lease = p.lease /\ q.file = p.file /\ q.step = s /\ (q.heard <=> p.heard)
  BY <1>1, PutStep
<1>3. PICK new : new = IF p.heard \/ s \in {"temp", "lost"} THEN {q} ELSE {}
  OBVIOUS
<1>4. puts' = (puts \ {p}) \cup new /\ new \subseteq {q} /\ (p.heard => new = {q})
  BY <1>1, <1>3 DEF Settles
<1>5. SameHeard
  <2>1. ASSUME NEW l, Heard(l) = {}  PROVE Heard(l)' = {}
    BY <1>2, <1>4, <2>1 DEF Heard
  <2>2. ASSUME NEW l, NEW x, Heard(l) = {x}  PROVE \E y : Heard(l)' = {y} /\ y.file = x.file
    <3>1. CASE p \in Heard(l)
      <4>1. p = x /\ p.heard /\ p.lease = l
        BY <2>2, <3>1 DEF Heard
      <4>2. Heard(l)' = {q}
        BY <1>2, <1>4, <2>2, <4>1 DEF Heard
      <4> QED BY <1>2, <4>1, <4>2
    <3>2. CASE p \notin Heard(l)
      <4>1. Heard(l)' = {x}
        BY <1>2, <1>4, <2>2, <3>2 DEF Heard
      <4> QED BY <4>1
    <3> QED BY <3>1, <3>2
  <2> QED BY <2>1, <2>2 DEF SameHeard
<1> QED BY <1>2, <1>4, <1>5

-----------------------------------------------------------------------------
(* Leases *)

LEMMA ClosedLeases ==
  ASSUME leases \in Seq(LeaseType), NEW l \in DOMAIN leases, NEW s \in LeaseStates
  PROVE  /\ Closed(l, s) \in Seq(LeaseType) /\ Len(Closed(l, s)) = Len(leases)
         /\ Closed(l, s)[l].state = s
<1>1. PICK e : e = [leases[l] EXCEPT !.state = s]
  OBVIOUS
<1>2. l \in 1..Len(leases) /\ leases[l] \in LeaseType
  BY LenProperties, ElementOfSeq
<1>3. e \in LeaseType /\ e.state = s
  BY <1>1, <1>2 DEF LeaseType
<1>4. Closed(l, s) = [leases EXCEPT ![l] = e]
  BY <1>1, <1>2 DEF Closed
<1> QED BY <1>2, <1>3, <1>4, ExceptSeq

LEMMA GrantedLease ==
  ASSUME leases \in Seq(LeaseType), NEW a \in Agents
  PROVE  /\ Append(leases, [agent |-> a, state |-> "active"]) \in Seq(LeaseType)
         /\ Len(Append(leases, [agent |-> a, state |-> "active"])) = Len(leases) + 1
         /\ Append(leases, [agent |-> a, state |-> "active"])[Len(leases) + 1].state = "active"
<1>1. PICK e : e = [agent |-> a, state |-> "active"]
  OBVIOUS
<1>2. e \in LeaseType /\ e.state = "active"
  BY <1>1 DEF LeaseType, LeaseStates
<1>3. Append(leases, e) \in Seq(LeaseType) /\ Len(Append(leases, e)) = Len(leases) + 1
      /\ Append(leases, e)[Len(leases) + 1] = e
  BY <1>2
<1> QED BY <1>1, <1>2, <1>3

LEMMA LosesLease ==
  ASSUME RunnerIInv, NEW l \in DOMAIN leases, NEW s \in Lost, Loses(l, s)
  PROVE  /\ leases' \in Seq(LeaseType) /\ Len(leases') = Len(leases)
         /\ job' \in JobStates /\ (job' # job => job' = "failed" /\ Live)
<1>1. leases \in Seq(LeaseType) /\ job \in JobStates /\ s \in LeaseStates
  BY DEF RunnerIInv, Types, Lost, LeaseStates
<1> QED BY <1>1, ClosedLeases DEF Loses, JobStates

-----------------------------------------------------------------------------
(* Healthy runs *)

\* A step of an agent at work in which nothing goes wrong.
LEMMA HealthyMoves ==
  ASSUME RunnerIInv, NEW a \in Agents, NEW h \in AgentType, agent' = [agent EXCEPT ![a] = h],
         UNCHANGED <<job, leases, disk, faults>>, agent[a].at # "idle", h.lease = agent[a].lease,
         Fine => /\ ~h.stop /\ h.at \notin {"fail", "hung"} /\ (h.at \in WorkPoints => h.beating)
                 /\ \A q \in puts' : q.step \notin {"lost", "error"}
  PROVE  Healthy'
<1> SUFFICES ASSUME Fine  PROVE Fine'
  BY DEF RunnerIInv, Healthy
<1>1. /\ agent \in [Agents -> AgentType] /\ agent'[a] = h
      /\ \A b \in Agents : b # a => agent'[b] = agent[b]
  BY DEF RunnerIInv, Types
<1>2. UnderWay
  <2>1. agent[a].lease # 0 /\ agent[a].lease <= Len(leases) /\ agent[a].lease \in Nat
    BY <1>1 DEF RunnerIInv, Works, Bounds, AgentType
  <2> QED BY <2>1 DEF Fine, Through
<1>3. UnderWay'
  BY <1>1, <1>2 DEF UnderWay
<1> QED BY <1>1, <1>3 DEF Fine

\* The lease of an agent at work in a healthy run is active.
LEMMA HealthyLease ==
  ASSUME RunnerIInv, Fine, NEW a \in Agents, agent[a].at # "idle"
  PROVE  /\ agent[a].lease = 1 /\ Active(1) /\ job = "separating" /\ UnderWay
<1>1. agent[a].lease # 0 /\ agent[a].lease <= Len(leases) /\ agent[a].lease \in Nat
  BY DEF RunnerIInv, Works, Bounds, AgentType, Types
<1>2. UnderWay
  BY <1>1 DEF Fine, Through
<1>3. leases \in Seq(LeaseType)
  BY DEF RunnerIInv, Types
<1> QED BY <1>1, <1>2, <1>3 DEF UnderWay, Active

-----------------------------------------------------------------------------
(* The agents *)

LEMMA AgentTyped ==
  ASSUME RunnerIInv, NEW a \in Agents
  PROVE  /\ agent \in [Agents -> AgentType] /\ agent[a] \in AgentType /\ Works(agent[a])
         /\ agent[a].lease \in Nat /\ agent[a].lease <= Len(leases) /\ Len(leases) \in Nat
         /\ leases \in Seq(LeaseType) /\ puts \subseteq PutType /\ job \in JobStates /\ faults \in Nat
         /\ \A p \in puts : p.lease \in 1..Len(leases) /\ p.file \in Files
BY DEF RunnerIInv, Types, Bounds, AgentType, PutType

\* The agent goes on to a point, or fails.
Moved(a, h, point) ==
  /\ agent' = [agent EXCEPT ![a] = h] /\ h.at = point /\ h.lease = agent[a].lease
  /\ h.queue = agent[a].queue /\ h.sent = agent[a].sent /\ (h.stop <=> agent[a].stop)

LEMMA Going ==
  ASSUME agent \in [Agents -> AgentType], NEW a \in Agents, NEW point \in Points,
         agent' = [agent EXCEPT ![a].at = point]
  PROVE  \E h \in AgentType : Moved(a, h, point) /\ (h.beating <=> agent[a].beating)
<1>1. PICK g \in AgentType : g = agent[a]
  OBVIOUS
<1>2. PICK h : h = [g EXCEPT !.at = point]
  OBVIOUS
<1>3. /\ h \in AgentType /\ h.at = point /\ h.lease = g.lease /\ h.queue = g.queue
      /\ h.sent = g.sent /\ (h.beating <=> g.beating) /\ (h.stop <=> g.stop)
  BY <1>2 DEF AgentType
<1>4. agent' = [agent EXCEPT ![a] = h]
  BY <1>1, <1>2
<1> QED BY <1>1, <1>3, <1>4 DEF Moved

LEMMA Quieting ==
  ASSUME agent \in [Agents -> AgentType], NEW a \in Agents, NEW point \in Points,
         agent' = [agent EXCEPT ![a].at = point, ![a].beating = FALSE]
  PROVE  \E h \in AgentType : Moved(a, h, point) /\ ~h.beating
<1>1. PICK g \in AgentType : g = agent[a]
  OBVIOUS
<1>2. PICK h : h = [g EXCEPT !.at = point, !.beating = FALSE]
  OBVIOUS
<1>3. /\ h \in AgentType /\ h.at = point /\ h.lease = g.lease /\ h.queue = g.queue
      /\ h.sent = g.sent /\ ~h.beating /\ (h.stop <=> g.stop)
  BY <1>2 DEF AgentType
<1>4. agent' = [agent EXCEPT ![a] = h]
  BY <1>1, <1>2
<1> QED BY <1>1, <1>3, <1>4 DEF Moved

\* A step that changes nothing but the agent.
LEMMA AgentAlone ==
  ASSUME RunnerIInv, NEW a \in Agents, NEW h \in AgentType, agent' = [agent EXCEPT ![a] = h],
         UNCHANGED <<job, leases, puts, disk, removing>>, faults' \in Nat,
         h.lease = agent[a].lease, Works(h), Healthy'
  PROVE  RunnerIInv'
<1>1. /\ leases \in Seq(LeaseType) /\ puts \subseteq PutType /\ job \in JobStates
      /\ h.lease <= Len(leases) /\ Len(leases) \in Nat /\ \A p \in puts : p.lease \in 1..Len(leases)
  BY AgentTyped
<1>2. \A l : Heard(l)' = Heard(l)
  BY DEF Heard
<1>3. Works(h)'
  BY <1>2 DEF Works
<1>4. \A q \in puts' : /\ q.lease \in 1..Len(leases')
                       /\ q.step = "ok" => \E p \in puts : p.step = "ok" /\ p.file = q.file
  BY <1>1
<1>5. /\ leases' \in Seq(LeaseType) /\ Len(leases) <= Len(leases') /\ h.lease <= Len(leases')
      /\ h.lease \in {0, agent[a].lease} /\ job' \in JobStates /\ puts' \subseteq PutType
      /\ (job' = "deleted" <=> job = "deleted")
      /\ (job' \in {"finalizing", "completed"} => job \in {"finalizing", "completed"})
  BY <1>1
<1>6. \A l : l # agent[a].lease => Heard(l)' = Heard(l)
  BY <1>2
<1> QED BY <1>3, <1>4, <1>5, <1>6, AgentMoves

\* The attempt fails: what goes on at the server is heard by nobody.
LEMMA FailingMoves ==
  ASSUME RunnerIInv, NEW a \in Agents, agent[a].at # "idle", Fails(a),
         UNCHANGED <<disk, removing>>, faults' \in Nat, job' \in JobStates,
         leases' \in Seq(LeaseType), Len(leases') = Len(leases),
         job' = "deleted" <=> job = "deleted",
         job' \in {"finalizing", "completed"} =>
           \/ job \in {"finalizing", "completed"}
           \/ \A f \in StemFiles \cup {Analysis} : disk.files[f] # 0,
         Healthy'
  PROVE  RunnerIInv'
<1>1. PICK g : g = agent[a]
  OBVIOUS
<1>2. /\ agent \in [Agents -> AgentType] /\ Works(g) /\ g.at # "idle" /\ g.lease <= Len(leases)
      /\ Len(leases) \in Nat /\ puts \subseteq PutType /\ g.lease = agent[a].lease
      /\ \A p \in puts : p.lease \in 1..Len(leases)
  BY <1>1, AgentTyped
<1>3. PICK h \in AgentType : Moved(a, h, "fail") /\ ~h.beating
  <2>1. "fail" \in Points /\ agent' = [agent EXCEPT ![a].at = "fail", ![a].beating = FALSE]
    BY DEF Points, Fails
  <2> QED BY <1>1, <1>2, <2>1, Quieting
<1>4. /\ puts' \subseteq PutType
      /\ \A q \in puts' : \E p \in puts : q.lease = p.lease /\ q.file = p.file /\ q.step = p.step
      /\ \A l : l # agent[a].lease => Heard(l)' = Heard(l)
      /\ \A l : l = agent[a].lease => Heard(l)' = {}
  BY <1>2, UnheardPuts DEF Fails
<1>5. /\ agent' = [agent EXCEPT ![a] = h] /\ h.at = "fail" /\ h.lease = g.lease /\ h.sent = g.sent
      /\ Heard(h.lease)' = {}
  BY <1>1, <1>3, <1>4 DEF Moved
<1>6. Works(h)'
  BY <1>2, <1>3, <1>5 DEF Works
<1>7. \A q \in puts' : /\ q.lease \in 1..Len(leases')
                       /\ q.step = "ok" => \E p \in puts : p.step = "ok" /\ p.file = q.file
  <2>1. \A q \in puts' : \E p \in puts : p.lease = q.lease /\ p.file = q.file /\ p.step = q.step
    BY <1>4
  <2> QED BY <1>2, <2>1
<1>8. /\ Len(leases) <= Len(leases') /\ h.lease <= Len(leases') /\ h.lease \in {0, agent[a].lease}
  BY <1>2, <1>5
<1> QED BY <1>4, <1>5, <1>6, <1>7, <1>8, AgentMoves

LEMMA NotFine ==
  ASSUME RunnerIInv, ~Fine, faults' = faults, job' \notin {"cancelled", "deleted"} => job \notin {"cancelled", "deleted"}
  PROVE  Healthy'
BY DEF RunnerIInv, Healthy

-----------------------------------------------------------------------------
(* The work of an agent *)

LEMMA StopStep ==
  ASSUME RunnerIInv, NEW a \in Agents, Stop(a)
  PROVE  RunnerIInv'
<1>1. /\ agent[a].at # "idle" /\ Fails(a) /\ UNCHANGED <<job, leases, disk, removing, faults>>
  BY DEF Stop, Working
<1>2. Healthy'
  BY <1>1, NotFine DEF Stop, Fine
<1>3. faults' \in Nat /\ job' \in JobStates /\ leases' \in Seq(LeaseType) /\ Len(leases') = Len(leases)
  BY <1>1, AgentTyped
<1> QED BY <1>1, <1>2, <1>3, FailingMoves

LEMMA DownloadStep ==
  ASSUME RunnerIInv, NEW a \in Agents, Download(a)
  PROVE  RunnerIInv'
<1>1. /\ agent \in [Agents -> AgentType] /\ Works(agent[a]) /\ agent[a].at = "download"
      /\ UNCHANGED <<job, leases, disk, removing, faults>> /\ faults \in Nat
  BY AgentTyped DEF Download, At
<1>2. CASE disk.source
  <2>1. puts' = puts /\ agent' = [agent EXCEPT ![a].at = "separate"] /\ "separate" \in Points
    BY <1>2 DEF Download, Goto, Points
  <2>2. PICK h \in AgentType : Moved(a, h, "separate") /\ (h.beating <=> agent[a].beating)
    BY <1>1, <2>1, Going
  <2>3. Works(h) /\ h.lease = agent[a].lease /\ agent' = [agent EXCEPT ![a] = h]
    BY <1>1, <2>2 DEF Works, Moved, WorkPoints
  <2>4. Fine => /\ ~h.stop /\ h.at \notin {"fail", "hung"} /\ (h.at \in WorkPoints => h.beating)
                /\ \A q \in puts' : q.step \notin {"lost", "error"}
    BY <1>1, <2>1, <2>2 DEF Fine, Moved, WorkPoints
  <2>5. Healthy'
    BY <1>1, <2>3, <2>4, HealthyMoves
  <2> QED BY <1>1, <2>1, <2>3, <2>5, AgentAlone
<1>3. CASE ~disk.source
  <2>1. Fails(a)
    BY <1>3 DEF Download
  <2>2. Healthy'
    BY <1>1, <1>3, NotFine DEF Fine
  <2>3. faults' \in Nat /\ job' \in JobStates /\ leases' \in Seq(LeaseType) /\ Len(leases') = Len(leases)
    BY <1>1, AgentTyped
  <2> QED BY <1>1, <2>1, <2>2, <2>3, FailingMoves
<1> QED BY <1>2, <1>3

LEMMA HangStep ==
  ASSUME RunnerIInv, NEW a \in Agents, Hang(a)
  PROVE  RunnerIInv'
<1>1. /\ agent \in [Agents -> AgentType] /\ Works(agent[a]) /\ agent[a].at = "separate"
      /\ UNCHANGED <<job, leases, puts, disk, removing>> /\ agent' = [agent EXCEPT ![a].at = "hung"]
      /\ faults \in Nat /\ "hung" \in Points
  BY AgentTyped DEF Hang, At, Goto, Points
<1>2. PICK h \in AgentType : Moved(a, h, "hung") /\ (h.beating <=> agent[a].beating)
  BY <1>1, Going
<1>3. Works(h) /\ h.lease = agent[a].lease /\ agent' = [agent EXCEPT ![a] = h]
  BY <1>1, <1>2 DEF Works, Moved, WorkPoints
<1>4. faults' \in Nat /\ Healthy'
  BY <1>1, Unhealthy DEF Hang
<1> QED BY <1>1, <1>3, <1>4, AgentAlone

\* Every stem is queued.
LEMMA SeparateStep ==
  ASSUME RunnerIInv, NEW a \in Agents, Separate(a)
  PROVE  RunnerIInv'
<1>1. /\ agent \in [Agents -> AgentType] /\ agent[a] \in AgentType /\ Works(agent[a])
      /\ agent[a].at = "separate" /\ faults \in Nat
      /\ UNCHANGED <<job, leases, puts, disk, removing, faults>>
  BY AgentTyped DEF Separate, At
<1>2. PICK h : h = [agent[a] EXCEPT !.at = "upload", !.queue = Stems]
  OBVIOUS
<1>3. agent' = [agent EXCEPT ![a] = h]
  BY <1>1, <1>2 DEF Separate
<1>4. Stems \in Seq(Files) /\ Queued(Stems) = StemFiles
  <2>1. Stems \in Seq(StemFiles) /\ StemFiles \subseteq Files
    BY RunnerAssumption, FilesOf
  <2>2. Stems \in Seq(Files)
    BY <2>1, SeqMonotonic
  <2> QED BY <2>2 DEF Queued, StemFiles
<1>5. /\ h \in AgentType /\ h.at = "upload" /\ h.lease = agent[a].lease /\ h.queue = Stems
      /\ h.sent = agent[a].sent /\ (h.beating <=> agent[a].beating) /\ (h.stop <=> agent[a].stop)
  BY <1>1, <1>2, <1>4 DEF AgentType, Points
<1>6. Works(h)
  BY <1>1, <1>4, <1>5 DEF Works, WorkPoints
<1>7. Fine => /\ ~h.stop /\ h.at \notin {"fail", "hung"} /\ (h.at \in WorkPoints => h.beating)
              /\ \A q \in puts' : q.step \notin {"lost", "error"}
  BY <1>1, <1>5 DEF Fine, WorkPoints
<1>8. Healthy'
  BY <1>1, <1>3, <1>5, <1>7, HealthyMoves
<1> QED BY <1>1, <1>3, <1>5, <1>6, <1>8, AgentAlone

\* The head of the queue is sent, and stays there until it is answered.
LEMMA UploadStep ==
  ASSUME RunnerIInv, NEW a \in Agents, Upload(a)
  PROVE  RunnerIInv'
<1>1. /\ agent \in [Agents -> AgentType] /\ agent[a] \in AgentType /\ Works(agent[a])
      /\ agent[a].at = "upload" /\ agent[a].queue # <<>> /\ faults \in Nat /\ Len(leases) \in Nat
      /\ leases \in Seq(LeaseType) /\ puts \subseteq PutType /\ job \in JobStates
      /\ agent[a].lease \in Nat /\ agent[a].lease <= Len(leases)
      /\ \A p \in puts : p.lease \in 1..Len(leases)
      /\ UNCHANGED <<job, leases, disk, removing, faults>>
  BY AgentTyped DEF Upload, At
<1>2. PICK h : h = Sending(agent[a])
  OBVIOUS
<1>3. /\ h \in AgentType /\ h.at = "putting" /\ h.lease = agent[a].lease /\ h.queue = agent[a].queue
      /\ h.sent = agent[a].sent /\ (h.beating <=> agent[a].beating) /\ (h.stop <=> agent[a].stop)
  BY <1>1, <1>2 DEF Sending, AgentType, Points
<1>4. agent' = [agent EXCEPT ![a] = h]
  BY <1>1, <1>2 DEF Upload
<1>5. PICK q : q = [lease |-> agent[a].lease, file |-> Head(agent[a].queue), step |-> "sent", heard |-> TRUE]
  OBVIOUS
<1>6. agent[a].queue \in Seq(Files) /\ Head(agent[a].queue) \in Files
  BY <1>1, HeadTailProperties DEF AgentType
<1>7. /\ q \in PutType /\ q.lease = h.lease /\ q.file = Head(h.queue) /\ q.heard /\ q.step = "sent"
  BY <1>1, <1>3, <1>5, <1>6 DEF PutType, PutSteps
<1>8. puts' = puts \cup {q}
  BY <1>5 DEF Upload
<1>9. /\ puts' \subseteq PutType /\ h.lease # 0
      /\ \A p \in puts' : p.lease \in 1..Len(leases') /\ (p.step = "ok" => \E r \in puts : r.step = "ok" /\ r.file = p.file)
      /\ \A l : l # agent[a].lease => Heard(l)' = Heard(l)
  BY <1>1, <1>3, <1>7, <1>8 DEF Heard, Works
<1>10. Works(h)'
  <2>1. Heard(h.lease)' = {q}
    <3>1. Heard(h.lease) = {}
      BY <1>1, <1>3 DEF Works
    <3> QED BY <1>7, <1>8, <3>1 DEF Heard
  <2> QED BY <1>1, <1>3, <1>7, <1>9, <2>1 DEF Works, WorkPoints
<1>11. Healthy'
  <2>1. Fine => /\ ~h.stop /\ h.at \notin {"fail", "hung"} /\ (h.at \in WorkPoints => h.beating)
                /\ \A p \in puts' : p.step \notin {"lost", "error"}
    BY <1>1, <1>3, <1>7, <1>8 DEF Fine, WorkPoints
  <2> QED BY <1>1, <1>3, <1>4, <2>1, HealthyMoves
<1>12. /\ leases' \in Seq(LeaseType) /\ Len(leases) <= Len(leases') /\ h.lease <= Len(leases')
       /\ h.lease \in {0, agent[a].lease} /\ job' \in JobStates /\ faults' \in Nat
  BY <1>1, <1>3
<1> QED BY <1>1, <1>3, <1>4, <1>9, <1>10, <1>11, <1>12, AgentMoves

LEMMA TailQueued ==
  ASSUME NEW s \in Seq(Files), s # <<>>
  PROVE  Tail(s) \in Seq(Files) /\ Head(s) \in Files /\ Queued(s) \subseteq {Head(s)} \cup Queued(Tail(s))
<1>1. /\ Head(s) \in Files /\ Tail(s) \in Seq(Files) /\ Len(Tail(s)) = Len(s) - 1
      /\ \A i \in 1..Len(Tail(s)) : Tail(s)[i] = s[i + 1]
  BY HeadTailProperties
<1>2. ASSUME NEW i \in 1..Len(s)  PROVE s[i] \in {Head(s)} \cup Queued(Tail(s))
  <2>1. CASE i = 1
    BY <2>1
  <2>2. CASE i # 1
    <3>1. i - 1 \in 1..Len(Tail(s)) /\ Tail(s)[i - 1] = s[i]
      BY <1>1, <2>2
    <3>2. DOMAIN Tail(s) = 1..Len(Tail(s))
      BY <1>1
    <3>3. Tail(s)[i - 1] \in Queued(Tail(s))
      BY <3>1, <3>2 DEF Queued
    <3> QED BY <3>1, <3>3
  <2> QED BY <2>1, <2>2
<1>3. DOMAIN s = 1..Len(s)
  OBVIOUS
<1> QED BY <1>1, <1>2, <1>3 DEF Queued

\* What is up has left the queue, and is on the disk.
LEMMA AnsweredStep ==
  ASSUME RunnerIInv, NEW a \in Agents, Answered(a)
  PROVE  RunnerIInv'
<1>1. PICK p \in puts :
        /\ agent[a].at = "putting" /\ p.lease = agent[a].lease /\ p.heard /\ p.step \in {"ok", "error"}
        /\ puts' = puts \ {p}
        /\ agent' = [agent EXCEPT ![a] =
                       IF p.step = "ok"
                       THEN Sent(@, p.file) ELSE [@ EXCEPT !.at = "fail", !.beating = FALSE]]
        /\ UNCHANGED <<job, leases, disk, removing, faults>>
  BY DEF Answered, At
<1>2. PICK g \in AgentType : g = agent[a]
  BY AgentTyped
<1>3. /\ agent \in [Agents -> AgentType] /\ Works(g) /\ g.lease <= Len(leases) /\ Len(leases) \in Nat
      /\ puts \subseteq PutType /\ \A q \in puts : q.lease \in 1..Len(leases) /\ q.file \in Files
      /\ job \in JobStates /\ leases \in Seq(LeaseType) /\ faults \in Nat
  BY <1>2, AgentTyped
<1>4. g.queue # <<>> /\ p.file = Head(g.queue) /\ Heard(g.lease) = {p}
  <2>1. PICK x : Heard(g.lease) = {x} /\ x.file = Head(g.queue)
    BY <1>1, <1>2, <1>3 DEF Works
  <2>2. p \in Heard(g.lease)
    BY <1>1, <1>2 DEF Heard
  <2> QED BY <1>1, <1>2, <1>3, <2>1, <2>2 DEF Works
<1>5. /\ \A l : l # g.lease => Heard(l)' = Heard(l)
      /\ Heard(g.lease)' = {}
  <2>1. \A l : Heard(l)' = Heard(l) \ {p}
    BY <1>1 DEF Heard
  <2>2. \A l : l # g.lease => p \notin Heard(l)
    BY <1>1, <1>2 DEF Heard
  <2>3. \A l : l = g.lease => Heard(l)' = {}
    BY <1>4, <2>1
  <2> QED BY <2>1, <2>2, <2>3
<1>6. PICK h : h = IF p.step = "ok"
                   THEN Sent(g, p.file)
                   ELSE [g EXCEPT !.at = "fail", !.beating = FALSE]
  OBVIOUS
<1>7. agent' = [agent EXCEPT ![a] = h]
  BY <1>1, <1>2, <1>6
<1>8. g.queue \in Seq(Files) /\ Tail(g.queue) \in Seq(Files) /\ Queued(g.queue) \subseteq {p.file} \cup Queued(Tail(g.queue))
  BY <1>4, TailQueued DEF AgentType
<1>9. /\ h \in AgentType /\ h.lease = g.lease /\ (h.stop <=> g.stop) /\ h.at \in {"upload", "fail"}
      /\ p.step = "ok" => /\ h.at = "upload" /\ h.queue = Tail(g.queue) /\ h.sent = g.sent \cup {p.file}
                          /\ (h.beating <=> g.beating)
      /\ p.step # "ok" => h.at = "fail" /\ ~h.beating /\ h.sent = g.sent
  <2>1. CASE p.step = "ok"
    <3>1. h = [g EXCEPT !.at = "upload", !.queue = Tail(g.queue), !.sent = g.sent \cup {p.file}]
      BY <1>6, <2>1 DEF Sent, AgentType
    <3> QED BY <1>3, <1>8, <2>1, <3>1 DEF AgentType, Points
  <2>2. CASE p.step # "ok"
    <3>1. h = [g EXCEPT !.at = "fail", !.beating = FALSE]
      BY <1>6, <2>2
    <3> QED BY <2>2, <3>1 DEF AgentType, Points
  <2> QED BY <2>1, <2>2
<1>10. Works(h)'
  <2>1. Heard(h.lease)' = {} /\ h.lease # 0
    BY <1>1, <1>2, <1>3, <1>5, <1>9 DEF Works
  <2>2. CASE p.step = "ok"
    <3>1. StemFiles \subseteq g.sent \cup Queued(g.queue)
      BY <1>1, <1>2, <1>3 DEF Works
    <3>2. StemFiles \subseteq h.sent \cup Queued(h.queue)
      BY <1>8, <1>9, <2>2, <3>1
    <3>3. job # "deleted" => \A f \in h.sent : disk.files[f] # 0
      BY <1>3, <1>9, <2>2 DEF Works, RunnerIInv, Kept
    <3> QED BY <1>1, <1>9, <2>1, <2>2, <3>2, <3>3 DEF Works, WorkPoints
  <2>3. CASE p.step # "ok"
    BY <1>1, <1>3, <1>9, <2>1, <2>3 DEF Works
  <2> QED BY <2>2, <2>3
<1>11. Healthy'
  <2>1. Fine => p.step = "ok"
    BY <1>1 DEF Fine
  <2>2. Fine => /\ ~h.stop /\ h.at \notin {"fail", "hung"} /\ (h.at \in WorkPoints => h.beating)
                /\ \A q \in puts' : q.step \notin {"lost", "error"}
    BY <1>1, <1>2, <1>9, <2>1 DEF Fine, WorkPoints
  <2> QED BY <1>1, <1>2, <1>7, <1>9, <2>2, HealthyMoves
<1>12. \A q \in puts' : /\ q.lease \in 1..Len(leases')
                        /\ q.step = "ok" => \E r \in puts : r.step = "ok" /\ r.file = q.file
  BY <1>1, <1>3
<1>13. /\ leases' \in Seq(LeaseType) /\ Len(leases) <= Len(leases') /\ h.lease <= Len(leases')
       /\ h.lease \in {0, agent[a].lease} /\ job' \in JobStates /\ faults' \in Nat /\ puts' \subseteq PutType
       /\ \A l : l # agent[a].lease => Heard(l)' = Heard(l)
  BY <1>1, <1>2, <1>3, <1>5, <1>9
<1> QED BY <1>1, <1>7, <1>9, <1>10, <1>11, <1>12, <1>13, AgentMoves

\* The notes that were found, in some order.
LEMMA NotesInOrder ==
  ASSUME NEW found \in SUBSET Notes
  PROVE  (CHOOSE s \in [1..Cardinality(found) -> found] : \A f \in found : \E i \in DOMAIN s : s[i] = f)
           \in Seq(Files)
<1>1. IsFiniteSet(found)
  BY RunnerAssumption, FS_Subset
<1>2. PICK n \in Nat : n = Cardinality(found) /\ ExistsBijection(1..n, found)
  BY <1>1, FS_CardinalityType
<1>3. PICK m : m \in [1..n -> found] /\ \A f \in found : \E i \in 1..n : m[i] = f
  BY <1>2 DEF ExistsBijection, Bijection, Surjection
<1>4. \E s \in [1..n -> found] : \A f \in found : \E i \in DOMAIN s : s[i] = f
  BY <1>3
<1>5. (CHOOSE s \in [1..n -> found] : \A f \in found : \E i \in DOMAIN s : s[i] = f) \in [1..n -> found]
  BY <1>4
<1>6. found \subseteq Files
  BY DEF Files, Artifacts
<1>7. \A s \in [1..n -> found] : s \in Seq(Files)
  BY <1>6
<1> QED BY <1>2, <1>5, <1>7

LEMMA TranscribeStep ==
  ASSUME RunnerIInv, NEW a \in Agents, NEW found \in SUBSET Notes, Transcribe(a, found)
  PROVE  RunnerIInv'
<1>1. PICK g \in AgentType : g = agent[a]
  BY AgentTyped
<1>2. PICK order : order = CHOOSE s \in [1..Cardinality(found) -> found] :
                             \A f \in found : \E i \in DOMAIN s : s[i] = f
  OBVIOUS
<1>3. /\ g.at = "upload" /\ g.queue = <<>>
      /\ agent' = [agent EXCEPT ![a].queue = <<Analysis>> \o order]
      /\ UNCHANGED <<job, leases, puts, disk, removing, faults>>
  BY <1>1, <1>2 DEF Transcribe, At
<1>4. /\ agent \in [Agents -> AgentType] /\ Works(g) /\ faults \in Nat
  BY <1>1, AgentTyped
<1>5. PICK s \in Seq(Files) : s = <<Analysis>> \o order
  <2>1. order \in Seq(Files) /\ <<Analysis>> \in Seq(Files)
    BY <1>2, NotesInOrder, FilesOf
  <2> QED BY <2>1, ConcatProperties
<1>6. PICK h : h = [g EXCEPT !.queue = s]
  OBVIOUS
<1>7. /\ h \in AgentType /\ h.at = "upload" /\ h.lease = g.lease /\ h.queue = s
      /\ h.sent = g.sent /\ (h.beating <=> g.beating) /\ (h.stop <=> g.stop)
  BY <1>3, <1>6 DEF AgentType
<1>8. agent' = [agent EXCEPT ![a] = h]
  BY <1>1, <1>3, <1>5, <1>6
<1>9. Works(h)
  <2>1. StemFiles \subseteq g.sent
    BY <1>3, <1>4 DEF Works, Queued
  <2> QED BY <1>3, <1>4, <1>7, <2>1 DEF Works, WorkPoints
<1>10. Healthy'
  <2>1. Fine => /\ ~h.stop /\ h.at \notin {"fail", "hung"} /\ (h.at \in WorkPoints => h.beating)
                /\ \A q \in puts' : q.step \notin {"lost", "error"}
    BY <1>1, <1>3, <1>7 DEF Fine, WorkPoints
  <2> QED BY <1>1, <1>3, <1>7, <1>8, <2>1, HealthyMoves
<1> QED BY <1>1, <1>3, <1>4, <1>7, <1>8, <1>9, <1>10, AgentAlone

LEMMA CallCompleteStep ==
  ASSUME RunnerIInv, NEW a \in Agents, CallComplete(a)
  PROVE  RunnerIInv'
<1>1. /\ agent \in [Agents -> AgentType] /\ Works(agent[a]) /\ agent[a].at = "upload"
      /\ agent[a].queue = <<>> /\ Analysis \in agent[a].sent
      /\ UNCHANGED <<job, leases, puts, disk, removing, faults>> /\ faults \in Nat
      /\ agent' = [agent EXCEPT ![a].at = "complete", ![a].beating = FALSE] /\ "complete" \in Points
  BY AgentTyped DEF CallComplete, At, Points
<1>2. PICK h \in AgentType : Moved(a, h, "complete") /\ ~h.beating
  BY <1>1, Quieting
<1>3. Works(h) /\ h.lease = agent[a].lease /\ agent' = [agent EXCEPT ![a] = h]
  BY <1>1, <1>2 DEF Works, Moved, WorkPoints
<1>4. Fine => /\ ~h.stop /\ h.at \notin {"fail", "hung"} /\ (h.at \in WorkPoints => h.beating)
              /\ \A q \in puts' : q.step \notin {"lost", "error"}
  BY <1>1, <1>2 DEF Fine, Moved, WorkPoints
<1>5. Healthy'
  BY <1>1, <1>3, <1>4, HealthyMoves
<1> QED BY <1>1, <1>3, <1>5, AgentAlone

-----------------------------------------------------------------------------
(* The lease API *)

\* A step of an agent that may close its lease.
LEMMA AgentSettles ==
  ASSUME RunnerIInv, NEW a \in Agents, NEW h \in AgentType, agent' = [agent EXCEPT ![a] = h],
         UNCHANGED <<puts, disk, removing>>, faults' \in Nat, job' \in JobStates,
         leases' \in Seq(LeaseType), Len(leases') = Len(leases), h.lease \in {0, agent[a].lease},
         job' = "deleted" <=> job = "deleted",
         job' \in {"finalizing", "completed"} =>
           \/ job \in {"finalizing", "completed"}
           \/ \A f \in StemFiles \cup {Analysis} : disk.files[f] # 0,
         Works(h)', Healthy'
  PROVE  RunnerIInv'
<1>1. /\ puts \subseteq PutType /\ agent[a].lease <= Len(leases) /\ Len(leases) \in Nat
      /\ \A p \in puts : p.lease \in 1..Len(leases)
  BY AgentTyped
<1>2. \A l : l # agent[a].lease => Heard(l)' = Heard(l)
  BY DEF Heard
<1>3. /\ Len(leases) <= Len(leases') /\ h.lease <= Len(leases')
  BY <1>1
<1>4. \A q \in puts' : /\ q.lease \in 1..Len(leases')
                       /\ q.step = "ok" => \E p \in puts : p.step = "ok" /\ p.file = q.file
  BY <1>1
<1> QED BY <1>1, <1>2, <1>3, <1>4, AgentMoves

LEMMA RestingType ==
  /\ Resting \in AgentType /\ Resting.at = "idle" /\ Resting.lease = 0 /\ Resting.sent = {}
  /\ ~Resting.beating
<1>1. <<>> \in Seq(Files)
  BY EmptySeq
<1> QED BY <1>1 DEF Resting, AgentType, Points

\* Nothing bears the lease of an agent that rests.
LEMMA RestingWorks ==
  ASSUME \A p \in puts' : p.lease \in 1..Len(leases'), Len(leases') \in Nat
  PROVE  Works(Resting)'
<1>1. Heard(0)' = {}
  BY DEF Heard
<1>2. PICK h : h = Resting
  OBVIOUS
<1>3. h.at = "idle" /\ h.lease = 0 /\ h.sent = {} /\ ~h.beating
  BY <1>2, RestingType
<1>4. Works(h)'
  BY <1>1, <1>3 DEF Works
<1> QED BY <1>2, <1>4

LEMMA VerifyStep ==
  ASSUME RunnerIInv, NEW a \in Agents, Verify(a)
  PROVE  RunnerIInv'
<1>1. PICK l : l = agent[a].lease
  OBVIOUS
<1>2. PICK point \in Points :
        point = IF Active(l) /\ job = "separating" /\ Matches(a) THEN "verified" ELSE "fail"
  BY DEF Points
<1>3. /\ agent \in [Agents -> AgentType] /\ Works(agent[a]) /\ agent[a].at = "complete" /\ faults \in Nat
      /\ leases \in Seq(LeaseType) /\ job \in JobStates /\ Len(leases) \in Nat
      /\ \A f \in agent[a].sent : f \in Files
      /\ leases' = IF Active(l) /\ job # "separating" THEN Closed(l, "failed") ELSE leases
      /\ agent' = [agent EXCEPT ![a].at = point]
      /\ UNCHANGED <<job, puts, disk, removing, faults>>
  BY <1>1, <1>2, AgentTyped DEF Verify, At, Goto, AgentType
<1>4. PICK h \in AgentType : Moved(a, h, point) /\ (h.beating <=> agent[a].beating)
  BY <1>3, Going
<1>5. /\ agent' = [agent EXCEPT ![a] = h] /\ h.at = point /\ h.lease = agent[a].lease
      /\ h.queue = agent[a].queue /\ h.sent = agent[a].sent /\ (h.stop <=> agent[a].stop)
  BY <1>4 DEF Moved
<1>6. leases' \in Seq(LeaseType) /\ Len(leases') = Len(leases)
  BY <1>3, ClosedLeases DEF Active, LeaseStates
<1>7. Works(h)'
  <2>1. Works(h) /\ point \in {"verified", "fail"}
    BY <1>2, <1>3, <1>4, <1>5 DEF Works, WorkPoints
  <2> QED BY <1>3, <2>1 DEF Works, Heard
<1>8. Healthy'
  <2>1. ASSUME Fine  PROVE /\ UNCHANGED leases /\ point = "verified" /\ ~h.stop
    <3>1. l = 1 /\ Active(l) /\ job = "separating" /\ UnderWay
      BY <1>1, <1>3, <2>1, HealthyLease
    <3>2. \A f \in agent[a].sent : disk.files[f] = l
      <4>1. \A f \in agent[a].sent : disk.files[f] # 0
        BY <1>3, <3>1 DEF Works
      <4>2. \A f \in Files : disk.files[f] \in Nat /\ disk.files[f] <= 1
        BY <3>1 DEF RunnerIInv, Bounds, Types, DiskType, UnderWay
      <4> QED BY <1>3, <3>1, <4>1, <4>2
    <3>3. Matches(a)
      BY <1>1, <3>2 DEF Matches
    <3> QED BY <1>2, <1>3, <1>5, <2>1, <3>1, <3>3 DEF Fine
  <2>2. CASE Fine
    <3>1. /\ ~h.stop /\ h.at \notin {"fail", "hung"} /\ (h.at \in WorkPoints => h.beating)
          /\ \A q \in puts' : q.step \notin {"lost", "error"}
      BY <1>3, <1>5, <2>1, <2>2 DEF Fine, WorkPoints
    <3> QED BY <1>3, <1>5, <2>1, <2>2, <3>1, HealthyMoves
  <2>3. CASE ~Fine
    BY <1>3, <2>3, NotFine
  <2> QED BY <2>2, <2>3
<1>9. /\ faults' \in Nat /\ job' \in JobStates /\ h.lease \in {0, agent[a].lease}
      /\ UNCHANGED <<puts, disk, removing, job>>
  BY <1>3, <1>5
<1> QED BY <1>5, <1>6, <1>7, <1>8, <1>9, AgentSettles

\* Every file was there when complete was called, and still is.
LEMMA AllThere ==
  ASSUME RunnerIInv, NEW a \in Agents, agent[a].at \in {"complete", "verified"}, job # "deleted"
  PROVE  \A f \in StemFiles \cup {Analysis} : disk.files[f] # 0
<1>1. Works(agent[a])
  BY AgentTyped
<1> QED BY <1>1 DEF Works, Queued

LEMMA CloseAndMoveStep ==
  ASSUME RunnerIInv, NEW a \in Agents, CloseAndMove(a)
  PROVE  RunnerIInv'
<1>1. PICK g \in AgentType : g = agent[a]
  BY AgentTyped
<1>2. /\ agent \in [Agents -> AgentType] /\ Works(g) /\ g.at = "verified" /\ faults \in Nat
      /\ leases \in Seq(LeaseType) /\ job \in JobStates /\ Len(leases) \in Nat
      /\ \A p \in puts : p.lease \in 1..Len(leases)
      /\ leases' = IF Active(g.lease) THEN Closed(g.lease, "completed") ELSE leases
      /\ job' = IF Active(g.lease) /\ Live THEN "finalizing" ELSE job
      /\ UNCHANGED <<puts, disk, removing, faults>>
  BY <1>1, AgentTyped DEF CloseAndMove, At
<1>3. leases' \in Seq(LeaseType) /\ Len(leases') = Len(leases)
  BY <1>2, ClosedLeases DEF Active, LeaseStates
<1>4. job' \in JobStates /\ (job' = "deleted" <=> job = "deleted") /\ faults' \in Nat
  BY <1>2 DEF JobStates, Live
<1>5. job' \in {"finalizing", "completed"} =>
        \/ job \in {"finalizing", "completed"}
        \/ \A f \in StemFiles \cup {Analysis} : disk.files[f] # 0
  BY <1>1, <1>2, AllThere DEF Live
<1>6. CASE Active(g.lease) /\ Live
  <2>1. agent' = [agent EXCEPT ![a] = Resting]
    BY <1>1, <1>6 DEF CloseAndMove
  <2>2. Works(Resting)'
    BY <1>2, <1>3, RestingWorks
  <2>3. Healthy'
    <3>1. ASSUME Fine  PROVE Fine'
      <4>1. g.lease = 1 /\ UnderWay
        BY <1>1, <1>2, <3>1, HealthyLease
      <4>2. /\ agent'[a].at = "idle" /\ ~agent'[a].stop
            /\ \A b \in Agents : b # a => agent'[b] = agent[b]
        BY <1>2, <2>1 DEF Resting
      <4>3. \A b \in Agents : b # a => agent[b].at = "idle"
        <5>1. \A b \in Agents : /\ agent[b].lease \in Nat /\ agent[b].lease <= 1
                                /\ agent[b].lease = 0 => agent[b].at = "idle"
          BY <4>1, AgentTyped DEF UnderWay, Works
        <5> QED BY <1>1, <4>1, <5>1 DEF RunnerIInv, OneEach
      <4>4. Through'
        <5>1. leases'[1].state = "completed" /\ Len(leases') = 1 /\ job' = "finalizing"
          BY <1>2, <1>3, <1>6, <4>1, ClosedLeases DEF UnderWay, Active, LeaseStates
        <5> QED BY <4>2, <4>3, <5>1 DEF Through
      <4>5. \A b \in Agents : /\ ~agent'[b].stop /\ agent'[b].at \notin {"fail", "hung"}
                              /\ agent'[b].at \in WorkPoints => agent'[b].beating
        BY <3>1, <4>2 DEF Fine, WorkPoints
      <4> QED BY <1>2, <3>1, <4>4, <4>5 DEF Fine
    <3> QED BY <1>2, <1>6, <3>1 DEF RunnerIInv, Healthy, Live
  <2> QED BY <1>2, <1>3, <1>4, <1>5, <2>1, <2>2, <2>3, RestingType, AgentSettles
<1>7. CASE ~(Active(g.lease) /\ Live)
  <2>1. agent' = [agent EXCEPT ![a].at = "fail"] /\ "fail" \in Points
    BY <1>1, <1>7 DEF CloseAndMove, Points
  <2>2. PICK h \in AgentType : Moved(a, h, "fail") /\ (h.beating <=> agent[a].beating)
    BY <1>2, <2>1, Going
  <2>3. /\ agent' = [agent EXCEPT ![a] = h] /\ h.at = "fail" /\ h.lease = g.lease
        /\ h.queue = g.queue /\ h.sent = g.sent /\ (h.beating <=> g.beating)
    BY <1>1, <2>2 DEF Moved
  <2>4. Works(h)'
    <3>1. Works(h)
      BY <1>2, <2>3 DEF Works, WorkPoints
    <3> QED BY <1>2, <1>4, <3>1 DEF Works, Heard
  <2>5. Healthy'
    <3>1. ~Fine
      BY <1>1, <1>2, <1>7, HealthyLease DEF Live
    <3> QED BY <1>2, <1>7, <3>1, NotFine
  <2> QED BY <1>1, <1>2, <1>3, <1>4, <1>5, <2>3, <2>4, <2>5, AgentSettles
<1> QED BY <1>6, <1>7

LEMMA BreaksStep ==
  ASSUME RunnerIInv, NEW a \in Agents, Breaks(a)
  PROVE  RunnerIInv'
<1>1. PICK l : l = agent[a].lease
  OBVIOUS
<1>2. /\ agent[a].at # "idle" /\ Fails(a) /\ UNCHANGED <<disk, removing>> /\ faults \in Nat
      /\ leases \in Seq(LeaseType) /\ job \in JobStates
      /\ \E kind : Fault(kind)
  BY AgentTyped DEF Breaks, Working, At
<1>3. faults' \in Nat /\ Healthy'
  BY <1>2, Unhealthy
<1>4. CASE UNCHANGED <<job, leases>>
  BY <1>2, <1>3, <1>4, FailingMoves
<1>5. CASE agent[a].at = "verified" /\ Active(l) /\ Live /\ leases' = Closed(l, "completed") /\ job' = "finalizing"
  <2>1. leases' \in Seq(LeaseType) /\ Len(leases') = Len(leases)
    BY <1>2, <1>5, ClosedLeases DEF Active, LeaseStates
  <2>2. \A f \in StemFiles \cup {Analysis} : disk.files[f] # 0
    BY <1>5, AllThere DEF Live
  <2>3. job' \in JobStates /\ (job' = "deleted" <=> job = "deleted")
    BY <1>5 DEF JobStates, Live
  <2> QED BY <1>2, <1>3, <2>1, <2>2, <2>3, FailingMoves
<1> QED BY <1>1, <1>4, <1>5 DEF Breaks, At

LEMMA ReportStep ==
  ASSUME RunnerIInv, NEW a \in Agents, Report(a)
  PROVE  RunnerIInv'
<1>1. PICK l : l = agent[a].lease
  OBVIOUS
<1>2. /\ agent[a].at = "fail" /\ agent' = [agent EXCEPT ![a] = Resting]
      /\ IF Active(l) THEN Loses(l, "failed") ELSE UNCHANGED <<job, leases>>
      /\ UNCHANGED <<puts, disk, removing, faults>>
  BY <1>1 DEF Report, At
<1>3. /\ faults \in Nat /\ leases \in Seq(LeaseType) /\ job \in JobStates /\ Len(leases) \in Nat
      /\ \A p \in puts : p.lease \in 1..Len(leases)
  BY AgentTyped
<1>4. /\ leases' \in Seq(LeaseType) /\ Len(leases') = Len(leases) /\ job' \in JobStates
      /\ (job' # job => job' = "failed" /\ Live)
  BY <1>2, <1>3, LosesLease DEF Active, Lost
<1>5. Works(Resting)'
  BY <1>2, <1>3, <1>4, RestingWorks
<1>6. Healthy'
  <2>1. ~Fine
    BY <1>2 DEF Fine
  <2> QED BY <1>2, <1>4, <2>1, NotFine DEF Live
<1>7. /\ (job' = "deleted" <=> job = "deleted")
      /\ (job' \in {"finalizing", "completed"} => job \in {"finalizing", "completed"})
  BY <1>4 DEF Live
<1>8. Resting \in AgentType /\ Resting.lease \in {0, agent[a].lease}
  BY RestingType
<1> QED BY <1>2, <1>3, <1>4, <1>5, <1>6, <1>7, <1>8, AgentSettles

LEMMA VanishStep ==
  ASSUME RunnerIInv, NEW a \in Agents, Vanish(a)
  PROVE  RunnerIInv'
<1>1. /\ agent' = [agent EXCEPT ![a] = Resting] /\ puts' = Unheard(a) /\ Fault("crash")
      /\ UNCHANGED <<job, leases, disk, removing>>
  BY DEF Vanish
<1>2. /\ faults \in Nat /\ leases \in Seq(LeaseType) /\ job \in JobStates /\ Len(leases) \in Nat
      /\ puts \subseteq PutType /\ \A p \in puts : p.lease \in 1..Len(leases)
  BY AgentTyped
<1>3. /\ puts' \subseteq PutType
      /\ \A q \in puts' : \E p \in puts : q.lease = p.lease /\ q.file = p.file /\ q.step = p.step
      /\ \A l : l # agent[a].lease => Heard(l)' = Heard(l)
  BY <1>1, <1>2, UnheardPuts
<1>4. \A q \in puts' : /\ q.lease \in 1..Len(leases')
                       /\ q.step = "ok" => \E p \in puts : p.step = "ok" /\ p.file = q.file
  <2>1. \A q \in puts' : \E p \in puts : p.lease = q.lease /\ p.file = q.file /\ p.step = q.step
    BY <1>3
  <2> QED BY <1>1, <1>2, <2>1
<1>5. Works(Resting)'
  BY <1>1, <1>2, <1>4, RestingWorks
<1>6. faults' \in Nat /\ Healthy'
  BY <1>1, <1>2, Unhealthy
<1>7. /\ Resting \in AgentType /\ Resting.lease \in {0, agent[a].lease} /\ Resting.lease <= Len(leases')
      /\ Len(leases) <= Len(leases') /\ leases' \in Seq(LeaseType) /\ job' \in JobStates
  BY <1>1, <1>2, RestingType
<1>8. /\ (job' = "deleted" <=> job = "deleted")
      /\ (job' \in {"finalizing", "completed"} => job \in {"finalizing", "completed"})
      /\ UNCHANGED <<disk, removing>>
  BY <1>1
<1> QED BY <1>1, <1>3, <1>4, <1>5, <1>6, <1>7, <1>8, AgentMoves

\* The job is offered again only after an attempt was lost.
LEMMA LeaseStep ==
  ASSUME RunnerIInv, NEW a \in Agents, NEW lost \in BOOLEAN, Lease(a, lost)
  PROVE  RunnerIInv'
<1>1. PICK l : l = Len(leases) + 1
  OBVIOUS
<1>2. PICK e : e = [agent |-> a, state |-> "active"]
  OBVIOUS
<1>3. /\ faults \in Nat /\ leases \in Seq(LeaseType) /\ job \in JobStates /\ Len(leases) \in Nat
      /\ agent \in [Agents -> AgentType] /\ agent[a] \in AgentType /\ Works(agent[a])
      /\ puts \subseteq PutType /\ \A p \in puts : p.lease \in 1..Len(leases)
  BY AgentTyped
<1>4. /\ agent[a].at = "idle" /\ Offered /\ leases' = Append(leases, e)
      /\ UNCHANGED <<job, puts, disk, removing>>
  BY <1>2 DEF Lease, At
<1>5. leases' \in Seq(LeaseType) /\ Len(leases') = l /\ leases'[l].state = "active"
  BY <1>1, <1>2, <1>3, <1>4, GrantedLease
<1>6. /\ \A q \in puts' : /\ q.lease \in 1..Len(leases')
                          /\ q.step = "ok" => \E p \in puts : p.step = "ok" /\ p.file = q.file
      /\ \A k : Heard(k)' = Heard(k)
      /\ (job' = "deleted" <=> job = "deleted") /\ job' \in JobStates /\ puts' \subseteq PutType
      /\ (job' \in {"finalizing", "completed"} => job \in {"finalizing", "completed"})
      /\ Len(leases) <= Len(leases')
  BY <1>1, <1>3, <1>4, <1>5 DEF Heard
<1>7. CASE lost
  <2>1. agent' = [agent EXCEPT ![a] = agent[a]] /\ faults' \in Nat /\ Healthy'
    BY <1>3, <1>7, Unhealthy DEF Lease
  <2>2. PICK h \in AgentType : h = agent[a]
    BY <1>3
  <2>3. Works(h)'
    BY <1>3, <1>4, <1>6, <2>2 DEF Works
  <2>4. h.lease \in {0, agent[a].lease} /\ h.lease <= Len(leases') /\ agent' = [agent EXCEPT ![a] = h]
    BY <1>3, <1>4, <1>5, <2>1, <2>2 DEF Works
  <2> QED BY <1>4, <1>5, <1>6, <2>1, <2>3, <2>4, AgentMoves
<1>8. CASE ~lost
  <2>1. PICK r : r = Resting
    OBVIOUS
  <2>2. PICK h : h = [r EXCEPT !.at = "download", !.lease = l, !.beating = TRUE]
    OBVIOUS
  <2>3. agent' = [agent EXCEPT ![a] = h] /\ faults' = faults
    BY <1>1, <1>8, <2>1, <2>2 DEF Lease
  <2>4. r \in AgentType /\ r.sent = {} /\ ~r.stop
    BY <2>1, RestingType DEF Resting
  <2>5. h \in AgentType /\ h.at = "download" /\ h.lease = l /\ h.beating /\ h.sent = {} /\ ~h.stop
    <3>1. l \in Nat
      BY <1>1, <1>3
    <3>2. "download" \in Points /\ TRUE \in BOOLEAN
      BY DEF Points
    <3> QED BY <2>2, <2>4, <3>1, <3>2 DEF AgentType
  <2>6. Works(h)'
    <3>1. Heard(l) = {} /\ l # 0
      BY <1>1, <1>3 DEF Heard
    <3> QED BY <1>6, <2>5, <3>1 DEF Works, WorkPoints
  <2>7. Healthy'
    <3>1. ASSUME Fine  PROVE Fine'
      <4>1. Len(leases) = 0
        BY <1>3, <1>4, <3>1 DEF Fine, UnderWay, Through, Offered
      <4>2. /\ agent'[a] = h /\ \A b \in Agents : b # a => agent'[b] = agent[b]
        BY <1>3, <2>3
      <4>3. UnderWay'
        BY <1>1, <1>4, <1>5, <2>5, <4>1, <4>2 DEF UnderWay, Offered
      <4> QED BY <1>4, <2>5, <3>1, <4>2, <4>3 DEF Fine
    <3> QED BY <1>4, <2>3, <3>1 DEF RunnerIInv, Healthy
  <2>8. h.lease > Len(leases) /\ h.lease <= Len(leases') /\ faults' \in Nat
    BY <1>1, <1>3, <1>5, <2>3, <2>5
  <2> QED BY <1>4, <1>5, <1>6, <2>3, <2>5, <2>6, <2>7, <2>8, AgentMoves
<1> QED BY <1>7, <1>8

\* A heartbeat that is told to stop belongs to no healthy run.
LEMMA HeartbeatStep ==
  ASSUME RunnerIInv, NEW a \in Agents, Heartbeat(a)
  PROVE  RunnerIInv'
<1>1. PICK g \in AgentType : g = agent[a]
  BY AgentTyped
<1>2. /\ agent \in [Agents -> AgentType] /\ Works(g) /\ faults \in Nat /\ leases \in Seq(LeaseType)
      /\ job \in JobStates /\ g.beating /\ (~Active(g.lease) \/ job # "separating")
      /\ leases' = IF Active(g.lease) THEN Closed(g.lease, "failed") ELSE leases
      /\ agent' = [agent EXCEPT ![a] = Told(@)]
      /\ UNCHANGED <<job, puts, disk, removing, faults>>
  BY <1>1, AgentTyped DEF Heartbeat
<1>3. PICK h : h = Told(g)
  OBVIOUS
<1>4. /\ h \in AgentType /\ h.at = g.at /\ h.lease = g.lease /\ h.queue = g.queue /\ h.sent = g.sent
      /\ ~h.beating
  BY <1>3 DEF Told, AgentType
<1>5. agent' = [agent EXCEPT ![a] = h]
  BY <1>1, <1>2, <1>3
<1>6. leases' \in Seq(LeaseType) /\ Len(leases') = Len(leases)
  BY <1>2, ClosedLeases DEF Active, LeaseStates
<1>7. Works(h)'
  <2>1. Works(h)
    BY <1>2, <1>4 DEF Works
  <2> QED BY <1>2, <2>1 DEF Works, Heard
<1>8. Healthy'
  <2>1. g.at # "idle"
    BY <1>2 DEF Works, WorkPoints
  <2>2. ~Fine
    BY <1>1, <1>2, <2>1, HealthyLease
  <2> QED BY <1>2, <2>2, NotFine
<1> QED BY <1>1, <1>2, <1>4, <1>5, <1>6, <1>7, <1>8, AgentSettles

-----------------------------------------------------------------------------
(* Uploads at the server *)

LEMMA PlainlyTyped ==
  ASSUME RunnerIInv
  PROVE  /\ leases \in Seq(LeaseType) /\ puts \subseteq PutType /\ job \in JobStates /\ faults \in Nat
         /\ disk \in DiskType /\ removing \in BOOLEAN /\ Len(leases) \in Nat
         /\ \A p \in puts : /\ p.lease \in 1..Len(leases) /\ p.file \in Files
                            /\ p.step = "ok" /\ job # "deleted" => disk.files[p.file] # 0
         /\ \A f \in Files : disk.files[f] \in Nat /\ disk.files[f] <= Len(leases)
         /\ (removing => job = "deleted")
BY DEF RunnerIInv, Types, Bounds, Kept, PutType, DiskType

\* No agent moves in a healthy run, and no upload is lost.
LEMMA HealthyServes ==
  ASSUME RunnerIInv, UNCHANGED <<job, leases, agent, faults>>, disk'.source = disk.source,
         Fine => \A q \in puts' : q.step \notin {"lost", "error"}
  PROVE  Healthy'
BY DEF RunnerIInv, Healthy, Fine, UnderWay, Through

\* A step of the server that stores at most one file.
LEMMA Serves ==
  ASSUME RunnerIInv, UNCHANGED <<job, leases, agent, removing>>, faults' \in Nat,
         disk' \in DiskType, \A f \in Files : disk'.files[f] <= Len(leases),
         \A f \in Files : disk.files[f] # 0 => disk'.files[f] # 0,
         puts' \subseteq PutType, SameHeard,
         \A q \in puts' : q \in puts \/ \E p \in puts : /\ q.lease = p.lease /\ q.file = p.file
                                                        /\ q.step = "ok" => disk'.files[q.file] # 0,
         Healthy'
  PROVE  RunnerIInv'
<1>1. /\ leases \in Seq(LeaseType) /\ job \in JobStates /\ removing \in BOOLEAN /\ Len(leases) \in Nat
      /\ \A p \in puts : /\ p.lease \in 1..Len(leases) /\ p.file \in Files
                         /\ p.step = "ok" /\ job # "deleted" => disk.files[p.file] # 0
      /\ (removing => job = "deleted")
  BY PlainlyTyped
<1>2. \A q \in puts' : /\ q.lease \in 1..Len(leases)
                       /\ q.step = "ok" /\ job' # "deleted" => disk'.files[q.file] # 0
  BY <1>1
<1>3. /\ leases' \in Seq(LeaseType) /\ Len(leases') = Len(leases) /\ job' \in JobStates /\ removing' \in BOOLEAN
      /\ (removing' => job' = "deleted")
      /\ (job' # "deleted" => job # "deleted" /\ \A f \in Files : disk.files[f] # 0 => disk'.files[f] # 0)
      /\ (job' \in {"finalizing", "completed"} => job \in {"finalizing", "completed"})
  BY <1>1
<1> QED BY <1>2, <1>3, ServerMoves

LEMMA StoredDisk ==
  ASSUME disk \in DiskType, NEW p \in PutType
  PROVE  /\ Stored(p) \in DiskType /\ Stored(p).source = disk.source
         /\ Stored(p).files = [disk.files EXCEPT ![p.file] = p.lease]
<1>1. PICK fs : fs = [disk.files EXCEPT ![p.file] = p.lease]
  OBVIOUS
<1>2. fs \in [Files -> Nat]
  BY <1>1 DEF DiskType, PutType
<1>3. Stored(p) = [disk EXCEPT !.dir = TRUE, !.files = fs]
  BY <1>1 DEF Stored, DiskType
<1> QED BY <1>1, <1>2, <1>3 DEF DiskType

\* The file of an upload is whole.
LEMMA StoresStep ==
  ASSUME RunnerIInv, NEW p \in puts, disk' = Stored(p), Settles(p, "ok"),
         UNCHANGED <<job, leases, agent, removing, faults>>
  PROVE  RunnerIInv'
<1>1. /\ faults \in Nat /\ disk \in DiskType /\ p \in PutType /\ puts \subseteq PutType /\ Len(leases) \in Nat
      /\ p.lease \in 1..Len(leases) /\ p.file \in Files /\ "ok" \in PutSteps
      /\ \A f \in Files : disk.files[f] \in Nat /\ disk.files[f] <= Len(leases)
  BY PlainlyTyped DEF PutSteps
<1>2. /\ disk' \in DiskType /\ disk'.source = disk.source
      /\ disk'.files = [disk.files EXCEPT ![p.file] = p.lease]
  BY <1>1, StoredDisk
<1>3. \A f \in Files : disk'.files[f] = IF f = p.file THEN p.lease ELSE disk.files[f]
  BY <1>1, <1>2 DEF DiskType
<1>4. /\ puts' \subseteq PutType /\ SameHeard
      /\ \A q \in puts' : q \in puts \/ (q.lease = p.lease /\ q.file = p.file /\ q.step = "ok")
  BY <1>1, SettledPuts
<1>5. Healthy'
  <2>1. Fine => \A q \in puts' : q.step \notin {"lost", "error"}
    BY <1>4 DEF Fine
  <2> QED BY <1>2, <2>1, HealthyServes
<1>6. /\ \A f \in Files : disk'.files[f] <= Len(leases)
      /\ \A f \in Files : disk.files[f] # 0 => disk'.files[f] # 0
      /\ disk'.files[p.file] # 0
  BY <1>1, <1>3
<1>7. \A q \in puts' : q \in puts \/ \E r \in puts : /\ q.lease = r.lease /\ q.file = r.file
                                                     /\ q.step = "ok" => disk'.files[q.file] # 0
  BY <1>4, <1>6
<1> QED BY <1>1, <1>2, <1>4, <1>5, <1>6, <1>7, Serves

LEMMA BeginStep ==
  ASSUME RunnerIInv, NEW p \in puts, Begin(p)
  PROVE  RunnerIInv'
<1>1. UNCHANGED <<job, leases, agent, removing, faults>>
  BY DEF Begin
<1>2. CASE p.file \in Artifacts
  BY <1>1, <1>2, StoresStep DEF Begin
<1>3. CASE p.file \notin Artifacts
  <2>1. disk' = [disk EXCEPT !.dir = TRUE] /\ Settles(p, "temp")
    BY <1>3 DEF Begin
  <2>2. /\ faults \in Nat /\ disk \in DiskType /\ puts \subseteq PutType /\ "temp" \in PutSteps
        /\ \A f \in Files : disk.files[f] <= Len(leases)
    BY PlainlyTyped DEF PutSteps
  <2>3. disk' \in DiskType /\ disk'.source = disk.source /\ disk'.files = disk.files
    BY <2>1, <2>2 DEF DiskType
  <2>4. /\ puts' \subseteq PutType /\ SameHeard
        /\ \A q \in puts' : q \in puts \/ (q.lease = p.lease /\ q.file = p.file /\ q.step = "temp")
    BY <2>1, <2>2, SettledPuts
  <2>5. Fine => \A q \in puts' : q.step \notin {"lost", "error"}
    BY <2>4 DEF Fine
  <2>6. Healthy'
    BY <1>1, <2>3, <2>5, HealthyServes
  <2>7. \A q \in puts' : q \in puts \/ \E r \in puts : /\ q.lease = r.lease /\ q.file = r.file
                                                       /\ q.step = "ok" => disk'.files[q.file] # 0
    BY <2>4
  <2>8. faults' \in Nat /\ \A f \in Files : disk'.files[f] <= Len(leases) /\ (disk.files[f] # 0 => disk'.files[f] # 0)
    BY <1>1, <2>2, <2>3
  <2> QED BY <1>1, <2>3, <2>4, <2>6, <2>7, <2>8, Serves
<1> QED BY <1>2, <1>3

\* An upload ends in an error, or is cut.
LEMMA FailingPut ==
  ASSUME RunnerIInv, NEW p \in puts, UNCHANGED <<job, leases, agent, disk, removing>>, faults' \in Nat,
         Settles(p, "error") \/ (~p.heard /\ puts' = puts \ {p}), Healthy'
  PROVE  RunnerIInv'
<1>1. /\ disk \in DiskType /\ puts \subseteq PutType /\ "error" \in PutSteps
      /\ \A f \in Files : disk.files[f] <= Len(leases)
  BY PlainlyTyped DEF PutSteps
<1>2. /\ puts' \subseteq PutType /\ SameHeard
      /\ \A q \in puts' : q \in puts \/ (q.lease = p.lease /\ q.file = p.file /\ q.step = "error")
  <2>1. CASE Settles(p, "error")
    BY <1>1, <2>1, SettledPuts
  <2>2. CASE ~p.heard /\ puts' = puts \ {p}
    <3>1. \A l : Heard(l)' = Heard(l)
      BY <2>2 DEF Heard
    <3> QED BY <1>1, <2>2, <3>1 DEF SameHeard
  <2> QED BY <2>1, <2>2
<1>3. \A q \in puts' : q \in puts \/ \E r \in puts : /\ q.lease = r.lease /\ q.file = r.file
                                                     /\ q.step = "ok" => disk'.files[q.file] # 0
  BY <1>2
<1> QED BY <1>1, <1>2, <1>3, Serves

LEMMA FinishStep ==
  ASSUME RunnerIInv, NEW p \in puts, Finish(p)
  PROVE  RunnerIInv'
<1>1. UNCHANGED <<job, leases, agent, removing, faults>> /\ p.step \in {"temp", "lost"} /\ faults \in Nat
  BY PlainlyTyped DEF Finish
<1>2. CASE p.step = "temp"
  BY <1>1, <1>2, StoresStep DEF Finish
<1>3. CASE p.step = "lost"
  <2>1. UNCHANGED disk /\ Settles(p, "error")
    BY <1>3 DEF Finish
  <2>2. Healthy'
    BY <1>1, <1>3, NotFine DEF Fine
  <2> QED BY <1>1, <2>1, <2>2, FailingPut
<1> QED BY <1>1, <1>2, <1>3

LEMMA CutOrRefused ==
  ASSUME RunnerIInv, NEW p \in puts, Cut(p) \/ Refuse(p)
  PROVE  RunnerIInv'
<1>1. UNCHANGED <<job, leases, agent, disk, removing>> /\ faults \in Nat
  BY PlainlyTyped DEF Cut, Refuse
<1>2. CASE Cut(p)
  <2>1. ~p.heard /\ puts' = puts \ {p} /\ faults' = faults
    BY <1>2 DEF Cut
  <2>2. Healthy'
    BY <1>1, <2>1, HealthyServes DEF Fine
  <2> QED BY <1>1, <2>1, <2>2, FailingPut
<1>3. CASE Refuse(p)
  <2>1. Settles(p, "error") /\ faults' \in Nat /\ Healthy'
    BY <1>1, <1>3, Unhealthy DEF Refuse
  <2> QED BY <1>1, <2>1, FailingPut
<1> QED BY <1>2, <1>3

-----------------------------------------------------------------------------
(* Users, retention and the worker *)

\* A step that touches neither agents, uploads nor files.
LEMMA JobMoves ==
  ASSUME RunnerIInv, UNCHANGED <<agent, puts, disk>>, faults' \in Nat, job' \in JobStates,
         removing' \in BOOLEAN, removing' => job' = "deleted",
         leases' \in Seq(LeaseType), Len(leases') = Len(leases),
         job' # "deleted" => job # "deleted",
         job' \in {"finalizing", "completed"} => job \in {"finalizing", "completed"}, Healthy'
  PROVE  RunnerIInv'
<1>1. /\ puts \subseteq PutType /\ disk \in DiskType /\ Len(leases) \in Nat
      /\ \A f \in Files : disk.files[f] <= Len(leases)
      /\ \A p \in puts : /\ p.lease \in 1..Len(leases)
                         /\ p.step = "ok" /\ job # "deleted" => disk.files[p.file] # 0
  BY PlainlyTyped
<1>2. SameHeard
  <2>1. \A l : Heard(l)' = Heard(l)
    BY DEF Heard
  <2> QED BY <2>1 DEF SameHeard
<1>3. \A q \in puts' : /\ q.lease \in 1..Len(leases)
                       /\ q.step = "ok" /\ job' # "deleted" => disk'.files[q.file] # 0
  BY <1>1
<1>4. /\ disk' \in DiskType /\ puts' \subseteq PutType /\ \A f \in Files : disk'.files[f] <= Len(leases)
      /\ (job' # "deleted" => job # "deleted" /\ \A f \in Files : disk.files[f] # 0 => disk'.files[f] # 0)
  BY <1>1
<1> QED BY <1>2, <1>3, <1>4, ServerMoves

\* In a healthy run the agent of the lease beats, or completes.
LEMMA ExpireStep ==
  ASSUME RunnerIInv, NEW l \in DOMAIN leases, Expire(l)
  PROVE  RunnerIInv'
<1>1. /\ Active(l) /\ Loses(l, "expired") /\ UNCHANGED <<agent, puts, disk, removing>>
      /\ IF Silent(l) THEN faults' = faults ELSE Fault("silence")
  BY DEF Expire
<1>2. /\ faults \in Nat /\ removing \in BOOLEAN /\ leases \in Seq(LeaseType)
      /\ (removing => job = "deleted")
  BY PlainlyTyped
<1>3. /\ leases' \in Seq(LeaseType) /\ Len(leases') = Len(leases) /\ job' \in JobStates
      /\ (job' # job => job' = "failed" /\ Live)
  BY <1>1, LosesLease DEF Lost
<1>4. faults' \in Nat /\ Healthy'
  <2>1. CASE Silent(l)
    <3>1. ~Fine
      <4> SUFFICES ASSUME Fine  PROVE FALSE
        OBVIOUS
      <4>1. Len(leases) = 1 /\ leases[l].state = "active" /\ l = 1
        BY <1>1, <1>2 DEF Fine, UnderWay, Through, Active
      <4>2. PICK a \in Agents : agent[a].lease = 1
        BY <4>1 DEF Fine, UnderWay, Through
      <4>3. /\ agent[a].at \in Points /\ agent[a].at # "idle"
            /\ agent[a].at \notin {"fail", "hung"} /\ (agent[a].at \in WorkPoints => agent[a].beating)
        BY <4>2, AgentTyped DEF Fine, Works, AgentType
      <4> QED BY <2>1, <4>1, <4>2, <4>3 DEF Silent, Points, WorkPoints
    <3> QED BY <1>1, <1>2, <1>3, <2>1, <3>1, NotFine DEF Live
  <2>2. CASE ~Silent(l)
    BY <1>1, <1>2, <2>2, Unhealthy
  <2> QED BY <2>1, <2>2
<1>5. /\ (job' # "deleted" => job # "deleted") /\ (removing' => job' = "deleted")
      /\ (job' \in {"finalizing", "completed"} => job \in {"finalizing", "completed"})
  BY <1>1, <1>2, <1>3 DEF Live
<1> QED BY <1>1, <1>2, <1>3, <1>4, <1>5, JobMoves

LEMMA CancelStep ==
  ASSUME RunnerIInv, Cancel
  PROVE  RunnerIInv'
<1>1. /\ job' = "cancelled" /\ Live /\ UNCHANGED <<leases, agent, puts, disk, removing, faults>>
  BY DEF Cancel
<1>2. /\ faults \in Nat /\ removing \in BOOLEAN /\ leases \in Seq(LeaseType)
      /\ (removing => job = "deleted")
  BY PlainlyTyped
<1>3. Healthy' /\ job' \in JobStates
  BY <1>1 DEF Healthy, JobStates
<1>4. (job' # "deleted" => job # "deleted") /\ (removing' => job' = "deleted")
  BY <1>1, <1>2 DEF Live
<1> QED BY <1>1, <1>2, <1>3, <1>4, JobMoves

LEMMA DeleteStep ==
  ASSUME RunnerIInv, Delete
  PROVE  RunnerIInv'
<1> DEFINE e(l) == [leases[l] EXCEPT !.state = "deleted"]
<1>1. /\ job' = "deleted" /\ removing' = TRUE /\ job # "deleted" /\ UNCHANGED <<agent, puts, disk, faults>>
      /\ leases' = [l \in DOMAIN leases |-> e(l)]
  BY DEF Delete
<1>2. faults \in Nat /\ leases \in Seq(LeaseType) /\ Len(leases) \in Nat
  BY PlainlyTyped
<1>3. ASSUME NEW l \in 1..Len(leases)  PROVE e(l) \in LeaseType
  <2>1. PICK r \in LeaseType : r = leases[l]
    BY <1>2, ElementOfSeq
  <2>2. [r EXCEPT !.state = "deleted"] \in LeaseType
    BY DEF LeaseType, LeaseStates
  <2> QED BY <2>1, <2>2
<1> HIDE DEF e
<1>4. leases' = [l \in 1..Len(leases) |-> e(l)]
  BY <1>1, <1>2
<1>5. leases' \in Seq(LeaseType) /\ Len(leases') = Len(leases)
  BY <1>2, <1>3, <1>4
<1>6. Healthy' /\ job' \in JobStates
  BY <1>1 DEF Healthy, JobStates
<1> QED BY <1>1, <1>2, <1>5, <1>6, JobMoves

\* The directory goes only after the row.
LEMMA RemoveJobStep ==
  ASSUME RunnerIInv, RemoveJob
  PROVE  RunnerIInv'
<1> DEFINE e(p) == [p EXCEPT !.step = IF @ = "temp" THEN "lost" ELSE @]
<1>1. /\ removing /\ removing' = FALSE /\ disk' = Gone /\ UNCHANGED <<job, leases, agent, faults>>
      /\ puts' = {e(p) : p \in puts}
  BY DEF RemoveJob
<1>2. /\ faults \in Nat /\ leases \in Seq(LeaseType) /\ puts \subseteq PutType /\ Len(leases) \in Nat
      /\ job = "deleted" /\ job \in JobStates /\ \A p \in puts : p.lease \in 1..Len(leases)
  BY <1>1, PlainlyTyped
<1>3. \A p \in puts : e(p) \in PutType /\ e(p).lease = p.lease /\ e(p).file = p.file /\ (e(p).heard <=> p.heard)
  BY <1>2 DEF PutType, PutSteps
<1> HIDE DEF e
<1>4. SameHeard
  <2>1. \A l : Heard(l)' = {e(p) : p \in Heard(l)}
    BY <1>1, <1>3 DEF Heard
  <2>2. ASSUME NEW l, NEW x, Heard(l) = {x}  PROVE \E y : Heard(l)' = {y} /\ y.file = x.file
    <3>1. Heard(l)' = {e(x)} /\ x \in puts
      BY <2>1, <2>2 DEF Heard
    <3> QED BY <1>3, <3>1
  <2>3. \A l : Heard(l) = {} => Heard(l)' = {}
    BY <2>1
  <2> QED BY <2>2, <2>3 DEF SameHeard
<1>5. disk' \in DiskType /\ \A f \in Files : disk'.files[f] <= Len(leases)
  BY <1>1, <1>2 DEF Gone, DiskType
<1>6. puts' \subseteq PutType /\ \A q \in puts' : q.lease \in 1..Len(leases)
  BY <1>1, <1>2, <1>3
<1>7. Healthy'
  BY <1>1, <1>2 DEF Healthy
<1>8. /\ faults' \in Nat /\ job' \in JobStates /\ job' = "deleted" /\ removing' \in BOOLEAN /\ ~removing'
      /\ leases' \in Seq(LeaseType) /\ Len(leases') = Len(leases) /\ agent' = agent
  BY <1>1, <1>2
<1> QED BY <1>4, <1>5, <1>6, <1>7, <1>8, ServerMoves

\* In a healthy run every stem is there.
LEMMA FinalizeStep ==
  ASSUME RunnerIInv, Finalize
  PROVE  RunnerIInv'
<1>1. /\ job = "finalizing" /\ UNCHANGED <<leases, agent, puts, disk, removing, faults>>
      /\ job' = IF \A f \in StemFiles : disk.files[f] # 0 THEN "completed" ELSE "failed"
  BY DEF Finalize
<1>2. /\ faults \in Nat /\ removing \in BOOLEAN /\ leases \in Seq(LeaseType) /\ Len(leases) \in Nat
      /\ (removing => job = "deleted")
  BY PlainlyTyped
<1>3. job' = "completed"
  BY <1>1 DEF RunnerIInv, Kept, StemsAreWhole
<1>4. Healthy'
  BY <1>1, <1>3 DEF RunnerIInv, Healthy, Fine, UnderWay, Through
<1>5. job' \in JobStates /\ ~removing
  BY <1>1, <1>2, <1>3 DEF JobStates
<1> QED BY <1>1, <1>2, <1>3, <1>4, <1>5, JobMoves

-----------------------------------------------------------------------------
(* All steps *)

LEMMA RunnerStarts ==
  ASSUME RunnerInit
  PROVE  RunnerIInv
<1>1. /\ job = "separating" /\ leases = <<>> /\ puts = {} /\ removing = FALSE /\ faults = 0
      /\ agent = [a \in Agents |-> Resting] /\ disk = [Gone EXCEPT !.dir = TRUE, !.source = TRUE]
  BY DEF RunnerInit
<1>2. leases \in Seq(LeaseType) /\ Len(leases) = 0
  BY <1>1, EmptySeq
<1>3. PICK fs \in [Files -> Nat] : fs = [f \in Files |-> 0]
  OBVIOUS
<1>4. disk \in DiskType /\ disk.source /\ \A f \in Files : disk.files[f] = 0
  <2>1. PICK d : d = Gone
    OBVIOUS
  <2>2. d \in DiskType /\ d.files = fs
    BY <1>3, <2>1 DEF Gone, DiskType
  <2>3. disk = [d EXCEPT !.dir = TRUE, !.source = TRUE]
    BY <1>1, <2>1
  <2>4. disk \in DiskType /\ disk.source /\ disk.files = fs
    BY <2>2, <2>3 DEF DiskType
  <2> QED BY <1>3, <2>4
<1>5. agent \in [Agents -> AgentType] /\ \A a \in Agents : agent[a] = Resting
  BY <1>1, RestingType
<1>6. Types
  BY <1>1, <1>2, <1>4, <1>5 DEF Types, JobStates
<1>7. Bounds /\ OneEach
  BY <1>1, <1>2, <1>4, <1>5, RestingType DEF Bounds, OneEach
<1>8. \A a \in Agents : Works(agent[a])
  <2>1. PICK h : h = Resting
    OBVIOUS
  <2>2. h.at = "idle" /\ h.lease = 0 /\ h.sent = {} /\ ~h.beating
    BY <2>1, RestingType
  <2>3. Works(h)
    BY <1>1, <2>2 DEF Works, Heard
  <2> QED BY <1>5, <2>1, <2>3
<1>9. Kept
  BY <1>1 DEF Kept, StemsAreWhole
<1>10. Healthy
  <2>1. ~Resting.stop
    BY DEF Resting
  <2> QED BY <1>1, <1>2, <1>4, <1>5, <2>1, RestingType DEF Healthy, Fine, WorkPoints
<1> QED BY <1>6, <1>7, <1>8, <1>9, <1>10 DEF RunnerIInv

LEMMA WorkStays ==
  ASSUME RunnerIInv, NEW a \in Agents, Work(a)
  PROVE  RunnerIInv'
<1>1. CASE Stop(a) \/ Download(a) \/ Separate(a) \/ Upload(a) \/ Answered(a) \/ CallComplete(a)
  BY <1>1, StopStep, DownloadStep, SeparateStep, UploadStep, AnsweredStep, CallCompleteStep
<1>2. CASE \E found \in SUBSET Notes : Transcribe(a, found)
  BY <1>2, TranscribeStep
<1>3. CASE Verify(a) \/ CloseAndMove(a) \/ Report(a)
  BY <1>3, VerifyStep, CloseAndMoveStep, ReportStep
<1> QED BY <1>1, <1>2, <1>3 DEF Work

LEMMA RunnerStays ==
  ASSUME RunnerIInv, [RunnerNext]_runnerVars
  PROVE  RunnerIInv'
<1>1. ASSUME NEW a \in Agents, NEW lost \in BOOLEAN, Lease(a, lost)  PROVE RunnerIInv'
  BY <1>1, LeaseStep
<1>2. ASSUME NEW a \in Agents, Work(a) \/ Heartbeat(a) \/ Hang(a) \/ Breaks(a) \/ Vanish(a)
      PROVE  RunnerIInv'
  BY <1>2, WorkStays, HeartbeatStep, HangStep, BreaksStep, VanishStep
<1>3. ASSUME NEW l \in DOMAIN leases, Expire(l)  PROVE RunnerIInv'
  BY <1>3, ExpireStep
<1>4. ASSUME NEW p \in puts, Serve(p) \/ Cut(p) \/ Refuse(p)  PROVE RunnerIInv'
  BY <1>4, BeginStep, FinishStep, CutOrRefused DEF Serve
<1>5. CASE Cancel \/ Delete \/ RemoveJob \/ Finalize
  BY <1>5, CancelStep, DeleteStep, RemoveJobStep, FinalizeStep
<1>6. CASE UNCHANGED runnerVars
  BY <1>6 DEF RunnerIInv, Types, Bounds, OneEach, Works, Heard, Kept, StemsAreWhole, Healthy, Fine,
              UnderWay, Through
<1> QED BY <1>1, <1>2, <1>3, <1>4, <1>5, <1>6 DEF RunnerNext

LEMMA RunnerInvariant == RunnerSpec => []RunnerIInv
<1>1. RunnerInit => RunnerIInv
  BY RunnerStarts
<1>2. RunnerIInv /\ [RunnerNext]_runnerVars => RunnerIInv'
  BY RunnerStays
<1> QED BY <1>1, <1>2, PTL DEF RunnerSpec

-----------------------------------------------------------------------------
(* What the agents promise *)

LEMMA TypesFollow ==
  ASSUME RunnerIInv
  PROVE  RunnerTypeOK
<1>1. ASSUME NEW l \in DOMAIN leases  PROVE leases[l].agent \in Agents
  <2>1. leases \in Seq(LeaseType)
    BY PlainlyTyped
  <2>2. PICK r \in LeaseType : r = leases[l]
    BY <2>1, ElementOfSeq, LenProperties
  <2> QED BY <2>2 DEF LeaseType
<1>2. puts \subseteq Puts
  <2>1. \A p \in puts : p \in PutType /\ p.lease \in 1..Len(leases)
    BY PlainlyTyped
  <2> QED BY <2>1 DEF PutType, Puts, PutSteps
<1>3. \A f \in Files : disk.files[f] \in 0..Len(leases)
  BY PlainlyTyped
<1>4. ASSUME NEW a \in Agents
      PROVE  /\ agent[a].sent \subseteq Files /\ agent[a].lease \in 0..Len(leases)
             /\ At(a, "putting") <=> \E p \in puts : p.heard /\ p.lease = agent[a].lease
  <2>1. /\ agent[a].sent \subseteq Files /\ agent[a].lease \in Nat /\ agent[a].lease <= Len(leases)
        /\ Len(leases) \in Nat /\ Works(agent[a])
    BY AgentTyped DEF AgentType
  <2>2. CASE agent[a].at = "putting"
    <3>1. PICK p : Heard(agent[a].lease) = {p}
      BY <2>1, <2>2 DEF Works
    <3> QED BY <2>1, <2>2, <3>1 DEF Heard, At
  <2>3. CASE agent[a].at # "putting"
    <3>1. Heard(agent[a].lease) = {}
      BY <2>1, <2>3 DEF Works
    <3> QED BY <2>1, <2>3, <3>1 DEF Heard, At
  <2> QED BY <2>2, <2>3
<1>5. job \in JobStates
  BY PlainlyTyped
<1> QED BY <1>1, <1>2, <1>3, <1>4, <1>5 DEF RunnerTypeOK, JobStates

LEMMA HealthFollows ==
  ASSUME RunnerIInv
  PROVE  HealthyWorkSucceeds
<1> SUFFICES ASSUME Fine  PROVE Len(leases) <= 1 /\ Failures(leases) = 0 /\ job # "failed"
  BY DEF RunnerIInv, Healthy, HealthyWorkSucceeds
<1>1. leases \in Seq(LeaseType) /\ Len(leases) \in Nat /\ DOMAIN leases = 1..Len(leases)
  BY PlainlyTyped, LenProperties
<1>2. Len(leases) <= 1 /\ job # "failed"
  BY <1>1 DEF Fine, UnderWay, Through
<1>3. {l \in DOMAIN leases : leases[l].state \in Lost} = {}
  <2>1. CASE Len(leases) = 0
    BY <1>1, <2>1
  <2>2. CASE UnderWay \/ Through
    BY <1>1, <2>2 DEF UnderWay, Through, Lost
  <2> QED BY <2>1, <2>2 DEF Fine
<1>4. Failures(leases) = 0
  BY <1>3, FS_EmptySet DEF Failures
<1> QED BY <1>2, <1>4

\* For any number of agents, attempts and faults: the types, each agent at an
\* upload waits for exactly one; from finalizing on every file is whole, whatever
\* older attempts still send (putStem, Complete); and while nothing goes wrong
\* the first attempt is the only one and none is counted as lost.
THEOREM RunnerCorrect == RunnerSpec => []RunnerInv
<1>1. RunnerIInv => RunnerInv
  BY TypesFollow, HealthFollows DEF RunnerInv, RunnerIInv, Kept
<1> QED BY <1>1, RunnerInvariant, PTL

=============================================================================
