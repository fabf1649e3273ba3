------------------------------ MODULE JobPage ------------------------------
(***************************************************************************)
(* The page of one job (web/src/routes/JobDetail.tsx): the query of the    *)
(* job, its event stream (api/sse.ts), the screens it shows and what the   *)
(* user may do there.  A status and a progress of the job are named by the *)
(* index of the event that wrote them: 0 is none.  A render and its        *)
(* effects follow at once on the step that changed the state they read.    *)
(* Fault kinds: "network" (a request or the stream is lost), "server" (an  *)
(* answer 5xx), "split" (a chunk of the stream ends amid what was sent),   *)
(* "auth" (the session may no longer read the job), "gone" (deleted).      *)
(***************************************************************************)
EXTENDS Sequences, Faults

CONSTANTS Stages,        (* the active statuses, in order                  *)
          EndsAt,        (* STAGE_COPY.endsAt: the percentage of a stage   *)
          Uncancellable, (* the stages that cannot be cancelled            *)
          Marks,         (* bound: the progress values a worker reports    *)
          Retries        (* how often a query retries a lost request       *)

StageSet == {Stages[i] : i \in DOMAIN Stages}
Finals == {"completed", "failed", "cancelled"}

ASSUME JobPageAssumption ==
  /\ Stages \in Seq(StageSet) /\ Len(Stages) > 1 /\ EndsAt \in [StageSet -> 0..100]
  /\ Uncancellable \subseteq StageSet
  /\ Marks \subseteq 0..100 /\ 0 \in Marks /\ Retries \in Nat
  /\ \A i, j \in DOMAIN Stages : i < j => EndsAt[Stages[i]] < EndsAt[Stages[j]]
  /\ StageSet \cap Finals = {}

VARIABLES job,  (* the server: the events, whether it is there and readable *)
          row,  (* the query: row, whether it has stems, error, fetch       *)
          sub,  (* the subscription: state, key, last event, last active    *)
          told, (* lastEvent and frozenAt                                   *)
          ask,  (* the open confirmation, the call under way and its answer *)
          away  (* the page was left                                        *)

jobPageVars == <<job, row, sub, told, ask, away>>

NoFetch == [state |-> "none", tries |-> 0, at |-> 0, error |-> "none"]
Sent == [NoFetch EXCEPT !.state = "sent"]
NoSub == [state |-> "none", key |-> "none", last |-> 0, live |-> 0]
NothingTold == [event |-> 0, frozen |-> 0]
NothingAsked == [dialog |-> "none", call |-> "none", answer |-> "none", at |-> 0]

JobPageInit ==
  /\ job = [log |-> <<[status |-> Stages[1], progress |-> 0]>>, kept |-> TRUE, open |-> TRUE]
  /\ row = [at |-> 0, stems |-> FALSE, error |-> "none", fetch |-> Sent]
  /\ sub = NoSub
  /\ told = NothingTold
  /\ ask = NothingAsked
  /\ away = FALSE

-----------------------------------------------------------------------------
(* Statuses (lib/stages.ts)                                                *)

IsActive(status) == status \in StageSet
CanCancel(status) == IsActive(status) /\ status \notin Uncancellable
OrderOf(status) == CHOOSE i \in DOMAIN Stages : Stages[i] = status

\* Mutant of OverallProgress: every stage is a share of its own end.
OverallShare(status, progress) ==
  IF status = "completed" THEN 100 ELSE (EndsAt[status] * progress) \div 100

\* From where the stage before ended; the code rounds, this cuts off.
OverallProgress(status, progress) ==
  LET i == OrderOf(status)
      before == IF i > 2 THEN EndsAt[Stages[i - 1]] ELSE 0 IN
  CASE status = "completed" -> 100
    [] status = Stages[1] -> 0
    [] OTHER -> before + ((EndsAt[status] - before) * progress) \div 100

Status(i) == job.log[i].status
Newest == Len(job.log)
JobEnded == Status(Newest) \in Finals
Readable == job.kept /\ job.open

\* What the row, or the last event of a cancelled or failed job, comes to.
StoppedAt == IF told.frozen = 0 THEN Stages[2] ELSE Status(told.frozen)
Percent ==
  IF Status(row.at) \in {"failed", "cancelled"}
  THEN OverallProgress(StoppedAt, job.log[IF told.frozen = 0 THEN row.at ELSE told.frozen].progress)
  ELSE OverallProgress(Status(row.at), job.log[row.at].progress)

-----------------------------------------------------------------------------
(* The screens                                                             *)

ErrorScreenOf(error) ==
  CASE error = "gone" -> "notfound"
    [] error = "auth" -> "signin"
    [] error = "server" -> "boundary"
    [] error = "network" -> "unreachable"

Panel ==
  CASE Status(row.at) = "completed" /\ row.stems -> "mixer"
    [] Status(row.at) = "completed" /\ ~row.stems -> "stems"
    [] IsActive(Status(row.at)) -> "processing"
    [] OTHER -> Status(row.at)

Screen ==
  CASE away -> "away"
    [] ~away /\ row.error # "none" -> ErrorScreenOf(row.error)
    [] ~away /\ row.error = "none" /\ row.at = 0 -> "loading"
    [] OTHER -> Panel

-----------------------------------------------------------------------------
(* The subscription: a new one whenever the job changes activity           *)

KeyOf(r) == IF r.at = 0 THEN "none"
            ELSE IF IsActive(Status(r.at)) THEN "active" ELSE Status(r.at)

\* Mutant of Subscribed: a new subscription keeps lastLive of the one before.
SubscribedLive(key) == [state |-> "connecting", key |-> key, last |-> 0, live |-> sub.live]

\* It asks for the whole log.
Subscribed(key) == [state |-> "connecting", key |-> key, last |-> 0, live |-> 0]

\* The page renders row r with the subscription s and what t told; a thrown
\* error takes the page down with its subscription.
Rendered(r, s, t) ==
  /\ row' = r
  /\ IF r.error = "server" THEN sub' = NoSub /\ told' = NothingTold
     ELSE IF KeyOf(r) = s.key THEN sub' = s /\ told' = t
     ELSE sub' = Subscribed(KeyOf(r)) /\ told' = [t EXCEPT !.event = 0]

\* The dialogs live in the screens of a job: another screen drops them.
AskKept(r) == ask' = IF r.error = "none" THEN ask ELSE [ask EXCEPT !.dialog = "none"]

Connect ==
  /\ ~away /\ sub.state = "connecting"
  /\ sub' = [sub EXCEPT !.state = IF Readable THEN "open" ELSE "denied"]
  /\ UNCHANGED <<job, row, told, ask, away, faults>>

Drop ==
  /\ ~away /\ sub.state = "open"
  /\ Fault("network")
  /\ sub' = [sub EXCEPT !.state = "connecting"]
  /\ UNCHANGED <<job, row, told, ask, away>>

\* onEvent on the cached row: a lower progress of the same status is old news.
Written(r, i) ==
  IF Status(i) = Status(r.at) /\ job.log[i].progress < job.log[r.at].progress
  THEN [r EXCEPT !.error = "none"]
  ELSE [r EXCEPT !.at = i, !.error = "none"]

\* Mutant of Refetched: the ended job is not fetched again.
RefetchedNot(r) == r
Refetched(r) == [r EXCEPT !.fetch = Sent]

\* Mutant of LiveAt: lastLive takes every event.
LiveAny(n) == n

\* lastLive: the last active event of the subscription.
LiveAt(n) ==
  LET active == {i \in sub.last + 1..n : IsActive(Status(i))} IN
  IF active = {} THEN sub.live ELSE CHOOSE i \in active : \A k \in active : k <= i

\* The row after each of the events up to event n.
Replayed(n) == LET r[i \in sub.last..n] == IF i = sub.last THEN row ELSE Written(r[i - 1], i) IN r

\* Events up to event n arrive in one chunk.
Arrive(n) ==
  LET r == Replayed(n)
      ended == Status(n) \in Finals
      live == LiveAt(n) IN
  /\ Rendered(IF ended THEN Refetched(r[n]) ELSE r[n],
              [sub EXCEPT !.last = n, !.live = live,
                          !.state = IF ended THEN "ended" ELSE "open"],
              [event |-> n, frozen |-> IF ended THEN live ELSE told.frozen])
  /\ UNCHANGED <<job, ask, away>>

Receive == ~away /\ sub.state = "open" /\ sub.last < Newest /\ Arrive(Newest) /\ UNCHANGED faults

ReceivePart ==
  /\ ~away /\ sub.state = "open"
  /\ Fault("split")
  /\ \E n \in sub.last + 1..Newest - 1 : Arrive(n)

-----------------------------------------------------------------------------
(* The query of the job                                                    *)

FetchServed ==
  /\ row.fetch.state = "sent"
  /\ row' = [row EXCEPT !.fetch = [@ EXCEPT !.state = "back",
               !.at = IF Readable THEN Newest ELSE 0,
               !.error = IF ~job.kept THEN "gone" ELSE IF ~job.open THEN "auth" ELSE "none"]]
  /\ UNCHANGED <<job, sub, told, ask, away, faults>>

FetchFails ==
  /\ row.fetch.state = "sent"
  /\ Fault("server")
  /\ row' = [row EXCEPT !.fetch = [@ EXCEPT !.state = "back", !.error = "server"]]
  /\ UNCHANGED <<job, sub, told, ask, away>>

\* A lost request is sent again, and given up after the last retry.
Retried(f) == IF f.tries < Retries THEN [f EXCEPT !.tries = @ + 1]
              ELSE [f EXCEPT !.state = "back", !.error = "network"]

FetchLost ==
  /\ row.fetch.state = "sent"
  /\ Fault("network")
  /\ row' = [row EXCEPT !.fetch = Retried(@)]
  /\ UNCHANGED <<job, sub, told, ask, away>>

\* A good answer replaces the row, a bad one leaves it and shows its screen.
FetchLands ==
  /\ row.fetch.state = "back"
  /\ LET f == row.fetch
         r == IF f.error = "none"
              THEN [at |-> f.at, stems |-> Status(f.at) = "completed", error |-> "none", fetch |-> NoFetch]
              ELSE [row EXCEPT !.error = f.error, !.fetch = NoFetch] IN
     /\ IF away THEN row' = r /\ UNCHANGED <<sub, told>> ELSE Rendered(r, sub, told)
     /\ AskKept(r)
  /\ UNCHANGED <<job, away, faults>>

\* "Try again" of the notice and of the boundary, which throws again when it
\* still has a row, and "Reload" of the stems; bound: not while one is on.
TryAgain ==
  /\ row.fetch.state = "none"
  /\ \/ Screen \in {"unreachable", "stems"}
     \/ Screen = "boundary" /\ row.at = 0
  /\ row' = [row EXCEPT !.error = IF row.at = 0 THEN "none" ELSE @, !.fetch = Sent]
  /\ UNCHANGED <<job, sub, told, ask, away, faults>>

-----------------------------------------------------------------------------
(* Cancelling and deleting                                                 *)

Offers(dialog) ==
  \/ dialog = "cancel" /\ CanCancel(Status(row.at))
  \/ dialog = "delete" /\ Status(row.at) = "cancelled"

Ask(dialog) ==
  /\ Screen \in {"processing", "cancelled"} /\ Offers(dialog)
  /\ ask.dialog = "none"
  /\ ask' = [ask EXCEPT !.dialog = dialog]
  /\ UNCHANGED <<job, row, sub, told, away, faults>>

\* A confirmation is locked while its request is under way.
Decline ==
  /\ ~away /\ ask.dialog \notin {"none", ask.call}
  /\ ask' = [ask EXCEPT !.dialog = "none"]
  /\ UNCHANGED <<job, row, sub, told, away, faults>>

\* One call at a time of the two is modelled.
Confirm ==
  /\ ~away /\ ask.dialog # "none" /\ ask.call = "none"
  /\ ask' = [ask EXCEPT !.dialog = "none", !.call = ask.dialog, !.answer = "none"]
  /\ UNCHANGED <<job, row, sub, told, away, faults>>

CallServed ==
  /\ ask.call # "none" /\ ask.answer = "none"
  /\ IF ask.call = "cancel" /\ Readable /\ CanCancel(Status(Newest))
     THEN /\ job' = [job EXCEPT !.log = Append(@, [status |-> "cancelled", progress |-> job.log[Newest].progress])]
          /\ ask' = [ask EXCEPT !.answer = "done", !.at = Newest + 1]
     ELSE IF ask.call = "delete" /\ Readable
     THEN job' = [job EXCEPT !.kept = FALSE] /\ ask' = [ask EXCEPT !.answer = "done"]
     ELSE ask' = [ask EXCEPT !.answer = "refused"] /\ UNCHANGED job
  /\ UNCHANGED <<row, sub, told, away, faults>>

CallLost ==
  /\ ask.call # "none" /\ ask.answer \in {"none", "done"}
  /\ Fault("network")
  /\ ask' = [ask EXCEPT !.answer = "refused"]
  /\ UNCHANGED <<job, row, sub, told, away>>

\* A cancel writes the row it got, a delete leaves the page, a refusal of
\* either is a toast.
CallLands ==
  /\ ask.call # "none" /\ ask.answer # "none"
  /\ ask' = [ask EXCEPT !.call = "none", !.answer = "none", !.at = 0]
  /\ away' = (away \/ (ask.call = "delete" /\ ask.answer = "done"))
  /\ LET r == [row EXCEPT !.at = ask.at, !.stems = FALSE, !.error = "none"] IN
     IF ask.call = "cancel" /\ ask.answer = "done" /\ ~away THEN Rendered(r, sub, told)
     ELSE UNCHANGED <<row, sub, told>>
  /\ UNCHANGED <<job, faults>>

Leave ==
  /\ ~away /\ away' = TRUE
  /\ sub' = NoSub /\ told' = NothingTold
  /\ ask' = [ask EXCEPT !.dialog = "none"]
  /\ UNCHANGED <<job, row, faults>>

-----------------------------------------------------------------------------
(* The server                                                              *)

NextEvents ==
  LET l == job.log[Newest]
      i == OrderOf(l.status) IN
  [status : {l.status} \ {Stages[1]}, progress : {p \in Marks : p > l.progress}]
    \cup [status : {Stages[j] : j \in DOMAIN Stages \cap {i + 1}}, progress : {0}]
    \cup [status : {"failed"} \cup IF i = Len(Stages) THEN {"completed"} ELSE {}, progress : {0}]

Advance ==
  /\ job.kept /\ ~JobEnded
  /\ \E e \in NextEvents : job' = [job EXCEPT !.log = Append(@, e)]
  /\ UNCHANGED <<row, sub, told, ask, away, faults>>

JobGoes == job.kept /\ Fault("gone") /\ job' = [job EXCEPT !.kept = FALSE]
             /\ UNCHANGED <<row, sub, told, ask, away>>
SessionGoes == job.open /\ Fault("auth") /\ job' = [job EXCEPT !.open = FALSE]
                 /\ UNCHANGED <<row, sub, told, ask, away>>

JobPageNext ==
  \/ Connect \/ Drop \/ Receive \/ ReceivePart
  \/ FetchServed \/ FetchFails \/ FetchLost \/ FetchLands \/ TryAgain
  \/ \E dialog \in {"cancel", "delete"} : Ask(dialog)
  \/ Decline \/ Confirm \/ CallServed \/ CallLost \/ CallLands \/ Leave
  \/ Advance \/ JobGoes \/ SessionGoes

-----------------------------------------------------------------------------
(* Properties                                                              *)

\* Types, and: a row that has stems is completed, and what a page and its
\* subscription hold is in the log.
JobPageTypeOK ==
  /\ job.log[Newest].status \in StageSet \cup Finals /\ job.log[Newest].progress \in Marks
  /\ row.at \in 0..Newest /\ row.error \in {"none", "gone", "auth", "server", "network"}
  /\ row.fetch.state \in {"none", "sent", "back"} /\ row.fetch.at \in 0..Newest
  /\ sub.state \in {"none", "connecting", "open", "ended", "denied"}
  /\ sub.last \in 0..Newest /\ sub.live \in 0..sub.last
  /\ told.event \in 0..Newest /\ told.frozen \in 0..Newest
  /\ Screen \notin {"loading", "away", "notfound", "signin", "boundary", "unreachable"}
       => Percent \in 0..100

\* A page that says where a job stopped names the last stage the job was in,
\* with the progress it had there, however often the stream broke or began
\* again (JobDetail.tsx:65, 76).
FrozenIsLast ==
  told.frozen # 0 => /\ JobEnded /\ told.frozen = Newest - 1
                     /\ IsActive(Status(told.frozen))

\* The bar never falls from one event of a job to the next: a stage begins
\* where the stage before it ended (lib/stages.ts overallProgress).
OverallGrows ==
  LET Overall(i) == OverallProgress(Status(i), job.log[i].progress) IN
  Newest > 1 /\ Status(Newest) \notin {"failed", "cancelled"} => Overall(Newest - 1) <= Overall(Newest)

\* Once nothing is under way, the page of a finished job that can still be
\* read is on the screen of its end, with its stems, or with the stage where
\* it stopped, or on one that says what is wrong: whatever was lost of the
\* requests and the stream, and after replays that arrived in parts and threw
\* the page back.
AtRest == row.fetch.state = "none" /\ sub.state # "connecting" /\ (sub.state = "open" => sub.last = Newest)
ShowsTheEnd ==
  \/ Screen \in {"mixer", "away", "notfound", "signin", "boundary", "unreachable"}
  \/ Screen \in {"failed", "cancelled"} /\ (told.frozen # 0 \/ sub.state = "denied")
EndIsShown == JobEnded /\ Readable /\ AtRest => ShowsTheEnd

\* What the page says of a running job and of where it stopped is so.
JobPageInv == JobPageTypeOK /\ FrozenIsLast /\ OverallGrows
=============================================================================
