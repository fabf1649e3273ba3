# TLA+ models of RehearseKit

RehearseKit turns a song into stems. A user uploads audio (or names a video),
a worker converts and analyses it, a GPU runner separates it into stems, and a
worker packages the result; the browser plays the stems, edits the drum part and
shows how the job gets on. These modules model the rebuilt system (`internal/`,
`cmd/rk`, `web/`): one binary, `rk`, that runs as API server, worker, GPU agent
or GPU scaler, with PostgreSQL as its only shared state, and the web application
in front of it. The application it replaces (`backend/`, `frontend/`,
`websocket/`, `stemd/`) is not modelled.

## The system

| part | code | state | operations | what makes it hard |
|---|---|---|---|---|
| job table and queue | `internal/jobs` | rows of `jobs` and `job_events` | Create, Claim, Transition, Cancel, Delete, FailStale, DeleteExpired | every other part writes it; Transition takes any status for any job that has not ended |
| GPU lease API | `internal/gpu` | rows of `gpu_leases` | lease, heartbeat, complete, fail, ExpireStale | each handler is several transactions; runners retry, hang up and vanish |
| GPU-wait watchdog | `internal/worker` | in-memory map `waiting` | SweepGPUWait | list first, act later; the map dies with the process |
| CPU worker | `internal/worker` | goroutines, advisory locks | intake, resume, sweeps, shutdown | several slots and processes on one queue; crash and restart at any point |
| retention, job files | `internal/worker`, `internal/storage`, `internal/signed` | directories of jobs | PUT of stems and artefacts, remove | the row and the directory go in two steps while uploads run |
| event stream | `internal/jobs` (broker, sse), `web/src/api/sse.ts` | subscribers, last event id | LISTEN, publish, replay, reconnect | lost wake-ups, id order against commit order |
| job API | `internal/jobs` (handlers, access) | claim tokens | create, cancel, delete, claim for user | anonymous jobs change owner |
| GPU agent | `internal/agent` | the job in hand | lease, download, heartbeat, upload, complete | a heartbeat thread beside the work; what an attempt that was given up still uploads |
| GPU scaler | `internal/scaler` | state file, rented instances | decide, rent, destroy, reconcile | a paid external resource behind a lagging listing |
| drum document | `internal/drums`, `web/src/lib/drums/autosave.ts` | revisioned JSON file | get, put, export, autosave | two tabs, lost answers, leaving the page |
| drum editor | `web/src/lib/drums`, `web/src/player/use-drum-editor.ts` | hits, selection, history, grid, view | the reducer's actions, drags, snapping, zooming | drags that are one step of undo, ids that come back, tempo changes |
| kit audition | `web/src/player/kit`, `use-kit-audition.ts` | scheduler, queued voices | tick, rescan, resync | edits and seeks between two looks at an audio clock |
| player | `web/src/player/engine`, `web/public/stream-processor.js` | rings, control words, generations | play, seek, loop, fetch, consume | two threads without a lock; counters that wrap |
| mixer | `web/src/player/use-mixer.ts`, `web/src/lib/mix-state.ts` | the mix, the engine | load, change, persist, start | a stored mix of another version; answers that come late |
| page of a job | `web/src/routes/JobDetail.tsx` | query, subscription | open, follow, cancel, delete | two sources of the truth that overtake each other |
| signing in | `web/src/auth`, `lib/isolation.ts`, `lib/claim-tokens.ts` | user, dialog, claims, document | sign in and out, claim, hand off | isolated documents, lost answers, Google's popup |
| landing page | `web/src/routes/Landing.tsx` | form, previews | choose, preview, create, abort | answers to a question that was changed meanwhile |
| list of jobs | `web/src/routes/JobsList.tsx` | search, query, row actions | search, page, cancel, delete | polls in flight around a change |
| users, profile | `web/src/routes/AdminUsers.tsx`, `Profile.tsx`, `internal/auth` | accounts, cached tables | approve, deactivate, roles, rename | optimistic tables; two administrators at once |
| notifications | `web/src/components/Toast.tsx` | places, queue, timers | show, pause, dismiss | timers under the pointer |
| stacks and entitlement | `internal/models` | recipes by stack | RecipeFor, Check | five places have to agree |
| video preview | `internal/youtube` | cache, rate limiter | Preview | concurrent fetches of one video |
| pipeline algorithms | `internal/pipeline` | none | beat grid, peaks, MIDI, archive | numeric edges |
| import, migrations, wiring | `internal/legacy`, `internal/db`, `internal/api`, `cmd/rk` | | | mostly I/O |

How they interact: the API server and the workers meet only in the database.
A user's request creates a row in `pending`; an intake slot claims it and takes
it to `separating`; a runner leases it through the lease API and its `complete`
takes it to `finalizing`; some worker's resume loop locks it and takes it to
`completed`. Sweepers in every worker process watch over the three places
where a job can get stuck: a lease without heartbeats, a waiting job without a
lease, a CPU stage without events. Each of these writes goes through
`jobs.Transition`, which refuses only jobs that have ended. The browser learns of
them through the event stream and through queries of its own. The page of a
finished job opens the mixer, which creates the player, and the drum editor, which
shares the player's clock with the kit audition and saves its document by itself.

## Modules

    Faults                 the budget of faults
    JobTable               the rows, the progress bands, Transition and the other one-row transactions
      GpuLease             the lease protocol: handlers as threads, one action per transaction
        MCGpuLease           its instances for TLC
        GpuLease_proofs      its theorems, and those of GpuWait
        GpuWait              the GPU-wait watchdog beside the whole lease protocol
          MCGpuWait
      Worker               worker processes: intake, resume, stale sweep, locks, faults
        MCWorker
        Worker_proofs        its theorems
    Runner                 GPU agents on one job, their uploads and the job's directory
      MCRunner
      Runner_proofs          its theorems
    Scaler                 the GPU scaler: its tick call by call, its state file, vast.ai
      Scaler_proofs          its theorems
    EventStream            the event stream of a job, from the transaction to the browser
      EventStream_proofs     its theorems
    JobFeed                what the stream promises: a log told once and in order
    PlayPlan               the arithmetic of plans, rings and 32-bit words
      Player               the streaming player on two threads
      Kit                  the kit audition on the clock of the engine
    Mixer                  the mix, its storage and the engine it drives
      Listening            the player or the mixer (Player, Mixer)
        MCListening
        Listening_proofs     their theorems
    DrumTabs               the drum document in several tabs: load, autosave, export, leave
      MCDrumTabs
    BeatGrid               times, beats, lines and bars
    DrumView               rows, lanes and the interval in view
    EditHistory            what undo and redo promise
      EditModel            the reducer and the operations of the page (BeatGrid, DrumView)
        Editor             the editor tab: EditModel, DrumView and Kit together
          Editing          a session of the editor, or the tabs over its document (Editor, DrumTabs)
            MCEditing
            Editing_proofs   theorems of the editor and of its tabs
    JobPage, Session, Upload, JobsList, Admin, Profile, Toasts
                           the pages of the web application, one module each
      Pages                a visit to one of them
        MCPages
        Pages_proofs         its theorems

**JobTable.** A row is its `status`, its `stage_progress` and one bit of time
(`quiet`: no event for 45 minutes). `Transition`, `ClaimRow`, `CreateRow`,
`CancelRow` and `DeleteRow` are the transactions of `queue.go` and `store.go`;
`StageStart`, `StageEnd` and `StageProgress` are the functions of `stages.go`
with the fraction in per cent.

**Faults.** `Fault(kind)` is the budget of things that go wrong: an action takes
one fault of its kind, and `MaxFaults` bounds all of them.

**GpuLease.** `lease[l]` is a row of `gpu_leases`, together with whether the
runner was told its id (`known`) and whether `expires_at` has passed
(`overdue`). `call[c]` is a handler of the API server between two of its
transactions, with the values it read; `call[Sweeper]` and `todo` are the
worker's `ExpireStale` with the rest of its list. A request may start at any
time for any lease whose id a runner knows, so requests are late, repeated and
concurrent as the runner's retries allow. Two reads are merged with the
transaction before or after them where nothing between them can be told apart:
the `active` check with the first update of a call (an update that finds the
lease closed is the refused call), and Heartbeat's extension with its read of
the job, which the following `Beat` or `DropLease` uses later, stale. `Abort`
is an error, a hung-up client or a crash at any point of a handler or the
sweep. One `Sweeper` stands for the sweeps of all workers: the UPDATE that
expires leases is atomic, so two sweeps have disjoint lists.

**GpuWait.** `clock` and `ripe` are the keys of the map `waiting` and those that
are older than the timeout, per worker process, `condemned` is the list being
failed.

**Worker.** `thread[t]` is an intake slot or the resume loop of a process, at a
point of its code; `Plan` holds, for each point between two transitions, the
transition that ends it and the point it leads to, so a run is read off one
table. `holder[k]` is the session advisory lock with key `k`; `Key` maps job ids
to `hashtext` and may send two jobs to one key. `mode[w]` is a process that runs,
is shutting down or is gone. Faults: a crash (threads gone, sessions and so
locks gone, memory gone), SIGTERM, a database error where the code only logs it,
a broken lock session, a late GPU call. `passed` counts the runs of the resume
loop that a job had to wait for, which is what the 45 minutes of `GoesQuiet`
are compared with: two runs of finalizing and packaging may take 80 minutes.

**Runner.** `agent[a]` is where `RunOnce` of an agent is: the lease it works for, the files
it still has to upload (`queue`) and has uploaded (`sent`), whether its heartbeat thread
runs (`beating`) and has cancelled the work context (`stop`). `puts` are the PUTs at the
server: sent, with a temporary file in the job's directory, with one that went with
the directory, or answered; `heard` says whether the agent still waits for it, as an
agent that stops or dies leaves its upload behind. `disk` is the directory of the job, and
the content of a file is the lease whose agent uploaded it. `removing` is the gap
between the row and the directory in `del` and `SweepRetention`. `leases` are the leases of
the job in the order of their grants; a handler of the lease API is one step here,
since GpuLease splits it, but for `complete`, which reads the files (`Verify`) before its
compare-and-set (`CloseAndMove`). Database errors inside the handlers are left to GpuLease.
The job is one that is transcribed; for another the agent skips that step. A small JSON
body is read before anything is written, so `putJSON` is one step; `RemoveAll` is one step.
A complete call is shorter than the TTL (5 minutes against 10), so a lease expires during
it only by a fault. The faults: a request or answer lost, a lease that falls silent,
a separation that hangs or fails, an agent that dies, an expired URL.

**Scaler.** `pc` walks through one `Tick`; `obs` is what it has read of the queue
and of vast's listing, and every call to vast is a step. `inst` and `image` are
what really exists at vast.ai, `listed` is what its listing shows, which may be
late in both directions. `state` is the state in memory and `disk` the state
file: a crash goes back to `disk`. Times are reduced to whether they have
passed. A create may fail after it created, and a destroy may fail after it
destroyed. In a session with `lags`, a new instance may be missing from the
listing ("late") and a destroy may be confirmed without being done ("refused", the
case that `destroyGrace` is there for); both cost a fault. So may the destroy of an
orphan be refused, or fail, while the state holds no instance (`Spared`): the tick
rents all the same, see "Smaller deviations". The queue and the runners are the
environment.

**EventStream.** An event is its id, drawn from the sequence when its transaction
inserts it (`Begin`) and visible when it commits (`Commit`), which may be a
different order: the row lock of the job is what keeps them equal. `events` are
the committed rows, `note` a notification that is on its way, `handler[c]` the
handler of a connection between its load of the job, its subscription, its
query and its writing, `wake[c]` its channel with a buffer of one, `wire[c]` what
is written and not yet read, `page[c]` the subscription in the browser. A
connection may break at any point with what is on it; the listener and the
server may go down. A handler that has lost its client returns at once in the
model; in the code it notices at its next write, and touches nothing but its
own channel until then. `final` is the id of the event with a terminal status.
`JobFeed` is the specification it implements: `past` is the log, `told` what the
page was given.

**Player.** `stream[s]` is a `StemStreamer` with its one fetch under way,
`ring[s]` the ring with the song frame that each slot holds, `written[s]` and
`word` the control words in shared memory, `audio` the audio thread between the
loads, the copy and the stores of one `process()`. `toWorklet` and `toMain` are the
message ports, `timers` the flushes whose 20 ms still run. A position of the
stream is a frame of the plan; `SongFrameAt` of **PlayPlan** says which frame of the
song that is, inside and outside a loop. `Word` wraps at `2 * WordHalf`, `x | 0`
of the code with a smaller word. A fetch decodes at once when it settles; gains,
meters and what `AudioContext` does beside running or not are left out.

**Mixer.** `mix` is `MixState`; a stored mix is any JSON that `sanitizeMix` may be
given, with stems of another job and a loop turned round. `engines[n]` is the
engine of the n-th start, between its probe, its `init` and its life; `puts` are
the PUTs of `persistMix` under way, oldest first. `hasty` remembers that Play was
pressed again, the page left or a control moved while an engine was starting:
see "Smaller deviations".

**Listening** runs one of the two and leaves the other at rest, as they share no state: to
Mixer an engine is a mix and a position, what it does with its rings is Player's.
**Editing** does the same for a session of the editor and the tabs over its document.

**DrumTabs.** A document is the set of edits that went into it. `autosave[t]` is
the `Autosave` of the present load with its pending document, its debounce and
its save in flight; `puts` are the requests with their base revision and their
answer, `export[t]` is `exportNow` between its flush, its check and its download.
A tab may be hidden, left, reloaded and opened again.

**EditModel**, **EditHistory**. `ed` is `EditorState` under the operations of the
reducer, each of them an operator from state to state (`Added`, `Removed`,
`Nudged`, `Quantized`, `Inserted`, `Undone` ...) and an action of the page that calls
it with what pointer, keys and fields can give it. A drag is `gestureBegin`, moves,
and an end or a cancel. The hits are a set, ordered by time where the code depends
on it; an id is a number, negative for a hit of the model. `EditHistory` is what the
user is promised: documents in a row and a place in it; `HistoryDocs` and
`HistoryAt` map the editor's past, present and future, and a gesture to the moment
before it.

**BeatGrid**, **DrumView**. `Beat` and `TimeOf` are `interval`, `timeToBeat` and
`beatToTime` of the variable map (a constant grid is the map with equal
intervals); `Snap`, `Step`, `Lines` and `BarAt` follow `grid.ts`. `view` is the
interval on the screen with zoom, pan, follow and the overview; `LayoutRows`, `LaneY`
and `ArticulationAt` are the rows. Times are whole units chosen so that every
division is exact, which the assumptions say.

**Kit.** `clock` is the engine as the scheduler sees it: whether it plays, its
generation and plan, the clock of the audio context and the published offset, which
falls behind when the engine is starved. `sched` is `KitScheduler` with its cursor
and its version of the hits; `voices` are what is queued on the audio clock.
**Editor** puts the three together: an edit hands its hits, less those of muted
rows, to the scheduler.

**Pages.** The seven modules of the pages share one shape: a server half (what the
API answers from, with the checks of the handler), the cached queries and the
requests under way, each with the value the server read when it answered, and the
state of the component. A render and its effects follow on the step that changed
what they read. A lost request and a lost answer are different faults. In
**JobPage** a status is named by the index of the event that wrote it, so that an old
value can be told from a new one. In **Session** `doc` is the document of the tab: a
job's page is isolated (COOP and COEP) and Google's popup cannot open there, so
the links that cross are full loads, and the dialog is opened through a hand-off
to the home page. `claims` are the tokens in localStorage. **Admin** includes
the transaction of `updateGuarded` with a second administrator at work. `Pages`
chooses one page to visit and leaves the others at rest, as they share no
state but the session's, which `Session` has.

## Runs

| run | instance | states | shows |
|---|---|---|---|
| `gpu_lease` | 1 job, 1 runner, 3 leases, 2 calls and the sweep, 2 attempts, 1 fault | 54 400 | the safety of leases |
| `gpu_wait` | 2 leases, 1 call, 1 watcher, 1 fault, fairness | 18 661 | a waiting job moves on, no lease outlives its job |
| `worker` | 2 processes with one slot each, 2 jobs under one lock key, local demucs, 2 faults | 427 216 | one driver per job, stages in order |
| `worker_ends` | 1 process, 2 jobs under one key, GPU mode, 2 faults of five kinds, fairness | 121 745 | every job ends |
| `scaler` | 2 instances of ours, 1 foreign, a prompt listing and 2 faults of eight kinds, or a late one and 1 of ten, fairness of the loop | 483 826 | never two paid instances, nothing foreign touched, no instance forgotten |
| `event_stream` | 1 page, 2 writers, 4 events, 3 faults of five kinds, fairness of handler and page | 33 920 | the stream implements `JobFeed`; the end is always heard |
| `runner` | 2 agents, 2 stems and `analysis.json`, 2 attempts, 2 faults of six kinds, fairness | 234 824 | what was verified stays whole, lost work stops, the job is served |
| `runner_delete` | 1 agent, 1 stem, no fault | 115 | **violation**: an upload makes the directory of a deleted job again |
| `listening` | player: 2 stems, a song of 5 frames in rings of 4, 1 loop, 2 starts; mixer: 2 stems, 2 stored mixes, 2 engines; 1 fault of six kinds, fairness | 559 799 | what sounds is planned and shown; starts and songs end; a changed mix is stored |
| `editing` | editor: six sessions of up to 2 edits, 4 looks or 4 frames of audio on two grids; document: 2 tabs with 2 edits and 1, 2 loads each, 1 export, 1 fault of two kinds, fairness | 326 080 | the editor implements `EditHistory`; grid, view and kit are right; no save is overwritten, every edit is saved or reported |
| `drums_leave` | 1 tab, 2 edits, no fault | 32 | **violation**: an edit is lost on leaving |
| `pages` | a visit to each of seven pages, up to 2 faults of six kinds | 674 501 | a quiet page shows what the server has |

The bounds. Properties of leases are about one job (the job of each lease is
fixed), so one job suffices; the row of another only adds interleavings that
touch nothing (two jobs and three leases were checked once, 1.8 million
states). Three leases allow a first lease to be closed, a second one to be
active while the first is still acted on, and a third one after the attempts
are used up. Two calls and the sweep are three concurrent actors, one more than
any hazard needs. One fault is enough for an ambiguous commit, and a second
one only repeats it. In Worker, two processes, two jobs and one lock key give
every conflict of locks, and two faults give a fault during the recovery from
the first. In Scaler two instances are what it takes to have one too many;
with a prompt listing a session has two faults, and with a lagging one a single
fault (`LagFaults`), the lag itself included. `AgeBound` cuts the ages off below
`MaxAge`, so that nothing but the idle timer ends an instance that runs. Pages of
one job share nothing but the notification, so one page is enough in EventStream
(two were checked once, with two faults and without the split of the query from its
writing, 607 500 states); four events leave room for two after a reconnect.

In Runner two agents and two leases are an attempt and its successor, with the second
failure giving the job up; two stems are one that is uploaded and one that is not, and
two faults an agent that is silent but still at work and one more thing after it. Notes
are one more artefact like `analysis.json` and are left to larger instances.

In Player the ring has 4 frames, a song 5, a word 16 values and a stream at most 10
frames: the ring wraps within a song, the word within a stream, and a loop ends inside a
quantum. Two starts give a seek during a seek's flush, two stems a fetch that is behind
the other. In DrumTabs the tab that edits twice can have one edit in flight and one
behind it while the other tab saves; two loads are a reload after a conflict (two faults
were checked once, 736 181 states). In Mixer two engines are one too many. In Editor a
session has a budget of edits, looks and frames of audio (`MCBudgets`): two edits give a
step and its undo, a drag and a step after it; four frames are two passes of the loop
with a look ahead of two; the grids are a steady one and one whose tempo and signature
change. The kit (`KitInv`) is part of `EditorInv`. `PickedAsDrawn`, `LinesAgree` and
`BarsFollow` are about all times and rows of the instance, not only those a session
reaches. In Pages two jobs on pages of one row make a page empty when its row is
deleted, two videos make a preview of the wrong one possible, three moves are a search,
a filter and a page, and the faults of each visit are in `MCVisitFaults`; the page of a
job has two, as a stream that is lost and a replay that arrives in parts only do harm
together.

Deadlock is not checked: all jobs may have ended and all leases may be used, a
budget of user actions may be spent, and then the system rests.

### What the properties say

GpuLease: at most one lease of a job is active (`OneActiveLease`), although
`complete` may reopen a lease long after it closed it. A call that passed the
compare-and-set of `complete` is alone with its lease (`CompleterOwnsLease`). The
failure policy runs once for each lease (`PolicyOncePerLease`), what it decides
still holds when it acts (`GiveUpIsDue`), and what it counted stays counted
(`CountedStaysCounted`). Nothing brings an ended job back (`EndedStaysEnded`), and
a waiting job is only finished by a complete call that closed its lease
(`OnlyVerifiedWorkMovesOn`).

GpuWait (`WaitingJobsMove`): no waiting job that nobody holds waits forever
(`UnleasedJobsMove`), and a job whose attempts are used up ends (`SpentJobsEnd`), also
when the step that should have moved it was lost. A lease of an ended job is closed
in the end (`LeasesOfEndedJobsClose`).

Worker: a job is run by one thread at a time (`OneDriver`), through lock-key
collisions, requeues, shutdowns and crashes; an intake slot has its job to itself
from the claim to the hand-off (`IntakeOwnsItsJob`), which is what makes the read
and the write at shutdown safe; stages follow one another (`StagesInOrder`); every
job ends (`EveryJobEnds`).

Runner: once a complete call was accepted every file is there and whole, and stays
so, whatever an attempt that was given up still uploads (`StemsAreWhole`); without a fault
the first attempt succeeds, so no attempt is counted for nothing, which is what the
heartbeat through separation and uploads is for (`HealthyWorkSucceeds`, both in
`RunnerInv`). An agent whose lease was lost, or whose job was cancelled, leaves it, even
when its separation hangs (`LostWorkStops`), and a waiting job is finished or given up
(`JobIsServed`); the one exception it names is a separation that hangs while its heartbeat
goes on.

Scaler: with a vast that does not lag there are never two paid instances
(`AtMostOneInstance`, in `ScalerInv`; `lags` covers a listing that is late, a destroy that
is confirmed and not done, and an orphan that outlives its destroy just before a rent), through a crash between the rent and its
save, an ambiguous create, lost writes of the state file and stale reads of it. The
order of `reconcile` before `Decide` is what this rests on. Instances without the
label are not touched (`ForeignUntouched`). With a listing that lags two may
exist for a while, but none is forgotten: as long as no job comes, each is
destroyed (`IdleInstancesEnd`).

EventStream: a page is told every event of its job once and in the order of the
commits (`IsAFeed`), although the handler asks for "ids above the last", which is
only right because ids are committed in order, and although connections break
with events on them. A row that is committed while the handler replays or
writes is not left lying until the next heartbeat (`NothingFallsInTheGap`, in
`StreamInv`), which is what subscribing first and the buffer of the channel are for.
A page that stays hears of the end (`EndIsHeard`): no fairness of the broker is
assumed, the heartbeat's query alone carries it. A job that is deleted while it is
watched tells nobody; its stream stays open.

Player: a quantum that sounds has in every ring the frames that the plan names at
its position (`HeardIsPlanned`), through seeks whose flush is still on its way,
wrapped rings, wrapped words and a fetch of the stream before; a range is
fetched only when it fits (`FetchesFit`); the song is said to have ended only
when its last frame was heard (`EndIsReached`); a start becomes sound or an
error, and a song without a loop ends (`PlaybackEnds`).

DrumTabs: no save overwrites an edit it has not seen (`LineNeverForks`);
"autosaved" means saved (`AutosavedIsTrue`), the archive that is answered with has the
edits that were on the screen (`ExportHasTheEdits`); an edit is saved or the tab says
why it is not (`EditsAreSaved`).

Mixer: whatever was stored, somebody is heard and the loop has a range (`SoundMix`);
opening a page changes nothing (`OpeningKeepsTheMix`); a change is stored in the end
(`MixIsStored`); the strips show what sounds, and one engine sounds
(`EngineFollows`).

Editor: undo and redo are a walk over documents, and drags, cancelled drags,
reloads and clicks in between do not break it (`HistoryIsKept`, a refinement); ids
are never given twice (`IdsAreNew`), the autosave has what is shown
(`SavedAsShown`). What a pointer means is what is drawn (`PickedAsDrawn`), drawn lines
are the lines that snap (`LinesAgree`), bars follow without a gap (`BarsFollow`), the
view stays in the song (`ViewInSong`). In `KitInv`: a hit sounds once in each pass
(`OncePerPass`), none is missed (`NothingMissed`), none is heard that was deleted
(`NothingStale`), and never together with the stem (`StemOrKit`).

Pages: `QuietPagesAreTrue` is the promise of all of them: once nothing is under way, the
page of a job shows its end (`EndIsShown`), the list its rows and no deleted one
(`ListIsTrue`, `DeletedStaysGone`), the table its users (`TableIsTrue`), header and
profile one name (`SavedEverywhere`). Beside it: a stopped job is shown with the last
stage it was in and its bar never falls (`JobPageInv`, which like the next two is in
`PagesInv`); a claim token is kept while it
is the only proof of a job, a job's page is isolated and no other is, the dialog
opens where its popup can (`SessionInv`); a job is made of what was shown and could be
chosen (`AskedAsShown`); two administrators never leave the system without one
(`AdminRemains`); no place for a toast stays empty and no timer is forgotten
(`ToastsInv`).

### Where the code does something else than it says

Two runs check a comment each, and TLC finds a behaviour of the code against it.

`drums_leave`: `player/use-drum-editor.ts:177` says "Leaving the editor must not lose an edit still
in the debounce window: unmount sends it at once". The unmount calls `flush` and then
`dispose`. With a save under way `flush` starts none, as one PUT goes at a time, and
the disposed autosave sends nothing after the answer: an edit that was made meanwhile
is lost, and nobody is told.

`runner_delete`: "SweepRetention deletes jobs past expires_at with their files"
(`worker.go:421`), and the drum document takes care that "a job removed meanwhile must not
come back" (`drums/mixdown.go:53`, with `Mkdir` instead of `MkdirAll`). The PUT handlers
do not (`signed/handlers.go:114` and `:209`): an agent is not told that its job was
deleted, as its heartbeat then gets a 404 and only 409 and 410 stop it
(`agent.go:446`), so its next upload, or one that is under way, makes the directory
again. It has no row, so no sweep removes it.

Smaller deviations that the models show and no run is kept for.

Jobs and leases:
- a job may be leased between the watchdog's list and its transition and is failed
  while a runner has it, against "a lease, even a failed one, restarts the clock"
  (`worker.go:247`);
- a SIGTERM between claim and lock leaves the job in converting for 45 minutes,
  against "On SIGTERM a job still in converting/analyzing goes back to `pending`"
  (`docs/rebuild/README.md:255`);
- a job that waits behind two long runs of the resume loop is failed by the healthy
  worker, against "their worker died mid-stage" (`jobs/store_worker.go:72`);
- two overlapping heartbeats set the progress back, against "Progress only moves
  forward" (`gpu/store.go:199`);
- the failure policy of a closed lease may be lost to an error, so that a job whose
  attempts are used up waits for the GPU-wait timeout, against "three failed/expired
  leases fail the job" (`docs/rebuild/README.md:316`; `SpentJobsEnd` remains true);
- a lock whose connection breaks is taken by another process while its thread runs on
  (the fault "session" of Worker);
- with a lagging listing a new instance is forgotten and another rented, against
  "Hard caps: at most one instance" (`docs/rebuild/README.md:339`; hence `~lags` in
  `AtMostOneInstance`);
- a destroy of an orphan that fails is only logged (`scaler.go:331`), and with no
  instance in the state the same tick goes on to rent: two paid instances, against the
  same line and `decide.go:80`. It takes a state that forgot a living instance: with
  three instances and four faults TLC finds a write of the state that fails after a
  rent and one that fails after its close, a crash between the next create and its
  save, and then the failed destroy (`Spared` puts the last of them under `lags`);
- a public instance whose rent was not saved is adopted without its stack and taken for
  an internal one (`scaler.go:321`); an idle instance may lease a job between the
  scaler's read of the queue and its destroy (`scaler.go:447`).

Agents and files:
- a separation has no timeout, while each adapter has one: when it hangs and the
  heartbeat goes on, the job stays leased for ever, as the watchdog looks only at
  waiting jobs without a lease (`JobIsServed` excepts it);
- a server that stops, or fails to remove, between the row and the directory of a deleted
  job leaves the directory;
- the worker's peaks make the directory of a deleted job again, too (`stages.go:257`);
- two uploads of one artefact share the temporary name `.part` (`signed/handlers.go:118`),
  unlike those of a stem.

Player, mixer and kit:
- while a seek primes, stop, the loop button and nudges start from the old plan, and
  the seek is forgotten (`engine.ts:601`);
- `READ_POS` is a 32-bit word: a loop that plays for 2^31 frames wraps it, which
  the differences of the code allow for;
- a hit that was queued before an underrun may be heard twice
  (`scheduler.ts:136-139`), and two rescans without a tick between them may lose one
  (`scheduler.ts:86-90`; `sched.slow` in the model); a kit that fails to load while
  the mode is on leaves the drums muted;
- Play pressed twice makes two engines, and leaving the page while one starts leaves
  it playing; changes while it starts are not applied to it, against
  `use-mixer.ts:60-64` (`hasty` in the model);
- a mix that could not be read is overwritten by the next change; a change within
  600 ms of leaving is not stored; PUTs may overtake each other.

Drum document:
- a save whose answer was lost makes its own retry a conflict;
- the archive is made of the revision of the server, which may have moved on since
  the check, and a refused download is not seen, as it goes to a hidden frame.

Pages:
- a refetch that fails in the background takes an open mixer or editor away
  (`JobDetail.tsx:96`); after it "Try again" throws again as long as there are cached
  data; a replay that arrives in parts sets the page back for its duration;
- a request for the user that was sent before a sign-in may be answered after it and
  overwrite it (`AuthProvider.tsx:40`); a sign-out that fails looks done; a Google
  credential that comes after the dialog was closed signs in (`SignInDialog.tsx:122`);
- two previews of videos may end in the wrong order, and transcription stays ticked when
  a sign-out takes the six-stem presets away (`mixed` and `lapsed` in Upload); the toast
  of an abort may be false, and the claim token of a job made all the same is lost;
- "Nothing was applied" after a lost answer may be false (`AdminUsers.tsx:106`), and a
  rollback puts the row back that was captured before the change, with other changes
  undone until the next fetch;
- the last row of the last page leaves "No jobs match this filter" (`JobsList.tsx`);
  "completed" rows are not polled; clearing filters shows the old search for up to
  250 ms;
- a fetch of the profile that was sent before a save may overwrite what was saved;
- three errors leave no place for later toasts until one is dismissed.

## Fairness

A handler, once started, takes its next step (`WF` of `ThreadStep` per thread;
`Abort` may still end it). The sweeps and the watchdog run on tickers, the intake
and resume loops poll, time passes (a lease without a heartbeat becomes overdue, a
wait reaches its timeout), and a process that went down is restarted by its
supervisor (compose, `restart: unless-stopped`). Nothing is assumed of runners,
users or of a stage's success. In Worker the GPU side is the environment, and
its one assumption, that a waiting job leaves `separating`, is what
`WaitingJobsMove` and the lease sweep establish in GpuWait. In Scaler the loop
goes on and is restarted after a crash, times pass, and the listing catches up
with what exists; nothing is assumed of boots, leases and jobs. In Runner some agent
polls, an agent that is not hung goes on with its work and its heartbeat, the server
answers a PUT, and the sweep expires a lease that fell silent. In EventStream
handlers, heartbeats and pages go on, and nothing is asked of the broker.

In Player timers fire, messages arrive, fetches settle, the 50 ms tick runs while its
interval does, the audio thread runs while its context does, and a context that was
asked to resume does; that the user ever asks is not assumed. In DrumTabs debounces
fire and requests are answered; in Mixer the mix is answered for, the debounce fires
and the oldest PUT arrives. These are the browser's event loop, its timers and its
network timeouts. Pages assumes no fairness: its promises are about quiet states and
hold whenever one is reached.

## Proofs

`GpuLease_proofs` proves, for every number of jobs, runners, leases, calls and
faults and for any progress values, from the assumptions `FaultsAssumption` and
`GpuLeaseAssumption`:

| theorem | property |
|---|---|
| `LeaseTypeCorrect` | `[]LeaseTypeOK` |
| `LeasesExclusive` | `[]OneActiveLease` |
| `CompletionExclusive` | `[]CompleterOwnsLease` |
| `PolicyRunsOnce` | `[]PolicyOncePerLease` |
| `VerdictsAreDue` | `[]GiveUpIsDue` |
| `WatchdogCorrect` | `[]WaitTypeOK` of GpuWait |
| `LeasesHoldBesideWatchdogs` | `[]OwnershipInv` of GpuWait's specification |
| `EndsAreFinal`, `CountsAreFinal`, `VerifiedWorkOnly` | the action properties |

None of the safety properties is inductive. They are proved together, as the
invariant `OwnershipInv`: its added conjuncts say that a lease that was never
granted is in nobody's hands, that a lease being offered is known only to its
offering call, that only the sweeper acts on what its list names, and that the
rows of a deleted job are deleted with it. From these each point of a thread
fixes what the other threads may do with the same lease; the step proof has one
lemma per action. The action properties follow from the invariant and the
actions. `OwnershipInv` was checked by TLC before it was proved. `GiveUpIsDue` compares a
number that was counted with a later state, so `GiveUpInv` adds that the leases which were
granted are finite in number (`GrantsInv`): failures of a live job then only grow. The
watchdog of GpuWait writes rows beside the handlers; its steps are shown to keep
`OwnershipInv`, although it looks at no lease.

`Worker_proofs` does the same for the worker, for any number of processes, slots,
jobs and faults and for any assignment of lock keys:

| theorem | property | faults allowed |
|---|---|---|
| `WorkerTypeCorrect` | `[]WorkerTypeOK` | all |
| `DriversExclusive` | `[]OneDriver` | all but a broken lock session |
| `IntakeExclusive` | `[]IntakeOwnsItsJob` | all |
| `StagesOrdered` | `StagesInOrder` | all but a broken session and a late GPU call |

The assumptions on faults are hypotheses of the theorems (`"session" \notin
FaultKinds`); with that fault the first one fails. The
argument has three layers. `HoldsLock`: a thread past its lock holds it, so no two
threads run one job. `ClaimsInv` does not use locks at all: the job of an intake
slot is in an early stage or has ended, the job of a resumed run is in a late one
or has ended, and no two slots have one job, because a claim takes only pending
jobs and nobody but its slot takes an early job out of the early stages alive.
`AtStage` needs both: each point of a run has the statuses its job may be in
(`StageOf`), and the table `Plan` leads from each of them to a next stage.

`EventStream_proofs` (any pages, writers, ids and faults) proves `StreamCorrect`
(`[]StreamInv`) and `StreamIsAFeed` (`IsAFeed`: each step of the stream is a step of
`JobFeed` under its mapping, or none). Their invariant `StreamIInv` has four parts: ids rise
in the order of the commits, because an open transaction holds the row and has drawn
an id above every committed one (`CommitsRise`, `OneWriter`); the table is the log;
what a page was told, what is on its wire and what its handler has read are consecutive
pieces of the log (`InStep`), and the handler's last id is the end of what it wrote
(`Connected`); and as long as nothing has failed, a handler past its read has every event
or a wake-up to come (`Covered`). "Ids above the last" is the next piece only by the
first part.

`Scaler_proofs` (any instances, ages and faults) proves `ScalerCorrect` (`[]ScalerInv`) and
`ScalerSparesOthers` (`ForeignUntouched`, also with lags). `ScalerIInv` adds that the
scaler knows only what it created (`OursOnly`, `Created`) and, for a session without
lags, `Prompt`: every paid instance is listed, every instance that the state remembers as
destroyed is gone, and at each point of the tick from the listing to the rent what it has
read covers the paid ones, so before a rent there is none (`SeenAll`). The proof is what
found the failed destroy of an orphan (see "Smaller deviations"): in instances of two
TLC had passed.

`Runner_proofs` (any agents, stems, notes, attempts and faults) proves `RunnerCorrect`
(`[]RunnerInv`). `StemsAreWhole` needs to know how the files got there (`Works`): of an
agent each stem is still queued or among those it had an answer for, it waits for
one upload, that of the head of its queue, and what was answered is on the disk, as nothing
is removed before the job is deleted (`Kept`). `HealthyWorkSucceeds` needs the opposite,
that while no fault happened there is one lease, which its agent keeps alive
(`Healthy`). Nothing bears a lease that was not granted (`Bounds`), and no two agents one
(`OneEach`).

`Editing_proofs` holds the theorems of the document and of the editor. Of the document in
its tabs (any tabs, edits, loads and exports) it proves `DrumTellsTheTruth`
(`[]DrumInv`) and `DrumLineNeverForks` (`LineNeverForks`). The revision is what an
autosave, a PUT, a load and an export know of the server, so each part of `DrumIInv` says
what the bearer of the current revision has seen: a PUT at it has every edit that is on the
server (`HasSeen`), so has the document of the page (`SaveInv`) and an export that was
checked at it (`ExportInv`). The PUT an autosave waits for is the only one (`OneAwaited`), and
everything that waits behind it has its edits (`Awaited`).

Of the session of the editor it proves, for any documents, grids, rows, lane heights,
edits, looks, regions and history limit:

| theorem | property | invariants |
|---|---|---|
| `EditorCorrect` | `[]EditorInv` | all of those below |
| `KitCorrect` | `[]KitInv` | `KitIInv` |
| `EditorKeepsIds` | `IdsAreNew`, `SavedAsShown` | `EditIInv` |
| `EditorIsAHistory` | `HistoryIsKept` | `EditIInv` |

`EditIInv` keeps, for every document of the past, the present and the future, that its
hits are finitely many and have ids below the next one, and relates a gesture to the
moment before it (`InGesture`): with nothing touched it is that moment, otherwise the past
is the one of then with one more step. Under the mapping an open gesture is the moment
before it, so its moves are no steps and its end is one edit. `Typed` says of each of
these documents, of the selection, the clipboard and the drag what they are made of: an
id is in a document once, a selection is of hits that are there, and a gesture is on
exactly while one of the four drags that edit is. It is proved operation by operation,
from what each does to the documents (`Stays`). `SpanKnown`
is the invariant of the view.

`PickedAsDrawn`, `LinesAgree` and `BarsFollow` hold of every row and every time, so they
follow from lemmas on the operators. The rows have an order and heights, so a row ends
where the next one begins or before; hence the middle of an articulation's lane is in the
row that shows it and in no other (`PickedRow`). A grid line is a whole number of units
of time after a beat (`LineOf`), so it is found again from its time, and its neighbour
from it (`SnapNear`, `LinesAreSnapped`); a bar is the next one of its signature, and later
(`BarsAreNext`, `BeatsGoOn`). All of this is the division of integers with a remainder,
and `IsGrid` is what makes it exact: beats rise, and each interval and each division
divide the beat's units.

`KitIInv` follows a scheduler over the streams of the engine: a voice is a hit of a frame
of a stream (`Key`), no stream has any before its flush is over (`Begins`), what is queued
or heard of a stream lies before the cursor of the scheduler, which only moves on, so
that nothing is queued twice (`QueuedOnce`); and up to the cursor every hit that was there
all the time is heard or queued (`Covered`), the cursor being a look ahead of the clock
unless the timer is late (`Reaches`).

The assumptions: velocities and limits are positive, times are integers, the documents
that a load may bring are finite sets of hits in the song with one hit of each id, the
rows of a group share its height evenly, the look ahead is longer than the timer's delay.

`Listening_proofs` proves of the player (any song, ring, word, chunks, stems, regions,
seeks and starts) and of the mixer (any strips, levels, stored mixes, engines and
inputs), and of both together:

| theorem | property | invariants |
|---|---|---|
| `PlayerCorrect` | `[]PlayerInv` | `PlayerIInv` |
| `EndsAreReached` | `EndIsReached` | `PlayerIInv` |
| `MixerCorrect` | `[]MixInv` | `MixerIInv` |
| `EngineIsFollowed` | `[]EngineFollows` | `MixerIInv` |
| `ListeningCorrect` | all of them, of Listening | both |

The two threads of the player share only words that wrap, so `PlayerIInv` says what they
stand for: with no flush under way, the word of the audio thread is the number of frames
consumed and the word of a streamer is its position, modulo the word; the position is
ahead of what was consumed by a ring at most, and the slots between the two have the
frames of the plan (`Streams`, `Fed`). That a difference of words is the difference of the
numbers needs the ring to be shorter than half a word, and that a word has the slot of its
number that the ring divides the word: these are `PlayPlanAssumption`, and hold in
the code for its 32-bit words and rings of a power of two. Across a seek, the flushes in
the two ports are in the order of their starts (`InOrder`), a worklet that has not seen
the last one is silent or of an earlier start, none whose timer runs is among them,
and when the last one was answered the worklet is silent and has counted from zero
(`Phases`). `MixerIInv`: until a change or a fault only what was loaded is saved
(`Quiet`, which needs that cleaning a stored mix twice is cleaning it once,
`LoadedIs`), and of the engines one at most is starting, with the mix of now, and none
plays but the current one (`Follows`).

`Pages_proofs` proves, page by page (a visit to one leaves the others alone, `PagesMove`),
for any jobs, users, files, presets, names, stages and bounds:

| theorem | property | invariants |
|---|---|---|
| `PagesCorrect` | `[]PagesInv` | `JobPageIInv`, `SessionIInv`, `ToastsIInv` |
| `QuietPagesTellTheTruth` | `[]QuietPagesAreTrue` | `JobPageIInv`, `ListIInv`, `TableIInv`, `ProfileIInv` |
| `JobsAreAskedAsShown` | `AskedAsShown` | `UploadIInv` |
| `AdminsAreLeft` | `[]AdminRemains` | `AdminIInv` |

A page is true once it is quiet because of what it is while it is not: each of these
invariants says what a request under way will do to what is shown. `JobPageIInv`: a page
that loads, or lacks the stems of what is completed, is fetching (`RowOK`); only the newest event
can be an end, so the last active one of a subscription is its last or the one before, and
that is what a stopped job is frozen at (`SubOK`, `ToldOK`); unless it shows an error the page is
subscribed to the state it shows (`KeyI`). A chunk of the stream is replayed by a
recursive function of the model (`Replayed`); that one exists, and that after each event the row
has the status of that event, is shown with a least counterexample, as the induction
theorems of the library cannot be used here. The bar needs that the stages end at rising
percentages, which `JobPageAssumption` takes from `STAGE_COPY` (`lib/stages.ts:17-25`), as it
does that no stage is an end. `SessionIInv`: what claims, tokens and an
isolated document know of each other while a request is out. `ListIInv`: rows that were read, on the screen
or on their way, say what the server says but for a deletion that was answered and not
heard of, and those that come when a deletion was heard of are asked for again. `TableIInv`:
a list that is not known to be out of date differs in the row of the change under way at most.
`ToastsIInv`: whatever is shown has a timer or a pointer on it, and something waits only
when all places are taken. `UploadIInv`: a video on show, or asked for, is of the link.
`AdminIInv`: a change that counted under the lock leaves another administrator, and no two
count at a time. `UploadAssumption` says that a visitor is offered no six stems (`Landing.tsx:46`)
and that no file is named "none", the model's word for no file.

The larger of these invariants were checked by TLC on an instance before they were proved.

Only model-checked: liveness under fairness and what a recursive operator computes, which are
out of the prover's reach. Every safety invariant and action property of a passing run has
a theorem, and so does every refinement's safety part.


## Plan

Done: the job table, leases, watchdog, worker, scaler and stream; the GPU agent with
its uploads and the job's files; the web application with the player, the mixer, the
drum editor and the pages.
Next, in order:

1. `JobLifecycle`, the abstract machine of a job as a user sees it, and
   `Pipeline`, which composes GpuLease and Worker over one job table and
   implements it; the late GPU call becomes the real one, and the agents of Runner
   its callers.
2. `Preview` (cache and limiter), `Entitlement`, the rest of accounts (sessions of
   deactivated users, the bootstrap of the first administrator, Google's keys).
3. Pure algorithms of the pipeline as operators against reference definitions:
   variable-length quantities, peak buckets, the fit of the beat grid.

Other theorems worth proving: the refinement of the lifecycle.

Not modelled, and why: subprocess wrappers (in Worker each is a stage that may
fail), file formats byte by byte, formatting, drawing, themes and static pages, HTTP
wiring and configuration, the migration runner and the one-off import of the legacy
data, the scripts around the models, and the legacy application, which the
rebuild replaces.

## Running

    tlc -workers 2 -config GpuLease.cfg MCGpuLease
    tlc -workers 2 -config Scaler.cfg Scaler
    tlapm GpuLease_proofs.tla
    tlapm Editing_proofs.tla

The module of every configuration is in the runs of `PROJECT.json`; each `*_proofs`
module is checked like the two above; the proofs of the editor take a quarter of an hour.
