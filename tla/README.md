# napflow: TLA+ models of runs, of what they leave behind, and of those who watch and edit them

napflow runs *flows*: graphs of nodes joined by edges. Messages travel along the
edges, a node fires when its inputs allow it, and a run ends when nothing is left
to do, when something fatal happens, or when someone stops it. This directory
keeps TLA+ modules that model the program, TLC configurations that check them on
small instances, and theorems about them that TLAPS proves for every instance.

Paths below are relative to the repository, so `src/napflow/core/engine.py` is the
engine. The modules are in this directory. An operator marked `mutant` is a broken form
of the definition that follows it: `PROJECT.json` names the property that fails when it
is put in that definition's place, so that every property is known to be able to fail.

## 1. Inventory

| Part | Code | State it keeps | Operations | What makes it correct |
|---|---|---|---|---|
| Run scheduler and frames | `core/engine.py` (`FlowRun`, `Frame`) | delivery queue, `_in_flight`, `Frame.in_flight`, the tree of frames, firing tasks, message budget, abort token, deadline, fatal reason | bind, seed, pump a delivery, fire a node, open and finish a child frame, cancel a subtree, time out, abort, clean up, finalize | counting is exact; a run that goes quiet is quiet; a run that is reported `passed` deserves it; every run ends |
| Loop nodes | `core/engine.py` (`_run_loop`) | item queue, results and errors by index, worker tasks in a task group | take an item, run a body frame, stop after a failure | results in index order, nothing scheduled after a stop, outcomes counted once |
| Firing rules | `core/engine.py` (`_dispatch`, `_deliver_merge`, `_deliver_guard`) | slots, merge buffers, guard counters of a node in a frame | absorb a delivery, fire, reset | rounds are not mixed, guards bound cycles |
| Python worker pool | `core/worker.py`, `core/worker_main.py` | one subprocess per `nodes.py`, its pending call, its terminal error | spawn, call, read answers, crash, terminate, kill, close | an answer settles its own call; a call that was sent is not sent again; close leaves no process |
| Event stream | `core/events.py` (`EventStream`, `SecretMasker`, `JsonlSink`) | sequence number, sinks | emit, close | gapless numbers, the file before the live view, secrets masked |
| Run history and retention | `core/events.py` (`begin_run_history` and below), `core/runprep.py` | marker files beside each log, a directory lock, an order counter | begin, complete, abandon, lease, retain, resume a deletion | what is running or being read is not deleted; a crash leaves a unit that a later process can judge |
| Blob store | `core/history_content.py` | content-addressed files | persist, resolve | a blob under its final name is whole |
| Live fan-out | `server/runs.py`, `server/app.py` (`_stream_run_websocket`) | subscribers and their bounded queues, registry of runs, deferred leases | subscribe, offer, overflow, resync, end, trim | a client sees every record once, in order |
| Run drive | `server/runs.py` (`RunManager`), `core/api.py`, `cli/main.py` | the task that owns a run | start, drive, shut down | the history is completed or abandoned exactly once |
| Replay paging | `server/app.py`, `ui/src/runview.ts` | a snapshot of a log, taken afresh by each request | page, view | one response shows one length of the log |
| Source saves | `ui/src/persistence.ts`, `server/app.py`, `core/files.py` | an editor's buffer, revision and conflict, ETags | edit, save, retry, overwrite | no edit is lost and none is overwritten unasked |
| Static checker | `core/checker.py` | none | check a flow, a workspace | the graph algorithms decide what they say |
| Flow files, templates, workspace, HTTP client, CLI, UI | `core/loader.py`, `core/templating.py`, `core/workspace.py`, `core/httpclient.py`, `cli/`, `ui/src` | files, or none | parse, render, resolve, request, print, draw | mostly data: see section 7 |

How the parts meet. The server, the API or the CLI prepares a run (`runprep`),
opens its history unit and event stream, and drives a `FlowRun`. The engine emits
events into the stream; the stream numbers them and writes them first to the log
file, then to the live sink, which offers them to the subscribers' queues. Python
nodes call the worker pool, request nodes the HTTP client. When the run ends the
stream is closed, the subscribers are ended, the history unit is completed and
old units are deleted. Replay reads logs under a reader lease. The editor writes
flow and code files through the server, which other programs may write as well.

What is hard in it: one event loop interleaves the pump, the firing tasks, timers,
the user's abort, and cancellation, which can reach a task at any await and also
before its first step; counters decide when a run is over; a fan-out mixes a file
and a queue; several processes share one history directory without a server
between them; and a save crosses a browser, a server and whatever else writes
the file. `PROJECT.json` lists these hazards at their lines.

## 2. Modules

| Module | What it is |
|---|---|
| `RunCore` | one run of the engine, with its properties |
| `RunContract` | what a run promises to whoever started it, without frames, tasks or queues |
| `MCRunCore` | the module TLC runs for `RunCore` |
| `RunCoreProofs` | proofs: types, the batch bound, exact counting, quiescence, how a run ends, `RunContract` |
| `RunFrameProofs` | proofs: the tree of frames, green runs, finished and cancelled subflows, their counters |
| `LiveStream` | the server's live view of its runs: log, live sink, queues, leases, registry |
| `LiveContract` | what a viewer of a run is promised, without any of these |
| `MCLiveStream` | the module TLC runs for `LiveStream` |
| `LiveStreamProofs` | proofs: the live view implements `LiveContract`; leases, places and the promise made to a slow viewer; the registry |
| `FlowCheck` | the static checker, as operators on documents |
| `FiringRules` | one frame at the level of single messages: which delivery fires which node |
| `MCFlowRules` | the module TLC runs for `FlowCheck` and `FiringRules` |
| `FiringRulesProofs` | proofs: complete firings and rounds, one fixture; the checker's searches; what its warnings mean for a run |
| `ParallelLoop`, `MCParallelLoop` | one firing of a loop node |
| `ParallelLoopProofs` | proofs: complete outputs, no iteration left behind |
| `WorkerPool`, `MCWorkerPool` | the Python workers of a run |
| `WorkerPoolProofs` | proofs: one process, sent once, cancelled is stopped, a crash is one |
| `RunHistory`, `MCRunHistory` | the history directory that several processes share |
| `SourceSave`, `MCSourceSave` | edits on their way from several tabs to a source file |
| `SourceSaveProofs` | proofs: which edits survive; only outside races lose |

How the modules meet:

- A run emits records until it ends (`LiveStream!Emit`, `Finish`), and it does end
  (`RunCore!Terminates`, which `LiveStream` assumes as the fairness of `Finish`). The
  engine hands events to the stream and is told nothing in return.
- `RunCore` leaves free which delivery fires which node, and what the firing sends.
  `FiringRules` has the rules, for one frame that nobody cancels; `FlowCheck` decides
  which documents it runs.
- `ParallelLoop` takes an iteration as a frame that goes quiet, passed or failed, or
  never does; what happens in such a frame is `RunCore`'s subject, and to `RunCore` a loop is
  a task that awaits something (`FiringWaits`, `IoEnds`).
- To `FiringRules` and `RunCore` a Python node awaits, then answers or fails; `WorkerPool` has
  what happens meanwhile.
- `LiveStream` lets retention take any history that has ended and is not leased;
  `RunHistory` has what retention may take and how. A reader there is a page, a
  report or a live view.

Nothing else is shared: the tabs of `SourceSave` write flows, and a run reads a flow once,
before it begins.

### RunCore and the code

The flow is not a constant. A node type matters to the scheduler only through
what a delivery to it and a firing of it may do, so the model chooses freely:
a delivery is absorbed (`PumpAbsorbs`), written to an End port (`PumpWritesEnd`),
answered inline by a merge or a guard (`PumpFiresInline`) or starts a task
(`PumpSpawns`); a task answers (`FiringAnswers`), fails (`FiringErrs`), hits an
engine bug (`FiringCrashes`), awaits I/O (`FiringWaits`, `IoEnds`) or opens a child
frame (`FlowOpens` ... `FlowReturns`). Every flow of flow nodes, requests, Python
nodes, asserts, merges, guards and End ports behaves like one of these runs.
`Features` restricts the choice, so that a run can afford larger bounds.

| Code | Model |
|---|---|
| `_queue`, `_in_flight`, `Frame.in_flight` | `queue`, `inFlight`, `frInFlight` |
| `_msg_seq` and `_budget_remaining` | `sent`, `exhausted` (the remaining budget is `Budget - sent`) |
| asyncio's ready queue, one task handle per entry | `ready` |
| where `execute()` and the pump are suspended | `pump`, `interrupt` |
| `_READY_BATCH_SIZE` and its counter | `BatchSize`, `batch` |
| `_close_runtime` | `cleanup`, `gathered` |
| `Frame.children`, hierarchical ids, `cancelled` | `frames`, `path`, `cancelled` |
| required End ports without a value | `endOpen` |
| unhandled errors and failed asserts, run-wide and per frame | `log`, `own`, `closed` |
| a firing task: its await, its frame, a pending cancellation | `pc`, `frameOf`, `childOf`, `cancel` |
| `RunResult.state` | `outcome` |

An action is everything the code does between two suspension points, because
asyncio switches tasks nowhere else: one delivery of the pump with its `_dec`, one
step of a firing with its emissions, its recorded errors and the `finally` clause.
`FiringEnds` is that last step, shared by the actions that differ only in what they
emit and record. `ready` keeps asyncio's order, which is what makes the place of a
sentinel in the queue, and a task that is cancelled before it starts, come out as
they do in the program.

Three variables are history: `stranded` counts tasks cancelled before their first
step, `sinceAbort` the deliveries consumed after `abort()`, `stopped` how the pump
ended.

### RunContract

A run has work outstanding or not, stops pumping once, and reports a state that
depends on how it stopped: a run that went quiet reports `passed` or `failed` (or
that it was aborted or cancelled while cleaning up), a run that was stopped never
reports `passed` or `failed`, and a run never finds new work once it has none.
`RunCore!KeepsContract` is that specification under a refinement mapping (`busy`
is work queued or firing, `phase` comes from `pump` and `stopped`).

### LiveStream and the code

The server is one asyncio process, so a handler's steps between two awaits are one
action. A connection awaits a send, an item of its queue, or the sending of a
close frame, and `stage` says which. Everything else (taking the lease, choosing
between subscribing and replaying, setting the cutoff, resubscribing, the
`finally` clause with the retention it triggers) is part of the step it belongs
to.

| Code | Model |
|---|---|
| `EventStream`'s counter, `ActiveRun.last_seq`, the length of the log | `seq` (the sink writes the file first and offers the record in the same step) |
| `RunManager._runs` | `registry` |
| the run's log file | `onDisk` |
| reader markers in the history directory | `leases` |
| `_deferred_readers` | `deferred`: those markers that a timer holds |
| `ActiveRun.resync_until` in the future | `reserved` |
| `ActiveRun.replay_readers`, `.subscribers` | `readers`, `subscribed` |
| `RunSubscriber.queue` and its overflow flag | `queue`; overflowed is the queue `<<RESYNC>>`, because the handler replaces the queue in the step that takes the signal |
| `_stream_run_websocket`: what it awaits, the loop it is in, `last_sent`, `through_seq` | `stage`, `source`, `last`, `through` |
| what the browser has received | `got` (history: no action reads it) |

Runs are numbered in the order in which they are started, so "newest" is
"greatest". A `Conn` is one WebSocket: a viewer that reconnects is another `Conn`.
`Emit` and `Finish` are the live sink and the end of `_drive`; `Subscribes`,
`Replays`, `ReplaysNothing` and `IsRefused` are what the handler may do with a
connection; `SendsOn`, `TakesRecord`, `TakesEnd`, `TakesResync` are its loops;
`SendTimesOut`, `SlowLeaves`, `IsCutOff` are its exceptions; `TimerReleases` and
`ReservationLapses` are the two ends of `RESYNC_LEASE_S`. Retention chooses any set
of histories that are ended and unleased, in this process (`Tidies`, which also
trims the registry) or in another (`RetainedElsewhere`, which does not): the counts
and ages it goes by are `RunHistory`'s matter.

The one fact taken from the clock: a reservation and a deferred release wait
`RESYNC_LEASE_S` (5 s), the close frame of the slow connection that set them waits
at most `WS_CLOSE_TIMEOUT_S` (1 s). Both actions therefore wait for that connection
to leave.

### LiveContract

A viewer opens, receives the records of the run's log in order, each once, may be
cut at any time, and is closed normally only when the run has ended and it has
every record. `LiveStream!DeliversTheLog` is that specification with the log's
length for `length` and the stage of a connection for its verdict.

### FlowCheck, FiringRules and the code

A document is the kinds of its nodes in file order and its edges. A merge is one kind
for each mode, an End is one kind with a required port and one without. The port
surfaces (`Inputs`, `RequiredInputs`, `Outputs`) are those of `checker.py`. The search for a
cycle is the checker's, with its stack and its colours (`Unvisited`, `Visit`, `Leave`,
`FindCycle`), as a recursive function that goes on from one state of the search to the next;
the worklist of `check_reachability` and `check_run_closure` is another (`Further`,
`Reachable`). The diagnostics that need them are sets (`RunDiagnostics`).

`Check` is the gate of `prepare_run`; `Seed` is `_seed`, with the fixtures that have no
trigger; `Dispatch` is `_dispatch` with one disjunct per rule (End, merge `all`, `any`,
`collect`, counter, timeout, other nodes); `Start` begins the oldest firing, and
`Resume` ends an await, in any order; `FileChanges` is an editor that saves the fixture.

| Code | Model |
|---|---|
| `Frame.slots`, of a task and of a merge `all` | `slots` |
| `Frame.collected`, of a merge `collect` | `collected` |
| `Frame.guards`: passes left of a counter, the clock of a timeout | `guards`: a number; 2 not started, 1 running, 0 expired |
| `Frame.variables` has something to `get` | `assigned` |
| `_fixture_cache` and the file | `cached`, `file` |
| `_emit_output`: one message per edge while the budget lasts | `Emit` |
| unhandled error outlets | `seen.unhandled`; the rest of `seen` is history too |

### ParallelLoop and the code

| Code | Model |
|---|---|
| `next_index`, or the position of the sequential loop | `nextIndex` |
| `stop`, `results`, `errors` | the same, as sets of indexes |
| the child frame of an item, its `cancelled` flag, its roll-up | `child`, `cancelled`, `closed` |
| a worker's await: its first step, the frame, the loop's session | `pc`: `new`, `waits`, `woken`, `closes`, `over` |
| a cancellation requested and not delivered | `told`, `request` |
| the exception a worker ends with | `failure` |

`Begin` and `Finish` share `Proceeds`: the loop body from one await to the next, which passes
over the items that do not bind, claims the first one that does, seeds its frame, and
ends, waits, or meets the end of the budget. `GoesQuiet` is the end of an iteration;
`Collect` what its result does; `SessionClosed` the `finally` clause of a fresh session.
`CancelFiring` and `CancelSubtree` are a ceiling of the node itself and of an ancestor;
`Deliver` and `Unwind` bring a cancellation to the firing and to a worker; `Emit`,
`Breaks`, `OutOfBudget`, `IsCancelled` are the ways out of `_run_loop`. The sequential
loop is worker 1 alone, run by the firing itself.

### WorkerPool and the code

A call is where its task awaits: the pool's `_spawn_lock` (`wantsSpawn`), the end of the old
process (`replacing`), the handshake of the new one (`spawning`), the worker's `_lock`
(`wantsWorker`), the answer (`sent`), the handling of a broken pipe (`broken`), the end of a
worker it terminates because it was cancelled (`killing`).

| Code | Model |
|---|---|
| `_workers[nodes_path]`, one number per spawn | `current`, `spawned` |
| `_Worker.dead`, the ready handshake | `dead`, `ready` |
| its future in `_pending` | `future` |
| the protocol reader: reads, waits for the process, done | `pump` |
| the process, its task and the answer in its pipe | `proc`, `request`, `reply` |
| SIGTERM with SIGKILL to follow, or EOF | `ending` |
| `close()`, and the cleanup before it | `phase` |

A process may die, fall silent or talk nonsense at any time (`ProcFails`,
`PumpJunk`). Tasks that are ready run in any order, which allows more than asyncio does.

### RunHistory and the code

A unit is a set of suffixes (`log`, `active`, `incomplete`, `complete`, `blobs`, `deleting`)
with what its last line is, the readers that lease it and its creation order.
Each process drives one run, reads one unit, or retains, one file operation at a
time; the operations that hold the directory's lock from the first to the last are
those between `StartPass` and `Unlock`.

| Code | Model |
|---|---|
| `JsonlSink`, `begin_run_history` | `CreateLog`, `AllocateOrder`, `WriteMarker`, `BeginFails` |
| `execute()`, the stream, the blob store | `PersistBlob`, `AppendReference`, `TearLine`, `Execute`, `SetupFails`, `CloseStream` |
| `complete_run_history`, `abandon_run_history`, the caller's reports | `Publish`, `ReleaseActive`, `Abandon`, `ReportFails` |
| `begin_history_reader` and its release | `OpenReader`, `CloseReader` |
| `apply_retention`: resume, list, choose, claim | `StartPass`, `ResumeClaim`, `StartListing`, `ListUnit`, `ChooseExcess`, `ClaimUnit`, `Unlock` |
| `_delete_claimed_unit`, after the lock is released | `NextJob`, `DeletePath`, `EndPass` |
| a process that dies; `.history-order.json` lost | `Crash`, `LoseCounter` |

### SourceSave and the code

Contents are numbered as they are made, so an ETag, which is a hash of a content, is
that content's number. A tab is a coordinator (`persistence.ts`) with the ETag its next
save is based on (`base`) and up to `MaxReads` reads of the file under way at once, each in
a slot of its own (`fetch`): nothing stops the user from asking for a reload again, nor a
poll from coming while another read is out, and the answers may come in any order. The
handlers of `server/app.py` hold the file's lock from their first access to their
answer, so one of them at a time is in `job`; an outside writer holds no lock and comes
between any two accesses (`WriteOutside`).

| Code | Model |
|---|---|
| `phase`, `latestValue`, `revision`, `revision > persistedRevision`, the timer | `phase`, `latest`, `revision`, `unsaved`, `timer` |
| the request of this generation, or of one that was reset | `pump`: `live`, `stale` |
| edit, flush, overwrite, reset | `Edit`, `Flush`, `Overwrite`, `Resets` |
| the answers to a save | `Saved`, `SaveFailed`, `StaleSettles` |
| what follows the file: poll, reload, opening a flow | `Poll`, `Reload`, `Open`, `Arrives` |
| `revision`, `detailVersion` and `expectedEtag` of a read, compared when it arrives | `revision`, `untouched`, `expected` of a slot, and `Applies` |
| PUT: compare the ETag, replace the file, read it again | `ServePut`, `ReplaceFile`, `AnswerPut` |
| GET: read the file, then hash it | `ServeGet`, `AnswerGet` |

`known` is history: the content on which what the tab shows is based. It is what makes a
lost update visible, since the ETag alone cannot tell the tab what it replaces. `given`, in
a read, is history too: the edit the user gives up by asking for a reload, until an answer is
applied or the user chooses to overwrite. A reload that is applied after that has been
overtaken, and `overtaken` has the edits that such reloads dropped.

## 3. Properties and what they guard against

For `RunCore`:

- `TypeOK`: in particular no counter goes below zero.
- `InFlightExact`: `_in_flight` is the number of queued deliveries, unfinished
  firings and tasks cancelled before their first step. The last term is a defect
  (section 6): with it the equation is exact.
- `QuietIsQuiet`: the run that ended on the quiescence sentinel has nothing queued
  and nothing firing, in any frame.
- `ChildIsOver`: a flow node goes on only when nothing of its child's subtree is
  queued or firing.
- `CountersMatchLog`: the per-frame counters that decide `passed` or `failed` hold
  exactly the run-wide entries below that frame, each once, although finished
  children are detached and cancelled ones are not.
- `NoFalseGreen`: `passed` means quiet, nothing recorded, no required End port
  unwritten.
- `DeadlineWins`: once the deadline has passed while the run pumps, it cannot end
  as passed or failed, whichever of the timer, the sentinel and the control point
  comes first.
- `AbortIsPrompt`: at most one more batch is consumed after `abort()`.
- `NothingLeftRunning`: no firing is alive when the state is reported.
- `CancelledIsSilent`: a cancelled frame emits, records, starts and opens nothing.
- `Terminates`: every run reports a state.
- `KeepsContract`: the refinement above.

`ChildIsOver` and `CountersMatchLog` are stated for runs that did not exhaust
their budget: a budget spent while a child is being seeded leaves that child
behind (`FlowOverspends`), in a run that is stopping anyway.

For `LiveStream`:

- `DeliversTheLog`: the refinement of `LiveContract`. The seam between file and queue
  is crossed at every subscription and again at every resync, while records are
  being appended; one record skipped or shown twice, or a normal close with one
  missing, violates it.
- `LeasesAreExact`: the markers of a run are one for each connection that reads it
  plus one for each timer, and a leased log is there. A marker dropped twice lets
  retention delete under a reader; a marker kept holds the history for ever.
- `PlacesAreExact`: subscribers and pins are exactly the connections that have a
  place, and never more than `SUBSCRIBERS_PER_RUN_LIMIT`.
- `ResyncIsPossible`: while a viewer that was closed with 4410 may come back, its
  run is registered and its log on disk, whatever retention and `_trim` do.
- `RegistryIsBounded`: every running run is registered, and no more finished runs are
  kept than `FINISHED_KEPT` unless they are used or promised.
- `ViewersAreReleased`: every connection is closed and every lease given back in the
  end; an overflow that swallows the end of the run would violate it.

For `FlowCheck` and `FiringRules`:

- `FindsCycle`: the depth-first search reports a cycle exactly when one exists, and what it
  reports is one, for guard-free edges (W101) and references between flows (E007).
- `WarningsHold`: what the checker says of a document is what its runs do. A node called
  unreachable never fires; a failure that nothing handles was warned about; a budget that
  has a message for every journey is only spent in a loop that no counter ends. A journey
  is a way over edges that are not bounded, from a root or from one of the passes of a
  counter (`Journeys`): each message of a run ends one of its own.
- `FiringsAreComplete`: a firing has a message at each required input, each from the output
  wired there; a merge's round is complete, in order, and shares no message with another.
- `OneFixture`: all firings of a run serve one version of the fixture file, whatever is
  saved meanwhile and whenever it cannot be read.

For `ParallelLoop`:

- `OutputsAreComplete`: what is emitted accounts for every item that was started, once, and
  a loop that stopped early had a failure to stop at.
- `NothingOutlives`: when the firing has ended and the run goes on, each iteration was finished
  or cancelled.
- `CancelEnds`: a cancelled loop ends, also when an iteration never would.

For `WorkerPool`:

- `NoOverlap`: one process of a module at a time, so that two never commit side effects at once.
- `SentOnce`: what was sent is not sent again, on a replacement either.
- `CancelledIsStopped`: when a cancellation is through, no process works on what was sent.
- `CrashIsReal`: a call that was sent fails as a crash only if its process failed by itself,
  never because another call was cancelled.
- `CleanupEnds`: cleaning up ends and leaves no process, also when a function never returns.

For `RunHistory`:

- `LeasedIsWhole`: a leased unit is unclaimed, its blobs resolve, and its log is there.
- `WholeOrClaimed`: a deletion that was interrupted does not leave half a unit that looks
  whole.
- `NewestAreKept`: several passes at once never claim one of the newest `History` units. Of two
  units with the same creation order, which a lost counter can make, the newer is the one
  with the later `completed_ns`, then the greater id (`Later`).
- `DrivenIsUntouched`: only its own process changes a unit whose run is under way.
- `NewRunSortsLast`: a new run sorts after all others, also after the counter was lost.
- `ClaimsEnd`: if passes are asked for again and again, what was claimed is deleted, by
  whoever comes later if need be.

For `SourceSave`:

- `EditsSurvive`: the last edit of a tab was put in the file, is in a request under way, or is
  held and shown as unsaved, unless the user chose to load the file. The code editor does not
  keep it (section 6).
- `OnlyOvertakenReloadsDrop`: what it does keep, with any number of reads under way. On the
  canvas no edit is dropped; in the code editor one is only dropped by a reload that came
  after another read was applied or after the choice to overwrite. A late answer that is
  applied although the user has typed since it was asked for would violate it.
- `OnlyRacesLose`: a save replaces something its tab did not know only if an outside writer
  wrote it between two accesses of one of the handlers that served this tab. This is
  as much as the code gives: the windows are real (section 7).
- `SavesSettle`: a tab with something to save comes to rest, saved, in conflict or failed.

## 4. Runs

| Run | Question | Bounds |
|---|---|---|
| `core_calm` | without disturbances, does every run end, keep the contract and report honestly? | 2 child frames, 3 tasks, budget 2, batch 2, fan-out 2, all features but flow nodes with nothing to run |
| `core_storm` | do the safety properties survive ceilings, the deadline, abort and the caller's cancellation together, and does the run end although its I/O never ends by itself and ceilings strand tasks? | 2 child frames, 3 tasks, budget 3, batch 1, fan-out 2 |
| `core_lost_budget` | is an exhausted budget always reported? (violated, section 6) | |
| `core_stranded` | does a run with nothing left to do end? (violated, section 6) | |
| `live_seam` | does each of two viewers get the log once and in order, and is it let go in the end? | 1 run, 2 connections, 4 records, queue of 2, 2 places, no finished run kept |
| `live_registry` | do leases, places, reservations and the registry agree, with retention here and elsewhere? | 2 runs, 2 connections, 1 record, queue of 1, 1 place, 1 finished run kept |
| `flow_rules` | does the checker say of a flow what its runs do, and does every firing get its inputs? | every wiring of 18 lists of nodes, wrong ones of one list, every reference graph of 3 flows; counts and attempts of 2, budget 16, 1 change of the file |
| `loop_iterations` | does a loop account for its iterations and leave none behind? | 4 items, 2 workers, at most 1 item that does not bind |
| `worker_calls` | do calls, spawns, crashes, cancellations and the end of the run get along? | 3 calls, 2 spawns, 1 fault |
| `history_passes` | does retention take only what it may, and finish it, when processes share a directory and die? | 2 processes, 3 runs, 1 unit kept, 1 run with a blob, 1 fault |
| `source_tabs` | does an edit reach the file or stay in its tab, and does a save overwrite only what its tab knew? | 2 tabs, 3 contents after the first, 1 read of a tab at a time, 1 fault |
| `source_reloads` | does every edit survive? (violated, section 6) | 1 tab, 3 contents after the first, 2 reads at a time |

Bounds of `RunCore`. Two child frames allow siblings and nesting, so a frame can be finished
while another of the same flow node's ancestors is open, and a subtree of depth
two can be cancelled. Three task slots hold a flow node, its child's flow node and
a node of the grandchild, or a flow node with two firings of its child racing. A
budget of two or three lets it run out inside an emission, inside a seeding and
exactly at an edge. With batches of one and two the control point falls after
every delivery and between two. A fan-out of two is the least for which an
emission can be cut in half by the budget. `RequiredEnd` is {TRUE} in these runs:
a frame whose End port is written is one without a required port from then on.

Bounds of `LiveStream`. With four records and a queue of two, a queue can fill, overflow,
be replaced, and overflow again after its resync; two connections at one run let
one overflow while the other is being replayed, and hold two leases of which one
is a timer's. The registry needs two runs, so that one can be trimmed while the
other is kept, and a single place is enough to make a connection wait for one that
is closing. That run drops the second record: what it asks is about who holds a
run, not about what is sent. Records are bounded by `MaxSeq` in the guard of `Emit`.
Every connection is one attempt, so nothing else grows. Both runs allow deadlock: a
server with no runs to start and no viewer left does nothing.

Bounds of `FiringRules`. The shapes pair every merge with what can feed it twice or never,
every guard with a reset, every error port with a consumer, and fixtures with and
without triggers; wiring each input to any output or to none yields all loops,
unreachable parts and unwired outlets of these nodes. Of the flows that run and have no
runaway loop the largest has 18 journeys; sixteen messages suffice for nearly all
of them, and are still spent by the runaway ones. `OneFunction` adds one edge too many and
references that do not resolve. Three flows are enough for a cycle behind the entry that
does not include it.

Bounds of `ParallelLoop`. Four items and two workers let one worker fail while the other is in
its second iteration and an item is left; one item that does not bind can be the first,
the last or between two that do. Bounds of `WorkerPool`. Three calls hold the
worker, wait for it and wait for the spawn lock at once; two spawns are a worker and
its replacement; one fault can fall at any step. A third spawn fails, as any spawn
may. Bounds of `RunHistory`. With three runs and one to keep, two units can be claimed, by
one pass or by two, while a third is written or read; one process dies or one operation
fails at any step, a run that is cut short being one of these faults too. Bounds of
`SourceSave`. Three contents are two edits and an outside write, or the other way round, so
one tab's save can meet another's edit and a writer from outside; the fault breaks a
request before or after the server has handled it, or a write. In `source_tabs` each tab
reads once at a time: there a reload is overtaken by the choice to overwrite.
`source_reloads` has two reads of one tab under way, and an outside write, a conflict, two
reloads and an edit between their answers. Larger instances with both are beyond a short
run; `OnlyOvertakenReloadsDrop` is proved for any number of tabs, contents and reads.

All of these allow deadlock, because their systems may come to rest: a loop that has
ended, a pool that is closed, a directory with no run left to start, tabs with nothing
to save, a frame that is quiet.

Fairness of `RunCore`. `FairSpec` says that asyncio runs what is ready, that cleanup and
finalization, which wait for nothing else, proceed, that a timer fires and that an
awaited I/O ends. `DeadlineSpec` trusts I/O less: only an await that was cancelled
is known to unwind, which is what cancelling an asyncio task does to any of the
runners. No fairness is assumed of users, ceilings or the caller.

Fairness of `LiveStream`. `FairSpec` says that a handler goes on (`Goes`: a send and a
close frame have the ceilings `WS_SEND_TIMEOUT_S` and `WS_CLOSE_TIMEOUT_S`, and an item
in the queue wakes `queue.get()`), that timers fire, and that a run ends.
Nothing is assumed of viewers, of cancellation or of retention.

Fairness of the others. `ParallelLoop`: the event loop runs the workers and the firing;
iterations need not end. `WorkerPool`: the event loop runs what is ready, a process told
to end does (SIGKILL follows SIGTERM), and cleanup cancels every firing; functions and
imports need not end. `RunHistory`: a pass that is asked for is begun when the lock is free
and goes on; nobody has to ask, which is why `ClaimsEnd` is conditional. `SourceSave`:
timers fire, a tab handles its answers, a handler that has begun goes on, and the server
gets to each save at last (strong fairness of `ServePut`, since polls may be
ahead of it again and again). `FiringRules` has no liveness property: a flow
may loop.

`core_calm` checks termination under `FairSpec`, without disturbances; `core_storm` under
`DeadlineSpec`, where a ceiling may strand a task and leave the in-flight count above zero:
such a run never goes quiet, and it is the deadline that ends it.

## 5. Proofs

For `RunCore`, everything below holds for every number of frames, tasks and edges, every
budget and batch size, every set of features and disturbances: the only assumption is
`CoreAssumption`, which says what kind of values the constants are.

- `AbortIsPromptAlways` (`RunCoreProofs`): `Spec => []AbortIsPrompt`. The invariant `TypeInv`
  types every variable, with the two counters as integers only, and `BatchInv` ties
  `sinceAbort` to what is left of the batch: the count can only grow while the batch
  shrinks, and a new batch starts only where `aborted` has just been read as false.
- `InFlightIsExact` (`RunCoreProofs`): `Spec => []InFlightExact`. `CountInv` adds to the
  equation that message ids rise along the queue and stay below `sent`, so that new messages
  are new elements of the set that is counted, and that each frame's own counter is at least
  its load. `UnopenedInv` (a frame not yet opened has a zero counter) is needed because
  opening a frame overwrites its counter. Each action is reduced to what it adds to the load
  of an arbitrary set of frames: `Msgs` adds `Room(k)` ids, starting tasks adds their
  number, a consumed delivery or an ended firing takes one away (`EmissionGain`,
  `QueueGain`, `TailIds`, `DisjointCard`, `CountStep`).
- `TypesAlways`: `Spec => []TypeOK`. The counters are natural numbers because they are at
  least a cardinality; nothing in `_dec` itself says so.
- `QuietMeansQuiet`: `Spec => []QuietIsQuiet`. `QuietInv` says that a quiescence sentinel in
  the queue, and a run that obeyed one, mean `inFlight = 0`; with the count exact, nothing
  can be queued or firing, and since only work creates work, nothing will be.
- `DeadlineAlwaysWins` and `ContractIsKept`: `Spec => []DeadlineWins` and `Spec =>
  KeepsContract`. What makes them hard is that a reason to stop is recorded at one place and
  read at another, after the queue. `FatalInv` says that, until the pump has stopped, a
  recorded reason has its sentinel in the queue with no quiescence sentinel before it
  (`FatalFirst`), that this sentinel is there only with a reason, and that a run that
  stopped quietly has none. `StageInv` orders the pump's end, cleanup and the report. Each
  step then maps to one of the contract's or to a stutter.
- `NothingIsLeftRunning`: `Spec => []NothingLeftRunning`. `GatherInv`: while cleanup waits,
  every unfinished firing is among those it waits for and has been told to stop; such a
  firing can only end, so none is left when the wait is over.

The tree of frames (`RunFrameProofs`, on top of these). `TreeInv` is what a path means:
`PathInv` (paths are closed upwards), `CancelInv` (a cancellation reaches everything below,
firings included) and `AwaitInv` (a flow node waits alone, for a frame right under its own).
`Moves` is what any step may do to the tree and to the firings in it; the lemma `TreeStep`
shows it of each action once, and `CancelledStaysSilent` and `CountersHold` then need not
look at the actions for it again.

- `NoGreenIsFalse`: `Spec => []NoFalseGreen`. `EndInv`: an unwritten required End of a frame
  that was not cancelled belongs to the root, to a frame somebody waits for, or to a run
  that already has a failure on record. A quiet run has no waiting firing, and `_finalize`
  has looked at the root.
- `ChildIsAlwaysOver`: `Spec => []ChildIsOver`. The code asks only whether the child's own
  counter is zero. `WaitedInv` says that every other frame with work, the cancelled ones
  apart, has a firing that waits for it and cannot go on yet, so that the frame above it has
  work too. Of the frames below the child with work, take one whose path is smallest
  (`LeastFinite`): the frame above it has a smaller path (`NothingBelow`).
- `CancelledStaysSilent`: `Spec => CancelledIsSilent`. By `CancelInv` a firing in a
  cancelled frame has been told to stop, so it emits nothing; the pump passes over what is
  queued for it; and whatever another step sends goes to the frame of that step, which is
  not a cancelled one.
- `CountersHold`: `Spec => []CountersMatchLog`. `HeldInv` says where an entry is counted
  once the frame it is about has been detached: at the lowest active frame above it. That
  there is one lowest needs that the frames above a frame form a chain (`ChainInv`), and
  that it is still active when a flow node returns needs `ActiveInv`. The sums over a
  subtree follow.

For `FiringRules`, everything holds for any lists of nodes and every way to wire them, any
counts, attempts and budget (`LimitsAssumption`: numbers, of which those the schema
requires to be positive are; `ShapesAssumption`: the lists are lists of kinds, and those that
get a wrong edge have the two nodes it may connect; `WorkspacesAssumption`: a workspace
has finitely many flows, which are numbered).

- `FiringsAreAlwaysComplete` (`FiringRulesProofs`): `Spec => []FiringsAreComplete`. `GateInv`
  is what the gate is good for: a flow that runs has one output at most at each input and one
  at each required input (`Sound`). `QueueInv`: the messages of a queue are numbered in order
  and each is where an edge brings it, so that a message that was dispatched is older
  than all that are queued (`Old`). `RoundsInv` and the conjuncts about slots and
  buckets then say that what a merge keeps is later than all its rounds (`After`), that two
  slots hold two messages, and that a bucket is smaller than a round, so that rounds never
  share a message. Whatever a node sends, `Emit` keeps this (`SendingAdvances`), and
  `NodeReceives` leaves to each dispatch only the node it goes to. That the fixtures
  without a trigger are fired one for each rank needs that every rank exists (`Ranked`).
- `OneFixtureAlways` (`FiringRulesProofs`): `Spec => []OneFixture`. `ServedInv`: what was
  served is what is cached, and a version that is cached is not 0.
- `FindsCycleAlways` (`FiringRulesProofs`): `Spec => []FindsCycle`, for graphs of any size. A
  recursive function is only known to satisfy its equation if some function does:
  `TailRecursion` builds it, for any recursion whose next state has less left to do, from the
  sequence of states that begins at each state and its first final one. The search does
  `Work` (two for a white node, one for a node of the stack), and each visit and each leave
  does some. `TailInduction` carries an invariant to the answer, and `Sane` is that
  invariant: the stack is a simple path of the gray nodes, and the black nodes are closed
  under the edges and on no cycle. So an empty stack without a white node means that there
  is no cycle, and a gray successor closes one (`ClosesCycle`). `ReachableIsLeast` does the
  same for the worklist: it finds the least set with the roots that is closed under the edges.
- `WarningsHoldAlways` (`FiringRulesProofs`): `Spec => []WarningsHold`. For the first two
  clauses `WarnedInv`: whatever is queued, ready or awaited is at a node of `Reached(doc)`
  (`WithinReach`, `TasksWithinReach`), what has happened is what the edges let expect
  (`Expected`), and the report names the outlets that are not wired (`ReportInv`). For the
  budget `LedgerInv`: what was sent, and what is still owed, has a journey each
  (`Balanced`: an injection of `Owed` into `Journeys`). Owed are, for each item at a node, the
  ways on from there, and for each pass that a counter has left, the ways on after it. At
  first that is the journeys themselves (`RootsAreOwed`). What a node sends, with all that
  may follow, is paid for by what was owed to the item that is used up, or by the pass that
  the counter spends (`SendingIsPaid`: `FreePays`, `LapPays`); this needs that a way never
  comes back to where it began, which is where the loop without a counter would be
  (`NoWayBack`, `WayOn`). A dispatch, a start and the end of an await move items or drop
  them (`Covers`), which owes no more than before. So as long as the budget has a message
  for each journey, there is room for every message (`BudgetLasts`), and `exhausted` is not
  reached. Counting what is owed would need sums over a graph; an injection does not.

For `LiveStream`, everything holds for every number of runs, connections and records and
every limit (`LiveAssumption`: numbers, positive limits, finitely many connections).

- `DeliversAlways` (`LiveStreamProofs`): `Spec => DeliversTheLog`. What a viewer has says
  nothing about what it will get, so the invariant speaks of the seam. `Seam(c)` says that
  the viewer has `last` records, that the pending send is the next one, and that the queue
  holds, after what the file range or the pending send will bring, every later record of the
  log and nothing else, then `END` exactly when the run has ended (`QueueFrom`); or it has
  overflowed, holds the signal alone, and the file has everything. Offering, taking and
  replacing a queue keep this (`OffersRecord`, `OffersEnd`, `TakesNext`, `TakesLast`,
  `StartsHere`). The contract's steps follow from it one action at a time.
- `LeasesAlways`, `PlacesAlways`, `ResyncAlways` (`LiveStreamProofs`): `Books(r)` counts the
  markers, the pins and the places of a run, `Place(c)` ties a connection's stage to what it
  has taken, `Held(r)` says that a leased log is on disk and that a reservation has a timer,
  hence a lease, and a registered run behind it. The counts are sums over sets of
  connections, of which a step moves one (`Counted`, `Moved`). `SeamInv` supplies the types.
- `RegistryAlways` (`LiveStreamProofs`): `Spec => []RegistryIsBounded`. The registry is
  trimmed where a lease is given back or a run ends, and at no other place, so an idle run
  must not come about elsewhere. The departure of a slow viewer trims nothing and could make
  its run idle; but a timer is behind each closing connection (`TimedInv`): it holds the
  run, and trims when it fires. That `_trim` itself keeps at most `FINISHED_KEPT` idle runs
  is `FewKept`: all those it keeps but the oldest are behind the oldest, and there are fewer
  than that many of them.

For `RunHistory` (any number of processes, runs and faults, any `History` of at least one;
`NamesAssumption`, `HistoryAssumption`, `BoundAssumption`, and `StampAssumption`: the stamps that
break ties are in any order, but differ):

- `LeasedIsWholeAlways`, `WholeOrClaimedAlways`, `DrivenIsUntouchedAlways`
  (`RunHistoryProofs`). A pass judges a unit under the directory's lock, claims it later in
  the same hold of the lock, and deletes it after that without the lock. What carries all
  three is that a judgement cannot go stale: a unit found finished, unmarked and unread
  (`Judged`) is driven by nobody, and nobody can open it while the lock is held or once it
  has its tombstone. So `PassInv` may say of every unit that a pass has listed, chosen,
  claimed or is deleting that it is judged still. `DrivenInv` says what a run that is under
  way has on disk and that it is alone, `ReaderInv` that a reader's unit is unclaimed and
  whole, `UnitInv` that the log goes last.
- `NewestAreKeptAlways`: `Spec => []NewestAreKept`. `SpareInv`: a unit that was ever
  claimed, or is about to be, has `History` kept ones that are later above it
  (`Spare`; `Later` is transitive). A claim takes one unit away from what is above the lower ones; but that unit is
  spare itself, and what is above it is above them too. `ListInv` keeps the orders a listing
  has read in step with those in the directory.
- `NewRunSortsLastAlways`: `Spec => NewRunSortsLast`. The counter and the orders have a
  common bound (`OrderInv`), so the greatest order on a marker exists and the next one is
  above it, also when the counter file was lost.

For `ParallelLoop` (any list, any number of workers; `SizesAssumption`):

- `CompleteAlways` and `NothingOutlivesAlways` (`ParallelLoopProofs`): `Spec =>
  []OutputsAreComplete` and `Spec => []NothingOutlives`. The invariant says who answers for
  an item. `HolderInv`: a worker at an await has an iteration of its own that nobody has
  collected. `CollectedInv`: what is collected was claimed, and its frame was finished if it
  had one. `CalmInv`: as long as nothing is cancelled and nobody has failed, an item below
  `nextIndex` is collected or held. `FrameInv`: as long as nobody has failed, a frame was
  finished, or cancelled, or is waited for. When all workers are over nobody holds anything,
  and the two properties are what remains. `Ready` is the invariant of a worker between two
  iterations, from which `Proceeds` starts (`LeavingKeeps`, `SeedingKeeps`).

For `WorkerPool` (any number of calls, spawns and faults; `NoCallAssumption`,
`BoundsAssumption`):

- `NoOverlapAlways`, `SentOnceAlways`, `CancelledIsStoppedAlways`, `CrashIsRealAlways`
  (`WorkerPoolProofs`). Two exclusions carry all four. Under the spawn lock (`SpawnInv`),
  who replaces or spawns is alone with the current worker, that worker is the latest, and
  every other process is over. Under the worker's lock (`HandedInv`), the call that was sent
  is the only one its process's end can concern: if its worker is known to be dead, the
  process failed by itself, because whoever terminates a worker that lives has its lock or
  is alone with it. `SentInv` says where a call can be that has sent something; `WorkerInv`
  that nobody is told to end before it is known to be dead. `MoveKeeps` and `LocalKeeps`
  reduce each step to the call that takes it.

For `SourceSave` (any tabs, contents and faults; `NoClientAssumption`, `BoundsAssumption`):

- `OnlyOvertakenReloadsDropAlways` and `OnlyRacesLoseAlways` (`SourceSaveProofs`). `EditInv`:
  the last edit is in the file, or is the coordinator's unsaved latest value, or was dropped
  by an overtaken reload, with `PumpInv` for what a phase says of the request. `ReadInv`
  is about the reads: a reload that nothing has overtaken and that finds its revision again
  finds the edit it was asked to give up, because only a reset makes the revisions go back
  and a reset overtakes every other read (`Outdated`). `TagInv` and `JobInv` follow an ETag: in the handler that
  computed it, in the answer, as the base of the next save and in that request it names the
  content that travels with it, or one written from outside inside a handler that served the
  tab (`Names`). So a comparison that succeeds means that the tab knows what is replaced, or
  that there was such a write.

Model-checked only:

- the liveness properties `Terminates`, `ViewersAreReleased`, `CancelEnds`, `CleanupEnds`,
  `ClaimsEnd`, `SavesSettle`: fairness and ENABLED are out of the prover's reach;
- the three findings of section 6, which are counterexamples.

The library's induction theorems take an operator as a parameter, which the provers cannot
instantiate. Where an argument is an induction in disguise (the lowest active frame, the way
up to the child, the oldest idle run, the greatest order, a loop that is followed
backwards) the proofs take a least element of a well-founded relation instead (`WFMin`),
which is a first-order fact. The recursive functions of the checker are proved about in the
same way: they are tail recursions, whose value is that of the first final state.

## 6. Where the code and its documents disagree

- `core_lost_budget`: the engine specification says an exhausted budget makes a run
  `error`. The budget can run out while a node *error* is being emitted, inside an
  `except` clause of `_fire`; the exception then leaves the task without reaching
  any handler, and the run goes on and may end `passed`.
- `core_stranded`: the specification says a run ends when nothing is in flight. A
  firing is counted when its task is created and counted off in the task's own
  `finally` clause; a task cancelled before its first step never gets there. Without
  a deadline the run then never ends.
- `source_reloads`: FR-1110 of `docs/REQUIREMENTS.md` says that stale responses cannot
  overwrite current state. `reload()` of the code editor takes an answer as current when
  the coordinator's revision is what it was, but `reset()` starts the revisions again at 0.
  The trace: a save meets a conflict at revision 1; the user asks to reload, and asks again;
  the first answer is applied; the user makes one edit, revision 1 again; the second answer
  is taken as current and the edit is gone, unsaved. The canvas compares ETags and
  a generation that never goes back, and does not have this.

## 7. Not modelled

`RunCore`. Message values, templates, coercion and asserts' conditions. Loop nodes are
`ParallelLoop`'s. Budget warnings, events, node diagnostics and statistics:
nothing in the scheduler reads them. `abort()` happens once per run, because a second
call only adds sentinels behind the first.

`LiveStream`. The server's shutdown; history files that cannot be created, read or removed
(an OSError ends a connection as `IsCutOff` does, or is logged); the masking of secrets;
how often the browser asks again after a resync. A record is its number.

`FlowCheck` and `FiringRules`. E009, E011, E012, W102, W105 and W107 are about text, names, port
types and the environment. Edges are a set, so an edge that is written twice is not told
apart. Flow and loop nodes are not among the kinds. The budget's end stops the run at
once, except where `_fire`'s `except` clauses lose it; `RunCore` has the steps between. All
fixtures of a run share one file. Its path is resolved at each firing, and that may fail
although the content is cached; bytes that are not UTF-8 are an error no handler of a node
expects and end the run as `internal_error` (`Crashes`). W101
asks for a guard in every cycle and the engine does not make every guard a bound: a
timeout lets any number of laps through before it expires, and a counter whose `reset` is
part of the loop, or that is left through `exhausted`, never ends it. `HasRunaway` says so.

`ParallelLoop`. What an iteration does in its frame. In a parallel loop the end of the
budget, and an iteration that is woken after its frame was cancelled, leave the
TaskGroup as an exception group, which no handler expects: the run ends as
`internal_error` where the sequential loop reports an exhausted budget (`Breaks`,
`OutOfBudget`).

`WorkerPool`. Encoding of values, captured output, and several `nodes.py` in one pool, which
share only the spawn lock.

`RunHistory`. The reads that judge one unit in a listing are one step. A report and an
index file go with the `complete` marker and the blobs. Malformed metadata, units from
before there were markers, quotas of the blob store, and `RunManager.shutdown` are left
out. Faults, deaths and runs that are cut short share one bound.

`SourceSave`. One file at a time. A
poll's request for the ETag is one step. Creating, renaming and deleting flows, and the
refusal to open a flow while another editor is blocked, are left out. The three windows
in which an outside write is lost are in the model: between the comparison of the ETag and
the replacement; between the replacement and the final `_etag`; and, when a file is
read, between its content and its `_etag`.

Not at all: replay paging (each request takes a snapshot of its own and reads an append-only
file up to it),
path handling, YAML, templates, HTTP, the command line and drawing, which are data or
I/O without interleavings of their own. `PROJECT.json` says so part by part.

## 8. Plan

Modelled so far: the engine, loops, firing rules and checker, workers, history, the live
view and saves. Proved: all safety properties of the runs that pass, and both refinements.
What is left is models: the arithmetic of a replay's pages, `RunManager.shutdown` beside
`LiveStream`, and the keyed merge of a flow file.
