# CPSSim: TLA+ models, model checks and proofs

CPSSim simulates the scheduling of a cyber-physical system: periodic tasks execute on exclusive
resources under fixed priority, completed jobs send messages over links with a fixed delay, and an
optional functional model (an FMU) is advanced along. A headless kernel computes a canonical
event trace; a workbench runs that kernel interactively, publishes snapshots and analyses
completed runs.

This directory models the part of the program whose correctness does not follow from reading one
function: protocols between components, orders of events, interleavings of threads. Paths are
relative to the repository; `kernel/…`, `model/…` and so on abbreviate `src/cpssim/kernel/…`.

## 1. Inventory

| Component | State | Operations | Used by |
|---|---|---|---|
| Pending-event queue (`kernel/event_queue`) | pending events, next insertion sequence | `schedule`, `next`, `pop_next` | everything in the kernel |
| Periodic releases (`kernel/periodic_release`) | per task: next release tick and job number, the pending candidate's resource | `schedule_initial_releases`, `release` | engine |
| Scheduling domain (`kernel/scheduler`, `model/runtime_state`, `policy/fixed_priority`) | jobs, execution interval and busy account per resource, Ready vectors | `submit`, `process_completion`, `process_deadline`, `schedule` | engine |
| Network (`network/fixed_delay_network`) | message records and their lifecycle | `publish`, `process_send`, `process_delivery` | engine |
| Engine (`kernel/simulation_engine`) | clock, trace, flags | `step_to_next_event`, `run` | controller, command line |
| Configuration, placement, run plan (`model/experiment_config`, `policy/resource_allocator`, `model/run_plan`) | immutable | constructors that validate, normalisation | engine, drafts |
| Functional runtime (`functional/functional_runtime`) | current tick, observation rows, "actions applied" flag | `initialize`, `advance_to`, `apply_actions`, `finalize`, offline replay | engine, conformance |
| FMI importer (`fmi/fmi2_importer`) | library, component, lifecycle | `initialize`, `set_*`, `step`, `terminate`, destructor | Bosch adapter |
| Bosch adapter and FMU (`bosch/bosch_fmi2_functional_model`, `bosch/trigger_encoder`, `LateralMotionControl`) | pending pulses, current tick; the FMU's signal chain, packet rings and metric windows | `initialize`, `apply_actions`, `advance_to`; `DoStep` | functional runtime |
| Bosch experiments and conformance (`bosch`, `conformance`, `time`) | none | readers, run requests, projections, comparisons | drivers |
| Controller and session (`gui/simulation_controller`, `gui/simulation_session`) | command FIFO, run state, generations, draft | `enqueue`, `update`, `reset`, `apply_draft` | workbench |
| Completed-run finalizer (`analysis/completed_run_finalizer`) | requested generation, state, pending result or error, worker thread | `request`, `cancel`, `reset`, `take_publication` | workbench |
| Workbench (`application/workbench_application`) | session or project, draft, published snapshot, result cache | `update`, `replace_*`, `apply_system_draft`, ... | both front ends |
| Projects (`application/project`) | files of a project directory | `create_project`, `load_project`, `save_project`, `save_project_as` | workbench |
| Editable draft (`gui/editable_system_draft`, `apps/qt_gui/structural_edit_controller`) | edited rows, assignments, undo stack, dirty flags | edits, undo, apply, save | front ends |
| Workspace (`gui/workspace_state`) | settings, tab groups, dragged boxes | configure, move, save, load | front ends |
| Run results and export (`analysis/run_result`, `application/result_export`) | a result directory being staged | metrics, ranges, tables, export | finalizer, user |
| Presentation (`gui/*_model`, `gui/architecture_graph`) | incremental caches of timeline, signals, events, plots | rebuild or extend from a snapshot | views |
| Recent projects, layout store (`application/recent_projects`, `application/gui_layout_store`) | list, staged window arrangement, their files | open, remove, capture, save | front ends |
| Documents (`config`) | none | parse and serialize configurations and plans | projects, command line |
| Front ends, command line (`apps`) | widgets, selection | drawing, dispatch | user |

Interactions. The engine owns the kernel's parts and calls them synchronously; they communicate
through the one event queue and through return values. The functional runtime is called before
and after each tick; the Bosch adapter behind it drives the FMU through the importer. The
controller calls one engine step per transition and exposes copies. The workbench runs on the GUI
thread; the only other thread is the finalizer's worker, which shares a mutex-protected slot with
it and wakes the GUI through a callback. Every publication reaches the views at once; they keep
what they derived from the one before.

What is hard:

* **Stale candidates.** The engine charges execution per interval and predicts completions with
  events it cannot remove; preemption leaves candidates behind that must be recognised later.
* **Same-tick order.** Completions, deliveries, deadline checks, releases, decisions and sends of
  one tick are ordered by phase, and every verdict depends on that order. The FMU orders the
  triggers of one tick again, and a value that passes one stage early is one period too new.
* **Boundaries.** The horizon is inclusive; a release, completion, deadline, send or delivery can
  lie on it.
* **Exceptions in the middle of a tick**, and calls into a foreign library each of which may fail.
* **Two threads** around a finalization, and generations that restart with every new session.
* **Several files** behind one saved project or one exported result.
* **Long sequences of edits** with identifiers that are renumbered, merged and reused, under undo.
* **Caches that extend what they have** when a new snapshot seems to continue the old one.

What makes each component correct: the queue hands out events in canonical order; the kernel
computes the same schedule as tick-by-tick fixed-priority execution; the trace alone accounts for
every job; each completion sends one message per link, on time; replay reproduces a functional
run; an FMU output goes back to exactly the samples its triggers have carried; a slave is freed
once; a published result belongs to the run on screen; a saved project can be loaded and a
published export is whole; a draft refers to nothing that is gone; a cache equals a rebuild; a
document reads back as what was written. The complete list of hazards, each at its line, is in
`PROJECT.json`.

## 2. Modules

| Module | Models |
|---|---|
| `EventQueue` | the queue as a value: events, phases, canonical order, insertion |
| `EventQueueAllocator` | the queue as a component, with the finite domain of insertion sequences |
| `ExperimentConfig` | the validated input of a run: `ValidConfig`, routes, demand |
| `EngineState` | variables shared by the engine's parts: position in the step, clock, queue, trace |
| `PeriodicRelease` | the tasks' pending releases and successor computation |
| `Scheduler` | jobs, resources, Ready membership, policy, charges and candidates |
| `FixedDelayNetwork` | message records, sends and deliveries |
| `SimulationEngine` | `Init`, `Next`, `Spec`: composes the three |
| `EngineInvariants` | type invariant and state invariants, as named conjuncts |
| `EngineProperties` | a reference (fixed-priority execution, tick by tick, without events) and agreement with it; trace, accounts, messages, action properties, termination |
| `EngineProofs` | theorems of the engine's state: types, membership, pending events, decisions |
| `EngineHistoryProofs` | theorems of its history: trace, messages, time charged; sums over finite sets; theorems of the accounts, and of what the trace tells |
| `EngineReferenceProofs` | theorem: the engine computes what tick-by-tick execution computes |
| `MCSimulationEngine` | configurations for the model checker |
| `FunctionalRuntime` | the functional runtime and a functional model as one value, with adapters that misbehave |
| `FunctionalEngine` | the engine with a functional model, tick by tick, and the offline replay of its trace |
| `FunctionalProofs` | theorems of the engine with a model, and of the replay |
| `MCFunctionalEngine` | inputs with and without a functional model |
| `LateralMotionControl` | the lateral-motion FMU (C code) as a value: variables, triggers, signal chain, packet rings, metrics |
| `BoschFunctionalModel`, `TriggerEncoder` | the adapter that drives that FMU, and the projection of events to its triggers |
| `BoschRun` | a nominal schedule told to the adapter, and what it must then show |
| `BoschProofs` | theorems of that run: the pulses told, the signals observed |
| `Fmi2Importer`, `SlaveProtocol` | the importer against a slave whose every call may fail; abstract: the order of calls a slave may see |
| `ComponentProofs` | theorems of the importer, of the queue as a component, of the finalizer, and of the document under edit |
| `BoschConformance`, `BoschExperiment` | comparison with the captured reference; readers, requests, exact time conversion |
| `BoschSuite` | the Bosch parts and `EventQueueAllocator` side by side |
| `ResultService` | abstract: one open request, answered at most once |
| `CompletedRunFinalizer` | the finalizer: calls of its client thread, worker thread, wake-up |
| `FinalizerClient` | the finalizer under its most general client, its properties, the refinement mapping |
| `SimulationController` | what one update makes of a session, its queued commands and its engine |
| `Workbench` | GUI thread: timer and posted calls, updates, publication, project operations; composes the two; its properties |
| `WorkbenchProofs` | theorems of the workbench |
| `ProjectStore` | the files of projects, one file operation per step, with failures and crashes |
| `SystemDraft`, `DocumentEditing` | edits of a system; undo, apply, save, open and close around them |
| `WorkspaceState` | the presentation workspace and its file |
| `ObservationCaches` | timeline, signals, event table and plot: what each keeps between snapshots |
| `RunResults` | metrics, ranges, exported tables, thinning, plot lanes; the staged export |
| `ConfigDocuments` | configuration and plan documents in all their versions |
| `FrontendFiles` | recent projects and window arrangements |
| `ArchitectureGraph` | the description of an experiment and the graph drawn from it |
| `ProjectSuite` | the parts around a project side by side |
| `ProjectFilesProofs` | theorems of the project files, the export and the front end's files |

State and code. `config` is `ExperimentConfig` plus the placement and the stop tick. `queue`,
`tick` and `trace` are `queue_`, `current_tick_`, `trace_`. `release[t]` is a `Task`'s next tick,
next job number and captured resource. `jobs` is the scheduler's job store as a function from
identity to record; `resource[r]` is `Resource` (`running`, `since`, `expected`, `busy`);
`ready[r]` is the Ready vector as a set, since the policy reads no order from it. `messages` is
the network's vector; a message's identifier is its index. `stage`, `todo` and `batch` stand for
the program counter inside `step_to_next_event()`: which loop runs, what it has still to visit,
and the local vector of popped releases.

Every action of `SimulationEngine` is one iteration of one of those loops:

| Action | Code |
|---|---|
| `QueueFirstRelease`, `Initialized` | `initialize()` |
| `BeginTick`, `FinishEmpty`, `EndTick` | `step_to_next_event()` and the ends of `process_event_tick()` |
| `AcceptCompletion`, `IgnoreStaleCompletion`, `DeliverMessage`, `CheckDeadline` | `process_pre_scheduling_event()` |
| `PublishRoute` | one route in `FixedDelayNetwork::publish()` |
| `CollectReleases`, `ReleaseJob`, `ReleaseRefused` | `process_release_batch()` |
| `LeaveResource`, `Dispatch`, `Preempt` | one resource in `Scheduler::schedule()` |
| `RecordDecision`, `SendMessage` | `process_post_scheduling_events()` |
| `StepAfterEnd` | `step_to_next_event()` on a finished engine |

A throw is a transition to the stage "failed" that keeps whatever the handler had changed: no
caller of the engine catches it and continues. `fault` tells the causes apart; "inconsistent" is
every `logic_error` that guards the kernel against its own state, and the runs show that it is
unreachable. Left out because nothing the properties state depends on it: names, the physical tick
period, `JobState::cancel` (never called), and exhaustion of the sequence domain inside a run
(`EventQueueAllocator` treats it).

The finalizer. `request()`, `cancel()` and `reset()` each ask the worker to stop and join it, so a
call is two steps of the client: `BeginCall`, then `StartWorker`, `RequestRefused`, `FinishCancel`
or `FinishReset` once the worker has returned. The worker takes one step per lock section:
`CheckStop` or `BuilderThrows`, `StoreResult` or `StoreError`, and `Notify` outside the lock.
`call` is the call in progress, `worker` the thread with its request, stop token and copied
wake-up, `wakeups` the calls posted to the client; the other variables are the members.
A result is represented by the request it was built for.

The workbench. `session` is the active session with its generations; `run` names the engine it
owns, which the code does not do: generations restart with every session, and the properties have
to tell two engines with one generation apart. An engine is the number of its transitions.
`commands` is the FIFO, `shown`, `published`, `progress`, `completed` are the caches of
`WorkbenchApplication`, `pump` is the bridge's timer, pending flag and posted zero-delay calls.
A handler of the GUI thread is one step, since the worker reads nothing of the session, except
where it calls into the finalizer: `gui` then names the handler and the step that ends it follows
the return of the call.

| Action | Code |
|---|---|
| `ContinuationFires`, `LiveTimerFires` | `process_once()`: `Update`, `NothingToUpdate`, `UpdateThrows` |
| `AfterRequest`, `AfterReset` | the rest of `WorkbenchApplication::update()` and `schedule_for_run_state()` |
| `ProcessBackgroundPublication` | `process_background_publication()`, `publish_ready()` |
| `Enqueue`, `SetMode` | the bridge's commands, `workspace_settings_changed()` |
| `BeginReplace`, `FinishReplace`, `ReplaceFails` | `open_project`, `create_project`, `save_project_as`, `replace_*` |
| `BeginClose`, `FinishClose` | `close_project` |
| `BeginApply`, `FinishApply` | `apply_and_restart` with a run configuration or an edited system |
| `BeginApplyAndSave`, `BeginSaveClean`, `FinishSave` | `apply_and_save_project` with and without changes |
| `CloseWindow`, `CancelBackgroundWork`, `ShutdownReturns` | `shutdown`, `cancel_background_work` |

After shutdown every slot returns at once; those steps are left out. An exception of the engine
leaves the event loop and ends the program through the bridge's destructor, hence `UpdateThrows`
begins the shutdown. Applying while a run is in progress is prevented by the widgets, and guarded
in the model. Selections, drafts and files are not represented there; drafts and files are the
subjects of `DocumentEditing` and `ProjectStore`.

The functional model. `online` pairs the runtime (current tick, rows, status, "actions applied")
with the model it drives, the repository's deterministic mock whose observation counts the actions
it has seen. `StartModel`, `BeginTickWithModel`, `EndTickWithModel` and `FinishEmptyWithModel` are the
engine's actions with the call of the runtime that belongs to them; `Answer` enumerates what an
adapter may do: behave, throw, return too few rows or rows of other ticks. `ReplayStart`,
`ReplayBatch`, `ReplayLateBatch` and `ReplayFinish` are `replay_functional_trace()`.

The FMU. A vector is a stamp of the vectors it was computed from, a physical state is its number
of simulated steps; the matrix arithmetic disappears, every copy, ring index, trigger and packet
stays. `BoschRun` tells the adapter the events of a nominal schedule (six tasks, an uplink and a
downlink) and states what the command on the wheel must be a function of.

The importer takes one step per call into the slave; `slave` records what each call did to the
instance whatever the importer believed, and `fault` a call on a null or freed one.

Projects. `disk` maps the directories there are to their files; a file holds the version that was
written. `operation` is the write in progress: the list of files, how many are renamed, whether
the next one is staged. `Stage` and `Rename` are the two halves of `write_text_atomically()`;
`Fail` may end any of them, `Crash` ends the process. `attempts` is a history of the snapshots
given to saves, for the property only.

Drafts. A name is the sequence of choices that made it, an identifier a number. `history` and
`position` are the undo stack with the snapshot before and after each edit; the bridge's, the edit
controller's and the workflow's handlers are whole actions.

Caches. `timeline`, `signals`, `table`, `plot` are the members of the four caches; `shown` is the
last published snapshot. The runs they show are two fixed logs whose generations and lengths can
coincide.

## 3. Runs

| Run | Question | Instance |
|---|---|---|
| `engine_single` | Does the engine compute fixed-priority execution on one resource, with exact accounts, verdicts and trace, and does it return? | 2306 configurations: 2 tasks, horizon 6, tick domain 9, both preemption modes |
| `engine_network` | The same with two resources and messages, with and without a functional model; is every message on time; does the model see each tick's actions once, online and in replay? | 3 tasks, 2 resources, horizons up to 7, five route sets, an adapter that may fail at every call |
| `engine_zero_delay` | Is every route the configuration accepts simulated? (expected to fail) | 16 configurations |
| `finalizer` | Do worker and client agree on the open request; is every request answered; is it the abstract service? | 2 generations, 2 runs, 2 posted wake-ups |
| `workbench_all` | With every operation in any order, do snapshot and result belong to the active run, and does shutdown leave no thread? | 3 engines of 2 transitions, 2 queued commands, 2 posted calls |
| `workbench_drive` | Is queued or running work always driven, and nothing else; does a running session advance, and a finished one get its result? | 2 engines, 1 queued command; no failed load, no saving |
| `bosch` | Does the FMU, driven tick by tick, show what its schedule implies; does a slave see the documented calls; is the queue canonical up to its last sequence number; are readers and comparisons right? | see below |
| `project` | Do project files survive failures and crashes; do drafts, workspace, caches, exports and front-end files stay consistent; do documents read back? | see below |
| `workbench_reset_finish`, `workbench_open_fails`, `plot_other_run`, `architecture_badges` | expected to fail, see "Findings" | the operations that matter |

**Suites.** `BoschSuite` and `ProjectSuite` hold parts that share no state. An initial state picks the
`subject`; only its actions are enabled, so the state space is the sum of the parts' and not their
product. The rest stays at its start (or has no state, where it could start in many). A pure
algorithm is a subject too: `Choose` picks an `input`, and the property compares the result with a
definition that does not use it. Directories are symmetric (`RootSymmetry`): they occur only as
indices and as values of `root`, and no property of the suite is temporal.

**Bounds.** In the engine, with periods 2 to 6, deadlines 2 to 4 and demands 1 to 3 in a horizon of
6, a task releases up to four jobs, meets or misses deadlines at the tick of completion, is
preempted several times, leaves several stale candidates, overlaps itself, and has releases,
completions and deadlines on and beyond the horizon. The tick domain ends three ticks after the
horizon, so the overflow checks fire too. In `engine_network` routes fan out, fan in, form a chain
and return to their own task; sends and deliveries fall on both sides of the horizon. The runs with
a model contain ticks without accepted events, which replay skips, ticks without any event, a
release on the horizon and a run in which nothing is released. The type invariant is checked in
`engine_single` and proved for the rest.

Three engines let a session be reset, applied and replaced while the result of an earlier one is
pending, with equal generations in different sessions; two queued commands suffice for a reset and
a finish in one update; two posted calls for a continuation that outlives its session. Engines,
queued commands and posted calls are bounded by `RunBound`, `QueueBound` and `ShotBound` in the
guards of the user's actions only: no handler is blocked by them. `WakeupBound` exceeds the number
of engines, so a request of the workbench never waits for it.

In `bosch`, six tasks with response times 1 and 3 of period 3, offsets and network delays on both
sides of a period, and a stop tick of five periods carry a sample from the sensor to the actuator in
each order of stages; the packet rings have two places, so they wrap; the metric windows open and
close. The importer has two components, one after the other, and every call answers Ok, Warning or
fails. The queue has four sequence numbers, so the last one is used. Comparisons range over all
pairs of traces of length two, conversions over ticks around every change in the number of digits.

In `project`, two directories with two versions of each document and a save that may be followed by
one more attempt give every mixture a failed or interrupted save can leave; a copy can be made of a
mixture. Two edits with undo (`MaxChanges`) on a system of one task, one resource and a route from the task
to itself suffice to create a row and merge its identifier with the first one's, to remove what the
route and the profile refer to, and to save after undoing past an Apply; renaming, retiming, plans, Apply, Save, Save As, Open and Close are interleaved with them. Two settings moved
and one place damaged (`MaxSettings`) cover each field of a workspace. The two experiments shown by
the caches have logs of about ten events, so any prefix of one may be followed by any of the other.
`MaxRecent`, `MaxSuffix` and `MaxSequence` replace 8, 10000 and 2^64.

**The central properties.** `MatchesTickReference`: after each tick the event-driven engine and the
tick-driven definition (`ReferenceAt`) agree on releases, completions, misses, owners and
remaining work, and the engine stops with an overlap exactly when the definition releases into an
unfinished job. The others explain why: in `CandidatesSound`, `CompletionQueued` is the argument
that stale candidates are harmless, `OnePendingRelease` and `NothingInThePast` that nothing is
skipped; `MembershipAgrees` that the four copies of a job's whereabouts agree; `AccountsExact`,
`DecisionsSound`, `TraceSound` and `MessagesSound` conjoin what is due to one part.

`ActionsSeenNextTick` and `ReplayReproducesRun` are the contract of a functional model: actions at
tick t show at t + 1 and never before, and a replay that skips ticks without events gives the same
rows. `NothingRunsWithoutModel`: `initialize()` sets its flag before the model has started, yet no
later step processes a tick.

`ObservationsFollowTrace` computes the FMU's output from the ticks at which jobs started, finished
and delivered, without running the chain; `PulsesLastOneTick` says no trigger survives its step.
`ImplementsSlaveProtocol` is a refinement: whatever fails, the slave sees the order of calls that
`SlaveProtocol` allows.

`ResultIsOfShownRun` is what the generations, the resets of the finalizer and the cache are for;
`PresentationCurrent` says that the rate limit of publication never loses the last state of a run;
`PumpSound` relates two independent ways of driving a run to the mode that selects between them.

`FilesSound`: a directory with a project file has every part; its parts come from the last completed
snapshot or from the saves attempted since, in the order of the writes; what a completed operation
wrote loads; the active project is on disk. `EditsSound`: after any edits, merges, removals and
undos the draft refers only to what it has, what an edit selects exists, now and when it is redone,
a draft with changes has a selection that exists, the diagnostics are empty exactly for what the
constructors take, and the applied and stored projects can run. `CachesCurrent`: incremental caches
equal a rebuild. `FrontendFilesSound`: no project is saved with the arrangement of another, and the
list of recent projects is what the next start loads unless writing it failed.
`ResultsFaithful`, `DocumentsReadBack` and `ViewsSound` compare algorithms with definitions.

**Fairness.** `Spec` of the engine has weak fairness of `Next`: `run()` loops until a step reports
the end, on one thread and without waiting for anyone. `Terminates` needs nothing more.

The finalizer has weak fairness of the worker (a builder returns), of the return of a call, and of
processing posted wake-ups. The workbench has weak fairness of the finalizer's threads and of the
handlers, and strong fairness of each event source: the event loop delivers a posted call or a
timeout even if other events keep coming first. A Fast batch may end before its first transition
when the wall clock has used up its budget; `Spec` assumes that this does not happen for ever.
The workbench's runs do not check deadlock, because the program stops after shutdown; the suites'
do not, because a chosen input is the last step and a used-up bound ends a sequence of edits. The
suites have no liveness properties: nothing in them waits for anything.

Every property has a mutant in `PROJECT.json`: a plausible bug in one definition under which the
run reports the property violated. The operators they use are marked "Faulty variant".

### Findings

* `engine_zero_delay`. `MessageRouteSpec` and `ExperimentConfig` accept a Communication route with
  delay zero and the network has a late phase for a delivery in the tick of its send, but
  `publish()` builds a `Message` whose delivery must follow its send and throws at the first
  completion.
* `workbench_reset_finish`. An update that contains a reset and ends with a finished run requests
  the finalization and cancels it, or does not request it at all.
* `workbench_open_fails`. A failed open, create or save-as stops the timer of the Live run that
  stays. That is why `workbench_drive` excludes that operation: its properties hold without it.
* `plot_other_run`. The plot cache is keyed by run generation, and generations restart with every
  session: the plot of one experiment is drawn for the next.
* `architecture_badges`. The description of a draft keeps the order of its rows and is then
  searched by binary search; after a renumbering the architecture view misses assignments.

### Observations

Met while reading the code; no run states them.

* Files. `resolve_unapplied_system_changes` returns "proceed" without saving when the user skips
  (`application/project/system_builder_workflow.cpp:123`). A copy into a parent inside the project
  copies the target into itself. `write_text_atomically` leaves `*.tmp` after a crash. An export writes the
  project's current plan and configuration, not those of the exported run.
* Writing. The atomic writers (`write_text_atomically` at `application/project/project.cpp:185`, the
  recent projects, the layouts, `write_file` of the export) test the stream before its destructor
  flushes it, so a flush that fails may leave a shortened file behind the rename. The models assume
  that a write fails visibly or is whole; `FilesSound`, `FrontendFilesSound` and `ResultsFaithful`
  say nothing about that failure.
* Selections. `initialize_system_draft` does not touch the selection, and `apply_and_save_project` does
  not reset it: create a resource, Apply, delete it, Apply, Undo, Save; the restored draft is clean
  against its own baseline, nothing is written, the draft is rebuilt without the resource, and the
  resource stays selected. The selection is then of a draft without changes, which `EditsSound`
  allows for; the next edit selects something that exists.
* Applying. `apply_and_save_project` drops results and a finalization in progress although nothing
  changed, and leaves the cached progress of the replaced session
  (`application/workbench_application.cpp:512`). A run plan loaded by the bridge is lost by the next
  Apply. While a Live run is in progress, saving also leaves the timer active for one more period.
* Drafts. Undo back to the original clears the dirty flag (intended); Undo stays enabled while a run
  is in progress, and then throws. The ImGui identifier field edits live, so typing 12 merges with
  an existing 1. Identifier types accept 0, the draft refuses it. `synchronize_structural_selection`
  does not check that a selected Logical connection still exists, which `EditsSound` allows for.
* Views. The signal table keeps the signals of a closed project. A "selected" plot range is not
  clipped. Thinning a Boolean series may exceed the number of points asked for, which
  `SeriesSound` allows for. A damaged `y_min` resets the other limit too.
* Documents. A missing or unknown route kind is ignored silently (`config/json_config.cpp`), which
  `ConfigReadsBack` allows for. A kind that is a number is narrowed to an int, so that 4294967297 is
  read as 1 (`Narrowed`). A tick above 2^63 - 1 wraps when it is read.
* FMU. Reset and a failed ExitInitializationMode leak both network buffers.

## 4. Proofs

Every theorem holds for all values of the constants: any sets of tasks, resources, generations,
directories; any valid configuration, horizon and length of history; every answer of an adapter,
slave or file system. TLC checked each inductive invariant on a small instance before it was proved.

**The kernel's state** (`EngineProofs`). Assumptions: `ConfigAssumption` (identifiers are naturals,
configurations are valid), `NoJobAssumption` (the idle marker is no job).

* `TypeCorrect`: `TypeOK`. `ExclusiveMembership`: `MembershipAgrees`, in every intermediate state of
  a tick and after an exception. Neither is inductive alone: accepting a completion charges the job
  its event names, and publishing a route reads the last trace entry, so `StateInv` adds
  `CandidatesNamed` and `PublicationNamed`.
* `PendingEventsSound`: `CandidatesSound`. `DecisionsAndVerdicts`: `DecisionsSound`.
  `ExecutionIntervals`: `IntervalsExact`, a part of `AccountsExact`.

The last three need one inductive invariant, `KernelInv`. Its conjuncts are named for what they
cover: the release each task has pending, what a job's times say of each other, the open intervals,
the completion candidates (the current one queued, stale ones strictly earlier), the schedule of the
resources already visited, the deadline checks, the messages on the network, the position in the
tick. They support each other in a circle: that a stale completion is never accepted needs exact
intervals; that intervals are exact needs that no completion is passed by the clock; that needs the
completion to be queued and the queue's order to put completions first. `KernelConsistent` falls out
of it: each throw that guards the kernel against its own state is shown unreachable at its action.

**The kernel's history** (`EngineHistoryProofs`).

* `HistoryIsFinal`: `NothingIsTakenBack`, an action property: time, trace, completed jobs and
  recorded misses only grow.
* `TraceInOrder`: `TraceCanonical`, a part of `TraceSound`. `MessagesArrive`:
  `MessagesSound`. `AccountsWithinTime`: `BusyWithinTime`.

`HistoryInv` adds to `KernelInv` the frontier of the trace (what is appended next is not before
what was appended last, in tick, phase and release order, and has its cause in the trace) and, for
each completed job, the messages it published, is publishing or will publish.

**The accounts and the ledger** (`EngineHistoryProofs`).

* `AccountsAgree`: `AccountsExact`. `TraceTellsJobs`: `TraceSound`.

Both compare a number the kernel keeps with a sum over a set that grows and changes.
`SumFunctionOnSet` is recursive over the subsets of its set; that the recursion has a solution for
every finite set is shown by a least counterexample in the cardinality, and from it come the facts
accounts are kept with: an item is added (`SumGains`), one item changes (`SumChanges`), in whatever
order the definition adds them. The `...Effect` lemmas then say once, for each of the four actions
that move work, what it does to jobs, resources and trace. `AccountsInv` is the equation of the
busy account; `LedgerInv` follows each job through the trace: between the action that changes a job
and the end of the tick that records it, the event for the change is queued, so the books of the
trace lag behind those of the scheduler by exactly the queued observations of the tick.

**The engine and its reference** (`EngineReferenceProofs`).

* `TickReferenceAgrees`: `Spec => []MatchesTickReference`, the end-to-end statement about the kernel:
  every other theorem about it is a part of the argument.

1. *The reference is a function.* `ReferenceAt` is recursive over ticks; a least counterexample
   gives its run for every horizon, and `TickFields` the step from tick n - 1 to tick n.
2. *The plan* (`PlanInv`). To `KernelInv` are added `JobsPlanned` (number k of a task was released
   at offset + (k - 1) * period with the deadline, priority and resource of its task, and only the
   latest job of a task may be incomplete) and `ReleasesPlanned` (what each task waits for). So the
   jobs of a task are numbered without gaps, and `ReferenceCounts` says how many there are.
3. *Ticks without events* (`GapTick`, `AgreesUntil`). The engine jumps to the next pending event; the
   reference works through every tick. When nothing is pending at a tick, no completion, release or
   deadline falls on it, the reference finishes, releases and misses nothing, and keeps each owner.
4. *Inside a tick* (`AgreesWithin`). The reference takes one step; the engine settles, publishes,
   releases and visits resources in separate actions. Each part of the step has its own relation:
   `WorkWithin` (jobs of earlier ticks need what the reference has left over, new ones their full
   demand), `FinishesWithin`, `MissesWithin`, and `OwnerWithin` for each resource before and after
   its decision. Each action has a lemma that moves one of them and leaves the others.
5. *The decision* (`Tracks`). The reference compares tasks by a formula, the engine jobs by the order
   of its Ready set; given the same incomplete jobs they choose the same, in both modes.
6. *The end of the tick* (`TickEnds`). When all resources are decided the four relations together are
   agreement after the step. An overlap stops the engine in a tick where the reference has one.

**The functional model and the replay** (`FunctionalProofs`).

* `EveryTickIsObserved`: `ObservationsSound`. `ActionsAreSeenNextTick`: `ActionsSeenNextTick`.
  `NoTickWithoutModel`: `NothingRunsWithoutModel`. `ReplayGivesTheRun`: `ReplayReproducesRun`.

The argument compares neither run with the other. `RowsCount` says of each runtime, online or
replaying, that the value of a row is the number of trace events before its tick. The trace's order
makes that number unique, so the two agree wherever both have a row, although the replay moves over
ticks without events in one call. For `RowsCount` to be inductive the invariant says what the model
knows at each position: in a tick the events before `action_begin`, between ticks all of them, in
the replay those of the batches it has applied. What `AdvanceTo`, `ApplyActions`, `Initialize` and
`Finalized` return for every answer is stated in lemmas of their own (`AdvanceLater`,
`ApplyOutcome`, `InitializeOutcome`, `FinalizedOutcome`).

**The finalizer** (`ComponentProofs`). Assumption: `FinalizerAssumption` (the empty optional is no
request and no generation).

* `FinalizerSafety`: `WorkerServesRequest`. `AnswersReachTheClient`: `AnswersSound`.
* `FinalizerRefinesService`: `Spec => ImplementsResultService`: each step is a step of
  `ResultService` or changes nothing of it, with the worker's request as the open one.

`FinalizerInv` conjoins the properties with four facts they need: the call in progress is well
formed, only a call asks a worker to stop, a request waited for has a thread, and an error excludes
a result. The refinement uses the same invariant: storing and waking are invisible, because whoever
gets that far serves the open request.

**The workbench** (`WorkbenchProofs`). Assumption: `WorkbenchAssumption` (the lack of a session is
no session), `StepsAssumption`.

* `ResultStaysOfShownRun`: `ResultIsOfShownRun`. `PresentationStaysCurrent`: `PresentationCurrent`.
  `NoThreadSurvivesShutdown`: `NoThreadOutlivesShutdown`. All three for every set of user operations.
* `PumpStaysSound`: `PumpSound`, unless replacements can fail or edited systems are saved.
  `ProgressStaysCurrent`: `ProgressCurrent`, unless edited systems are saved. Section 3 says what
  those operations leave behind; TLC finds both properties violated with them.

The properties speak of the moments between two handlers and are not inductive: a handler is
interrupted where it waits for the finalizer. `WorkbenchInv` adds what holds there. `CallSound`:
which call a handler can be inside of. `ReturnedQuiet`: when a call that cancels has returned, the
worker is gone and has left nothing. `ResultsOwned`: whatever the worker, the finalizer's slot and
the cache hold is of the active session's run, and there is nothing at all while that run has not
finished; this needs no comparison of generations, which is why equal generations in different
sessions do no harm. `HandlerSound`: what is already on screen while a handler waits.
`DriveInv` and `ProgressInv` extend the other two properties in the same way.
What an update does rests on the net effect of a queue of commands (`AfterCommandsSound`):
without a reset it keeps the engine, leaves a finished session alone, and changes a session
without saying so (no pause, step or finish) only by setting it running. `AfterCommands` is
recursive, so `ChainExists` first shows by a least counterexample that its definition has a
solution.

**The queue and the importer.** `ComponentProofs` proves `QueueKeepsItsPromises`
(`QueueSpec => []QueueSound`) for any insertion bound and number of events; the invariant relates
every pending event to every taken one. It proves `LifecycleIsTheSlaves`
(`ImporterSpec => []LifecycleMatchesSlave`) and `CallsFollowTheProtocol`
(`ImporterSpec => ImplementsSlaveProtocol`, a refinement) for every answer of the slave.

**The Bosch run** (`BoschProofs`). Assumptions: `LateralAssumption` and `StopTickAssumption` (sizes
and steps are positive, the horizon is a number), `NominalAssumption` (a job ends within its
period; a packet is delivered before the ring has wrapped around, `Delays <= period * capacity`).
The last one is needed: the C code overwrites nothing in a full ring but drops the new packet.

* `PulsesAreTheBatch`: `PulsesLastOneTick`. `ObservationsAreIdeal`: `ObservationsFollowTrace`. Both for
  every schedule within the assumptions, any horizon, window and sampling interval, and with every
  call of the FMU failing or not.

`RunInv` says what the adapter remembers: a started instance has all its parameters, the trigger
inputs that are true are those in the adapter's list, and these are the columns of the accepted
events of the current tick once they are told. That encoding loses none of them is `Listed`: a
finite set sorted by distinct keys is listed completely. `OnTheIdealRun` says that the instance
*tracks* the schedule, part by part, because the observed signals alone are not inductive:

1. *Stages* (`Stage`, `ChainTracks`). Each job of the chain has two values: what it computed at its
   last start and what has been visible since its last finish. `LatestStep` gives how the last start
   or finish before n differs from that before n + 1; `ChainNext` takes all stages through one tick,
   publications first, in the order of `process_trigger_events`.
2. *Networks* (`Flight`). The ring holds packets number c to a - 1 of the sender, each at its number
   modulo the capacity, where a were sent before tick n and c before tick n - delay. It is never
   full when a packet comes and never empty when one is due (`UplinkNext`, `DownlinkNext`).
3. *Metrics* (`Windowed`). The window holds the last samples at their rank modulo its size; the
   rolling sum is the sum over the last `WindowSize` sample ticks (`MeasuredNext`), from the facts
   that ranks number a finite set (`Ranks`) and that `Total` adds tick by tick (`TotalSums`).

`StepMoves` reads off from `DoStep` what each part does in a tick with given triggers, `AdvanceOnIdeal`
combines the three. The tables of variables are laid out by recursive functions; `Starting` and
`WrittenSets` show by counting up that they have values and what they assign.

**Project files** (`ProjectFilesProofs`). `ProjectsStaySound`: `StoreSpec => []FilesSound`.
Assumption: `StoreAssumption` (the markers for "no file" and "damaged text" are no contents where
that matters, compatible pairs are pairs, the default workspace is one).
`FilesSound` does not say how far an operation is, and so is not inductive. `StoreInv` adds: an
operation has the shape it was begun with (`OperationShape`); every renamed file holds the text of
its new contents (`FilesInPlace`); a save replaces files of the active project's directory and its
attempt is recorded (`SaveInProgress`); a directory in the making is nobody's project and has no
project file until everything before it is in place (`NewDirectory`); the active project and all
attempts fit (`Active`, `Attempts`). Writing the files in one order is what makes `PartsFollowSaves`
inductive: a save raises the index of the system first, then that of the plan, then that of the
workspace.
`ExportsAreWhole`: `ExportSpec => []ExportsComplete`, for any run names, outcomes and number of
temporary directories. Assumption: `ExportAssumption` (a whole result is not the marker for none).
`ExportInv` adds that the temporary directory of the export in progress holds exactly the files
before its step, of its outcome.
`FrontendFilesStaySound`: `FrontendSpec => []FrontendFilesSound`, for any projects and length of the
list. Assumption: `FrontendAssumption` (projects, arrangements and the markers for none are told
apart; a preferences file lists paths or cannot be parsed). The list is a loop over entries in the
code, a recursive function in the model: `Built` shows that such a loop's results exist, `Counting`
that what each step keeps holds at the end, and from them follow that removing keeps the order and
the bound, that what a file loads does not depend on which projects can be read (`LoadedAlike`), and
that a saved list loads as itself (`SavedReadsBack`). `FrontendInv` adds where an arrangement may
come from: what the store holds and what the next frame will load belong to the open project, what
is on the screen only once no load is pending (`ScreenSound`) - the guard in `Captured` is there
for that.

**The document under edit** (`ComponentProofs`). `EditsStaySound`: `DocumentSpec => []EditsSound`, for
any project that can run, any values typed into the editors and any number of changes. Assumption:
`DocumentAssumption` (the program starts with a loaded, hence validated project; the editors yield
numbers, names and timings). The properties of a draft do not mention what could be restored, so
`DocumentInv` asks of every snapshot on the undo stack what it asks of the document, except that the
assignments need not be in the order of the tasks: restoring puts them there (`RestoredInOrder`). It
asks more of the second snapshot of an entry, that its selection exists (`Edited`), which makes
redoing safe; of the first only what `Snapshots` says, because it may be what Save left.

1. *Edits* (`...Sound` lemmas). Each operation of the draft keeps its rows well formed and every
   profile and route within it (`Sound`), also when an identifier is changed into one that is taken,
   and says which identifiers remain. `Built` and `Counting` again serve the loops (`RowsAt`,
   `Inherited`, `ProfilesEdited`).
2. *Selections and assignments* (`Snapshots`). What an edit selects exists afterwards: the created
   row, the neighbor of a removed one (`NeighborResolves`), what is left of a connection
   (`ReselectedResolves`). Save keeps what is selected while it rebuilds the draft from the project
   (`SelectionKept`), so a selection is known to exist only where draft and baseline differ; undo and
   redo restore both together, so the difference comes with the snapshot. Assignments name resources of the draft or none (`Fits`).
3. *Diagnostics* (`DiagnosticsAgree`). For every sound draft, the diagnostics, which look for rows
   that repeat an earlier one, are empty exactly when the constructors, which count distinct values,
   accept and no identifier is 0; `AllDifferent` relates the two ways of counting.
4. *Projects* (`Proper`). What Apply and Save build from such a draft has a plan that is its own
   normal form (`CanonicalRuns`), so that whatever is applied, stored, or stored by a save that
   is the last before leaving can be opened and run.

**Only model-checked.** Liveness (`Terminates`, `RunAdvances`, `RequestsAreAnswered`): fairness and
ENABLED are outside what the prover can do. `ConformanceVerdicts` and `ExperimentsReadBack` of
`BoschSuite` and the suite of pure algorithms compare computed values over bounded inputs.
`ProjectSuite` and `BoschSuite` take recursive operators from `ConfigDocuments` and others; the
theorems about the store, the document, the export, the front end's files, the importer and the queue
are about the components' own specifications, whose actions are the suites' disjuncts.

## 5. Plan

Done: kernel with functional model and replay, finalizer and workbench, FMU and importer, project
files, drafts, workspace, caches, results, documents, graphs. Open, in order:

1. `ProjectStore` together with `DocumentEditing`: the versions of the one are the drafts of the other.
2. The event trace's document, the workbook's tables and the frame scheduler's deadlines.

Not modelled: characters and number formats of JSON, CSV and workbooks; painters, geometry of
widgets and hit testing in both front ends; wording of diagnostics; the FMU's matrix arithmetic and
its unsupported functions; the search of the resource allocator (its result is what
`ValidConfig` demands). These hold no state whose histories could go wrong, or are outside what
small finite values can represent.
