-------------------------- MODULE ObservationCaches --------------------------
(***************************************************************************)
(* The views that keep what they derived from the last snapshot: timeline, *)
(* signals, canonical events, integrated plot.  Every publication reaches  *)
(* the first three at once; timeline and signals extend what they have     *)
(* when the new snapshot seems to continue the old one.  The plot projects *)
(* a completed result when it is painted and keeps the projection.         *)
(***************************************************************************)
EXTENDS Naturals, Sequences, SequencesExt, FiniteSets

CONSTANTS
    Experiments,    \* each: config, resources, tasks, events, observations, registry
    SearchTexts,    \* what the user may type; each finds the event types in Found
    Found,
    NoText,         \* the empty search text
    Nothing,        \* no filter, or no such view, result or row
    Diagnosed,      \* a result that carries a diagnostic
    Ongoing         \* the end of an interval that has not ended

VARIABLES
    shown,          \* the published snapshot: experiment, current tick; Nothing when closed
    timeline,       \* GuiTimelineCache
    signals,        \* GuiSignalCache
    table,          \* GuiEventTableCache with the widget's filters and its debounce timer
    completed,      \* the completed result: experiment, run generation; or Nothing
    generation,     \* the session's runtime generation
    plot            \* GuiPlotDataCache and what the canvas shows

cacheVars == <<shown, timeline, signals, table, completed, generation, plot>>

MaxGenerations == 2   \* bound: resets of one session
Debounce == 2         \* in units of 75 ms; the timer's 160 ms fall in the third

UpTo(rows, tick) == SelectSeq(rows, LAMBDA row : row.tick <= tick)
LastTick(x) == Last(x.observations).tick

-----------------------------------------------------------------------------
(* The timeline. *)

RequiredPhase(type) ==
    CASE type = "JobRelease" -> "JobRelease"
      [] type \in {"JobStart", "JobPreempt", "JobResume"} -> "Scheduling"
      [] type = "JobFinish" -> "ExecutionCompletion"
      [] type = "DeadlineMiss" -> "DeadlineCheck"
      [] type = "MessageSend" -> "CausedAction"
      [] type = "MessageDelivery" -> "MessageDelivery"

PhaseOrder == <<"ExecutionCompletion", "MessageDelivery", "DeadlineCheck", "JobRelease",
                "PolicyUpdate", "Scheduling", "CausedAction", "CausedActionLate">>
Precedes(e, f) ==
    \/ e.tick < f.tick
    \/ e.tick = f.tick /\ \E i, j \in DOMAIN PhaseOrder :
                               i < j /\ PhaseOrder[i] = e.phase /\ PhaseOrder[j] = f.phase

EmptyDerivation(x) ==
    [markers |-> <<>>, intervals |-> {}, jobs |-> [j \in {} |-> Nothing],
     running |-> [r \in x.resources |-> Nothing], tasks |-> x.tasks]

Job(e) == <<e.task, e.job>>
Observed(d) == {d.markers[i].sequence : i \in DOMAIN d.markers}

KnownEntities(d, e) ==
    /\ e.task \in d.tasks
    /\ e.type # "MessageDelivery" => e.job # 0
    /\ e.type \notin {"MessageSend", "MessageDelivery"} => e.resource # 0
    /\ e.resource # 0 => e.resource \in DOMAIN d.running
    /\ e.type \in {"MessageSend", "MessageDelivery"} => e.message # 0

Lifecycle(d, e) ==
    LET released == Job(e) \in DOMAIN d.jobs
        job == d.jobs[Job(e)]
        mine == released /\ job.resource = e.resource
        idle == d.running[e.resource] = Nothing
        runs == job.state = "Running" /\ d.running[e.resource] = Job(e)
    IN  CASE e.type = "MessageDelivery" -> TRUE
          [] e.type = "MessageSend" -> released /\ job.state = "Completed"
          [] e.type = "JobRelease" -> ~ released
          [] e.type = "JobStart" -> mine /\ job.state = "Ready" /\ ~ job.started /\ idle
          [] e.type = "JobResume" -> mine /\ job.state = "Ready" /\ job.started /\ idle
          [] e.type \in {"JobPreempt", "JobFinish"} -> mine /\ runs
          [] e.type = "DeadlineMiss" -> mine /\ job.state # "Completed"

Acceptable(d, e, now) ==
    /\ e.tick <= now
    /\ d.markers # <<>> => ~ Precedes(e, Last(d.markers))
    /\ e.sequence \notin Observed(d)
    /\ e.cause \in {0, e.sequence} \cup Observed(d)
    /\ e.phase = RequiredPhase(e.type)
    /\ KnownEntities(d, e)
    /\ Lifecycle(d, e)

Interval(id, job, end) ==
    [kind |-> job.state, job |-> id, resource |-> job.resource, begin |-> job.begin, end |-> end,
     from |-> job.from, resumed |-> job.resumed]

\* update_lifecycle of an acceptable event: the open interval closes, the next one begins.
Lived(d, e) ==
    LET id == Job(e)
        old == d.jobs[id]
        next(state) == [resource |-> e.resource, state |-> state, begin |-> e.tick, from |-> e.sequence,
                        started |-> e.type # "JobRelease", resumed |-> e.type = "JobResume"]
        closed == [d EXCEPT !.intervals = @ \cup {Interval(id, old, e.tick)}]
    IN  CASE e.type = "JobRelease" -> [d EXCEPT !.jobs = [j \in DOMAIN @ \cup {id} |->
                                                              IF j = id THEN next("Ready") ELSE @[j]]]
          [] e.type \in {"JobStart", "JobResume"} ->
                 [closed EXCEPT !.jobs[id] = next("Running"), !.running[e.resource] = id]
          [] e.type = "JobPreempt" -> [closed EXCEPT !.jobs[id] = next("Ready"), !.running[e.resource] = Nothing]
          [] e.type = "JobFinish" -> [closed EXCEPT !.jobs[id].state = "Completed", !.running[e.resource] = Nothing]
          [] OTHER -> d

Appended(d, events, now) ==
    FoldLeft(LAMBDA acc, e : IF acc = Diagnosed \/ ~ Acceptable(acc, e, now) THEN Diagnosed
                             ELSE Lived([acc EXCEPT !.markers = Append(@, e)], e), d, events)

TimelineModel(d, now) ==
    [now |-> now, markers |-> d.markers,
     intervals |-> d.intervals \cup {Interval(id, d.jobs[id], Ongoing) :
                                         id \in {j \in DOMAIN d.jobs : d.jobs[j].state # "Completed"}}]

ClearedTimeline == [config |-> Nothing, derivation |-> Nothing, count |-> 0, boundary |-> Nothing,
                    result |-> Nothing]

\* build_timeline_model, and what both paths of GuiTimelineCache::update end in.
Derived(cache, x, base, unseen, events, now) ==
    LET derivation == Appended(base, unseen, now)
    IN  IF derivation = Diagnosed THEN [cache EXCEPT !.result = Diagnosed]
        ELSE [config |-> x.config, derivation |-> derivation, count |-> Len(events),
              boundary |-> IF events = <<>> THEN Nothing ELSE Last(events),
              result |-> TimelineModel(derivation, now)]

\* Faulty variant: the experiment is not compared.
AnyExperiment(cache, x, events) ==
    /\ cache.derivation # Nothing
    /\ Len(events) >= cache.count
    /\ cache.count > 0 => events[cache.count] = cache.boundary

ContinuesTimeline(cache, x, events) ==
    /\ cache.derivation # Nothing /\ cache.config = x.config
    /\ Len(events) >= cache.count
    /\ cache.count > 0 => events[cache.count] = cache.boundary

UpdatedTimeline(cache, x, events, now) ==
    IF ~ ContinuesTimeline(cache, x, events)
    THEN Derived(cache, x, EmptyDerivation(x), events, events, now)
    ELSE IF Len(events) > cache.count
    THEN Derived(cache, x, cache.derivation, SubSeq(events, cache.count + 1, Len(events)), events, now)
    ELSE IF cache.result # Diagnosed THEN [cache EXCEPT !.result.now = now]
    ELSE [cache EXCEPT !.result = TimelineModel(cache.derivation, now)]

-----------------------------------------------------------------------------
(* The signals: one row per tick, every row with the names of the registry or of the first
   row. *)

ClearedSignals == [registry |-> {}, names |-> {}, samples |-> <<>>, count |-> 0, result |-> Nothing]

RowAccepted(row, names, index) == row.tick = index - 1 /\ DOMAIN row.values = names

\* build_with_accumulator.
BuiltSignals(cache, x, rows) ==
    LET names == IF x.registry # {} \/ rows = <<>> THEN x.registry ELSE DOMAIN rows[1].values
    IN  IF \A i \in DOMAIN rows : RowAccepted(rows[i], names, i)
        THEN [registry |-> x.registry, names |-> names, samples |-> rows, count |-> Len(rows), result |-> rows]
        ELSE [cache EXCEPT !.result = Diagnosed]

UpdatedSignals(cache, x, rows) ==
    LET continues == /\ cache.result # Nothing /\ cache.registry = x.registry
                     /\ Len(rows) >= cache.count /\ cache.count > 0
                     /\ rows[cache.count] = Last(cache.samples)
        unseen == SubSeq(rows, cache.count + 1, Len(rows))
        samples == cache.samples \o unseen
    IN  IF ~ continues THEN BuiltSignals(cache, x, rows)
        ELSE IF \A i \in DOMAIN unseen : RowAccepted(unseen[i], cache.names, cache.count + i)
        THEN [cache EXCEPT !.samples = samples, !.count = Len(rows), !.result = samples]
        ELSE [cache EXCEPT !.result = Diagnosed]

-----------------------------------------------------------------------------
(* The table of canonical events; its filters are text and task. *)

TaskFilters == {Nothing} \cup UNION {x.tasks : x \in Experiments}
AllRows == [text |-> NoText, task |-> Nothing]

Matches(e, filters) ==
    /\ filters.task = Nothing \/ filters.task = e.task
    /\ filters.text = NoText \/ e.type \in Found[filters.text]

Filtered(rows, filters) == SelectSeq(rows, LAMBDA e : Matches(e, filters))

ClearedTable == [rows |-> <<>>, filtered |-> <<>>, effective |-> AllRows, pending |-> NoText, age |-> 0,
                 initialized |-> FALSE]

\* GuiEventTableCache::update_filter.
Refiltered(cache, filters) ==
    LET age == IF filters.text # cache.pending THEN 0 ELSE cache.age
        text == IF age >= Debounce THEN filters.text ELSE cache.effective.text
        effective == IF cache.initialized THEN [filters EXCEPT !.text = text] ELSE filters
    IN  [cache EXCEPT !.pending = filters.text, !.age = age, !.effective = effective, !.initialized = TRUE,
                      !.filtered = IF effective # cache.effective \/ ~ cache.initialized
                                   THEN Filtered(cache.rows, effective) ELSE @]

\* QtCanonicalEventTableModel::synchronize, for a new presentation generation.
UpdatedTable(events) ==
    [table EXCEPT !.cache = Refiltered([@ EXCEPT !.rows = events, !.filtered = Filtered(events, table.cache.effective)],
                                       table.filters)]

-----------------------------------------------------------------------------
(* Publications. *)

Show(x, tick) ==
    LET events == UpTo(x.events, tick)
    IN  /\ shown' = [experiment |-> x, tick |-> tick]
        /\ timeline' = UpdatedTimeline(timeline, x, events, IF tick < 0 THEN 0 ELSE tick)
        /\ signals' = UpdatedSignals(signals, x, UpTo(x.observations, tick))
        /\ table' = UpdatedTable(events)

\* A live update, the end of a batch or a step, the end of the run; the finalizer's answer
\* to the latter is CompletedResult.
Advance ==
    /\ shown # Nothing
    /\ \E tick \in shown.tick + 1 .. LastTick(shown.experiment) : Show(shown.experiment, tick)
    /\ UNCHANGED <<completed, generation, plot>>

\* Reset, and the ticks that were run before the next publication.
Reset ==
    /\ shown # Nothing /\ generation < MaxGenerations
    /\ \E tick \in -1 .. LastTick(shown.experiment) : Show(shown.experiment, tick)
    /\ generation' = generation + 1 /\ completed' = Nothing
    /\ plot' = [plot EXCEPT !.canvas = Nothing]

\* Another session: a project that was opened, a system that was applied.
Replace ==
    /\ \E x \in Experiments : Show(x, -1)
    /\ generation' = 1 /\ completed' = Nothing
    /\ plot' = [plot EXCEPT !.canvas = Nothing]

\* Closing publishes no generation: the signal model takes itself for current.
CloseViews ==
    /\ shown # Nothing
    /\ shown' = Nothing /\ timeline' = ClearedTimeline
    /\ table' = [table EXCEPT !.cache = ClearedTable]
    /\ completed' = Nothing /\ plot' = [plot EXCEPT !.canvas = Nothing]
    /\ UNCHANGED <<signals, generation>>

CompletedResult ==
    /\ shown # Nothing /\ shown.tick = LastTick(shown.experiment) /\ completed = Nothing
    /\ completed' = [experiment |-> shown.experiment, generation |-> generation]
    /\ UNCHANGED <<shown, timeline, signals, table, generation, plot>>

\* paintEvent with GuiPlotDataCache::update; axis and width stay the same here.
PlotKey(c) == [generation |-> c.generation, range |-> LastTick(c.experiment)]
PlotSeries(c) == c.experiment.observations

Paint ==
    /\ completed # Nothing
    /\ plot' = IF plot.key = PlotKey(completed) THEN [plot EXCEPT !.canvas = plot.series]
               ELSE [key |-> PlotKey(completed), series |-> PlotSeries(completed), canvas |-> PlotSeries(completed)]
    /\ UNCHANGED <<shown, timeline, signals, table, completed, generation>>

-----------------------------------------------------------------------------
(* The filters. *)

SetText ==
    /\ \E text \in SearchTexts \ {table.filters.text} :
           LET filters == [table.filters EXCEPT !.text = text]
           IN  table' = [filters |-> filters, cache |-> Refiltered(table.cache, filters), armed |-> TRUE, elapsed |-> 0]
    /\ UNCHANGED <<shown, timeline, signals, completed, generation, plot>>

SetTask ==
    /\ \E task \in TaskFilters \ {table.filters.task} :
           LET filters == [table.filters EXCEPT !.task = task]
           IN  table' = [table EXCEPT !.filters = filters, !.cache = Refiltered(@, filters)]
    /\ UNCHANGED <<shown, timeline, signals, completed, generation, plot>>

TimePasses ==
    /\ table.armed /\ table.elapsed < Debounce
    /\ table' = [table EXCEPT !.elapsed = @ + 1, !.cache.age = IF @ < Debounce THEN @ + 1 ELSE @]
    /\ UNCHANGED <<shown, timeline, signals, completed, generation, plot>>

DebounceEnds ==
    /\ table.armed /\ table.elapsed = Debounce
    /\ table' = [table EXCEPT !.armed = FALSE, !.cache = Refiltered(@, table.filters)]
    /\ UNCHANGED <<shown, timeline, signals, completed, generation, plot>>

CachesInit ==
    /\ shown = Nothing /\ timeline = ClearedTimeline /\ signals = ClearedSignals
    /\ table = [filters |-> AllRows, cache |-> [ClearedTable EXCEPT !.initialized = TRUE], armed |-> FALSE, elapsed |-> 0]
    /\ completed = Nothing /\ generation = 1
    /\ plot = [key |-> Nothing, series |-> <<>>, canvas |-> Nothing]

CachesNext ==
    \/ Advance \/ Reset \/ Replace \/ CloseViews \/ CompletedResult \/ Paint
    \/ SetText \/ SetTask \/ TimePasses \/ DebounceEnds

-----------------------------------------------------------------------------
\* The intervals of a log by definition: each lifecycle event of a job but the last opens one
\* that its next lifecycle event closes.
IntervalsOf(events) ==
    LET Life == {"JobRelease", "JobStart", "JobPreempt", "JobResume", "JobFinish"}
        later(i) == {j \in DOMAIN events : j > i /\ Job(events[j]) = Job(events[i]) /\ events[j].type \in Life}
        end(i) == IF later(i) = {} THEN Ongoing ELSE events[CHOOSE j \in later(i) : \A k \in later(i) : j <= k].tick
    IN  {[kind |-> IF events[i].type \in {"JobRelease", "JobPreempt"} THEN "Ready" ELSE "Running",
          job |-> Job(events[i]), resource |-> events[i].resource, begin |-> events[i].tick, end |-> end(i),
          from |-> events[i].sequence, resumed |-> events[i].type = "JobResume"] :
             i \in {k \in DOMAIN events : events[k].type \in Life \ {"JobFinish"}}}

Before(a, b) == a.end # Ongoing /\ a.end <= b.begin

\* Whatever was shown before, advanced, reset or replaced: the timeline and the signals are
\* those of the shown snapshot built from nothing, a kernel's log is never refused, the
\* intervals are those the log defines and no two jobs run on a resource at once.  The table
\* lists the shown events that its filters let through, and once its timer has run out these
\* are the filters on screen (GuiTimelineCache, GuiSignalCache, GuiEventTableCache).
CachesMatchRebuild ==
    /\ shown # Nothing =>
           LET x == shown.experiment
               events == UpTo(x.events, shown.tick)
               now == IF shown.tick < 0 THEN 0 ELSE shown.tick
           IN  /\ timeline.result = Derived(ClearedTimeline, x, EmptyDerivation(x), events, events, now).result
               /\ timeline.result.intervals = IntervalsOf(events)
               /\ \A a, b \in {i \in timeline.result.intervals : i.kind = "Running"} :
                      a = b \/ a.resource # b.resource \/ Before(a, b) \/ Before(b, a)
               /\ signals.result = BuiltSignals(ClearedSignals, x, UpTo(x.observations, shown.tick)).result
               /\ table.cache.rows = events
    /\ table.cache.filtered = Filtered(table.cache.rows, table.cache.effective)
    /\ table.cache.initialized /\ ~ table.armed => table.cache.effective = table.filters

\* What the integrated plot shows is the completed result
\* (QtIntegratedPlotCanvas::paintEvent, GuiPlotDataCache::update).
PlotShowsResult == plot.canvas # Nothing => plot.canvas = PlotSeries(completed)
=============================================================================
