----------------------------- MODULE RunResults -----------------------------
(***************************************************************************)
(* What is computed from a completed run, and how it is exported: metrics  *)
(* of a log or of a range of it, the rows of every exported table, plot    *)
(* lanes and the thinning of long series; and the export itself, which     *)
(* fills a temporary directory and renames it.                             *)
(***************************************************************************)
EXTENDS Integers, Sequences, SequencesExt, FiniteSets, FiniteSetsExt

CONSTANTS
    RunIds,         \* names of result directories
    Outcomes,       \* completed runs an export may write
    None,           \* no directory, statistics or utilization
    MaxSuffix       \* bound: temporary directories of one run (10000 in the code)

VARIABLES
    published,  \* result directories by run
    temporary,  \* temporary directories by run and suffix
    exporting,  \* the export in progress
    exported    \* history: the outcome first exported under each run

exportVars == <<published, temporary, exporting, exported>>

-----------------------------------------------------------------------------
(* Metrics. *)

\* add_sample.
Sampled(statistics, value) ==
    IF statistics = None THEN [count |-> 1, minimum |-> value, maximum |-> value, total |-> value]
    ELSE [count |-> statistics.count + 1, total |-> statistics.total + value,
          minimum |-> IF value < statistics.minimum THEN value ELSE statistics.minimum,
          maximum |-> IF value > statistics.maximum THEN value ELSE statistics.maximum]

NoMetricsOf(x) ==
    [event_count |-> 0, completed_jobs |-> 0, deadline_misses |-> 0, preemptions |-> 0, sent |-> 0, delivered |-> 0,
     completions |-> [t \in x.tasks |-> 0], misses |-> [t \in x.tasks |-> 0],
     responses |-> [t \in x.tasks |-> None], delays |-> None,
     releases |-> <<>>, sends |-> <<>>]

\* The first entry of a map with this key (std::map::find).
Found1(entries, key) == SelectSeq(entries, LAMBDA entry : entry.key = key)

Counted(m, e) ==
    LET job == <<e.task, e.job>>
        released == Found1(m.releases, job)
        sent == Found1(m.sends, e.message)
        noted(entries, key) == IF Found1(entries, key) = <<>> THEN Append(entries, [key |-> key, tick |-> e.tick])
                               ELSE entries
    IN  CASE e.type = "JobRelease" -> [m EXCEPT !.releases = noted(@, job)]
          [] e.type = "JobFinish" ->
                 [m EXCEPT !.completed_jobs = @ + 1, !.completions[e.task] = @ + 1,
                           !.responses[e.task] = IF released = <<>> \/ e.tick < released[1].tick THEN @
                                                 ELSE Sampled(@, e.tick - released[1].tick)]
          [] e.type = "DeadlineMiss" -> [m EXCEPT !.deadline_misses = @ + 1, !.misses[e.task] = @ + 1]
          [] e.type = "JobPreempt" -> [m EXCEPT !.preemptions = @ + 1]
          [] e.type = "MessageSend" -> [m EXCEPT !.sent = @ + 1, !.sends = noted(@, e.message)]
          [] e.type = "MessageDelivery" ->
                 [m EXCEPT !.delivered = @ + 1,
                           !.delays = IF sent = <<>> \/ e.tick < sent[1].tick THEN @
                                      ELSE Sampled(@, e.tick - sent[1].tick)]
          [] OTHER -> m

\* derive_run_metrics: of a result [experiment, events, accounts, now].
ResourceMetrics(accounts) ==
    LET ids == {accounts[i].id : i \in DOMAIN accounts}
        of(id) == accounts[CHOOSE i \in DOMAIN accounts : accounts[i].id = id]
        utilization(a) == IF a.busy + a.idle > 0 THEN <<a.busy, a.busy + a.idle>> ELSE None
        sorted == SetToSortSeq(ids, <)
    IN  [n \in DOMAIN sorted |-> of(sorted[n]) @@ [utilization |-> utilization(of(sorted[n]))]]

RunMetrics(result) ==
    FoldLeft(Counted, [NoMetricsOf(result.experiment) EXCEPT !.event_count = Len(result.events)], result.events)
    @@ [horizon |-> result.now, resources |-> ResourceMetrics(result.accounts)]

\* Faulty variant: the end tick is left out.
EndExcluded(result, begin, end) ==
    [result EXCEPT !.events = SelectSeq(@, LAMBDA e : begin <= e.tick /\ e.tick < end),
                   !.observations = SelectSeq(@, LAMBDA row : begin <= row.tick /\ row.tick < end),
                   !.now = IF @ < end THEN @ ELSE end,
                   !.accounts = [i \in DOMAIN @ |-> [@[i] EXCEPT !.busy = 0, !.idle = 0]]]

\* select_run_result_range.
ResultRange(result, begin, end) ==
    [result EXCEPT !.events = SelectSeq(@, LAMBDA e : begin <= e.tick /\ e.tick <= end),
                   !.observations = SelectSeq(@, LAMBDA row : begin <= row.tick /\ row.tick <= end),
                   !.now = IF @ < end THEN @ ELSE end,
                   !.accounts = [i \in DOMAIN @ |-> [@[i] EXCEPT !.busy = 0, !.idle = 0]]]

-----------------------------------------------------------------------------
(* The exported tables.  range is a pair of ticks, or None for the complete run. *)

InExport(tick, range) == range = None \/ (range[1] <= tick /\ tick <= range[2])

EventRows(result, range) ==
    LET chosen == SelectSeq(result.events, LAMBDA e : InExport(e.tick, range))
    IN  [i \in DOMAIN chosen |-> [sequence |-> chosen[i].sequence, tick |-> chosen[i].tick, type |-> chosen[i].type,
                                  task |-> chosen[i].task, job |-> chosen[i].job, cause |-> chosen[i].cause]]

SignalRows(result, range) ==
    LET chosen == SelectSeq(result.observations, LAMBDA row : InExport(row.tick, range))
        series(name) == [i \in DOMAIN chosen |-> [tick |-> chosen[i].tick, name |-> name, value |-> chosen[i].values[name]]]
    IN  FlattenSeq([i \in DOMAIN result.names |-> series(result.names[i])])

StatisticsCells(s) == IF s = None THEN <<>> ELSE <<s.count, s.minimum, s.maximum, s.total>>

MetricRows(m, tasks) ==
    LET run(name, value) == [category |-> "run", id |-> 0, metric |-> name, statistics |-> <<>>, value |-> <<value>>]
        response(t) == [category |-> "task", id |-> t, metric |-> "response_time",
                        statistics |-> StatisticsCells(m.responses[t]), value |-> <<>>]
        resource(r) ==
            LET cell(name, value) == [category |-> "resource", id |-> r.id, metric |-> name, statistics |-> <<>>, value |-> value]
            IN  <<cell("busy_ticks", <<r.busy>>), cell("idle_ticks", <<r.idle>>),
                  cell("utilization", IF r.utilization = None THEN <<>> ELSE r.utilization)>>
        message(name, statistics, value) ==
            [category |-> "message", id |-> 0, metric |-> name, statistics |-> statistics, value |-> value]
    IN  <<run("event_count", m.event_count), run("horizon_tick", m.horizon), run("completed_jobs", m.completed_jobs),
          run("deadline_misses", m.deadline_misses), run("preemptions", m.preemptions)>>
        \o [i \in DOMAIN tasks |-> response(tasks[i])]
        \o FlattenSeq([i \in DOMAIN m.resources |-> resource(m.resources[i])])
        \o <<message("sent", <<>>, <<m.sent>>), message("delivered", <<>>, <<m.delivered>>),
             message("delivery_delay", StatisticsCells(m.delays), <<>>)>>

\* The tables of one export, in the order they are written.
Tables(result, range) ==
    LET metrics == RunMetrics(IF range = None THEN result ELSE ResultRange(result, range[1], range[2]))
    IN  [events |-> EventRows(result, range), signals |-> SignalRows(result, range),
         metrics |-> MetricRows(metrics, SetToSortSeq(result.experiment.tasks, <)),
         event_rows |-> Cardinality({i \in DOMAIN result.events : InExport(result.events[i].tick, range)}),
         signal_rows |-> Len(result.names) * Cardinality({i \in DOMAIN result.observations :
                                                             InExport(result.observations[i].tick, range)})]

-----------------------------------------------------------------------------
(* Plotting. *)

\* std::min_element and std::max_element over offsets lo .. hi: the first of the extreme ones.
FirstAt(samples, lo, hi, Better(_, _)) ==
    CHOOSE i \in lo .. hi : \A j \in lo .. hi : /\ ~ Better(samples[j].value, samples[i].value)
                                                /\ j < i => Better(samples[i].value, samples[j].value)

Bucket(window, lo, hi) ==
    IF lo > hi THEN <<>>
    ELSE LET minimum == FirstAt(window, lo, hi, <)
             maximum == FirstAt(window, lo, hi, >)
         IN  IF minimum = maximum THEN <<window[minimum]>>
             ELSE IF minimum < maximum THEN <<window[minimum], window[maximum]>>
             ELSE <<window[maximum], window[minimum]>>

Transitions(window) ==
    LET keep(i) == \/ i \in {1, Len(window)}
                   \/ i > 1 /\ window[i].value # window[i - 1].value
                   \/ i < Len(window) /\ window[i + 1].value # window[i].value
    IN  LET kept == SelectSeq([i \in DOMAIN window |-> i], keep)
        IN  [n \in DOMAIN kept |-> window[kept[n]]]

\* downsample_signal.
Window(samples, a, b) ==
    SelectSeq(samples, LAMBDA s : IF a <= b THEN a <= s.tick /\ s.tick <= b ELSE b <= s.tick /\ s.tick <= a)

Downsampled(samples, boolean, begin, end, maximum) ==
    LET window == Window(samples, begin, end)
        count == Len(window)
        buckets == IF (maximum - 2) \div 2 > 1 THEN (maximum - 2) \div 2 ELSE 1
        offset(bucket) == 1 + ((count - 2) * bucket) \div buckets
    IN  IF count = 0 \/ maximum = 0 THEN <<>>
        ELSE IF count <= maximum THEN window
        ELSE IF boolean THEN Transitions(window)
        ELSE IF maximum = 1 THEN <<window[1]>>
        ELSE IF maximum < 4 THEN <<window[1], Last(window)>>
        ELSE <<window[1]>>
             \o FlattenSeq([n \in 1 .. buckets |-> Bucket(window, offset(n - 1) + 1, offset(n))])
             \o <<Last(window)>>

\* build_plot_lanes: one lane per unit and kind, in the order of first use.
PlotLanes(selected, known) ==
    LET place(lanes, s) ==
            LET fits == {i \in DOMAIN lanes : lanes[i].unit = s.unit /\ lanes[i].digital = s.digital}
            IN  IF s \notin known THEN lanes
                ELSE IF fits = {} THEN Append(lanes, [unit |-> s.unit, digital |-> s.digital, series |-> <<s>>])
                ELSE [lanes EXCEPT ![Min(fits)].series = Append(@, s)]
    IN  FoldLeft(place, <<>>, selected)

\* resolve_plot_range.
PlotRange(now, mode, chosen, custom) ==
    CASE mode = "selected" /\ chosen # None ->
             <<Max({0, chosen[1]}), Min({now, chosen[2]})>>
      [] mode = "custom" /\ 0 <= custom[1] /\ custom[1] <= custom[2] ->
             <<Min({custom[1], now}), Min({custom[2], now})>>
      [] OTHER -> <<0, now>>

-----------------------------------------------------------------------------
(* The export. *)

ResultFiles == <<"system", "run-plan", "events.jsonl", "events.csv", "signals", "metrics.json", "metrics.csv", "manifest">>
NotExporting == [step |-> 0]

\* A result directory in which everything describes the same outcome.
Whole(outcome) == [i \in DOMAIN ResultFiles |-> <<ResultFiles[i], outcome>>]

ASSUME ExportAssumption == \A outcome \in Outcomes : Whole(outcome) # None

\* export_run_result up to unique_temporary_directory.
BeginExport ==
    /\ exporting = NotExporting
    /\ \E id \in RunIds, outcome \in Outcomes :
           LET free == {s \in 0 .. MaxSuffix : temporary[id][s] = None}
           IN  /\ published[id] = None
               /\ \E suffix \in free :
                      /\ \A s \in free : suffix <= s
                      /\ exporting' = [step |-> 1, id |-> id, suffix |-> suffix, outcome |-> outcome]
                      /\ temporary' = [temporary EXCEPT ![id][suffix] = <<>>]
    /\ UNCHANGED <<published, exported>>

InTemporary == temporary[exporting.id][exporting.suffix]

\* write_file, for one file after the other.
WriteFile ==
    /\ exporting.step \in DOMAIN ResultFiles
    /\ temporary' = [temporary EXCEPT ![exporting.id][exporting.suffix] =
                         Append(@, <<ResultFiles[exporting.step], exporting.outcome>>)]
    /\ exporting' = [exporting EXCEPT !.step = @ + 1]
    /\ UNCHANGED <<published, exported>>

\* A failed write, a series that cannot be exported or a failed rename: the temporary
\* directory is removed, as far as that succeeds.
ExportFails ==
    /\ exporting.step > 0
    /\ exporting' = NotExporting
    /\ \E rest \in {None, InTemporary} :
           temporary' = [temporary EXCEPT ![exporting.id][exporting.suffix] = rest]
    /\ UNCHANGED <<published, exported>>

RenameResult ==
    /\ exporting.step = Len(ResultFiles) + 1
    /\ published' = [published EXCEPT ![exporting.id] = InTemporary]
    /\ temporary' = [temporary EXCEPT ![exporting.id][exporting.suffix] = None]
    /\ exported' = [exported EXCEPT ![exporting.id] = IF @ = None THEN exporting.outcome ELSE @]
    /\ exporting' = NotExporting

ProcessDies ==
    /\ exporting # NotExporting /\ exporting' = NotExporting
    /\ UNCHANGED <<published, temporary, exported>>

ExportInit ==
    /\ published = [id \in RunIds |-> None] /\ exported = [id \in RunIds |-> None]
    /\ temporary = [id \in RunIds |-> [s \in 0 .. MaxSuffix |-> None]]
    /\ exporting = NotExporting

ExportNext == BeginExport \/ WriteFile \/ ExportFails \/ RenameResult \/ ProcessDies

-----------------------------------------------------------------------------
\* A published run has every file, all of one outcome, and is the one first exported
\* there, whatever failed or died (export_run_result).
ExportsComplete ==
    \A id \in RunIds :
        published[id] # None => exported[id] \in Outcomes /\ published[id] = Whole(exported[id])

SumOf(value, indices) == MapThenSumSet(LAMBDA i : value[i], indices)

StatisticsOf(indices, value) ==
    IF indices = {} THEN None
    ELSE LET values == {value[i] : i \in indices}
         IN  [count |-> Cardinality(indices), minimum |-> Min(values), maximum |-> Max(values),
              total |-> SumOf(value, indices)]

\* The metrics of a range are those of exactly the events of the range: a response or a
\* delay is measured when both its ends lie inside.  All tables of one export agree on the
\* number of rows, and resources come in the order of their identifiers
\* (derive_run_metrics, select_run_result_range, export_run_result).
ResultSound(result, range) ==
    LET part == IF range = None THEN result ELSE ResultRange(result, range[1], range[2])
        log == SelectSeq(result.events, LAMBDA e : InExport(e.tick, range))
        m == RunMetrics(part)
        t == Tables(result, range)
        of(type) == {i \in DOMAIN log : log[i].type = type}
        starts(i) == IF log[i].type = "JobFinish"
                     THEN {j \in of("JobRelease") : <<log[j].task, log[j].job>> = <<log[i].task, log[i].job>>}
                     ELSE {j \in of("MessageSend") : log[j].message = log[i].message}
        elapsed == [i \in DOMAIN log |-> IF starts(i) = {} THEN 0 ELSE log[i].tick - log[Min(starts(i))].tick]
        measured(ends) == StatisticsOf({i \in ends : starts(i) # {}}, elapsed)
    IN  /\ part.events = log
        /\ \A task \in result.experiment.tasks :
               LET finished == {i \in of("JobFinish") : log[i].task = task}
               IN  m.responses[task] = measured(finished) /\ m.completions[task] = Cardinality(finished)
        /\ m.delays = measured(of("MessageDelivery"))
        /\ m.event_count = Len(log) /\ m.event_count = t.event_rows /\ t.event_rows = Len(t.events)
        /\ m.completed_jobs = Cardinality({i \in DOMAIN t.events : t.events[i].type = "JobFinish"})
        /\ m.sent >= m.delivered \/ range # None
        /\ t.signal_rows = Len(t.signals)
        /\ \A i \in DOMAIN m.resources :
               /\ \A j \in 1 .. i - 1 : m.resources[j].id < m.resources[i].id
               /\ m.resources[i].utilization = None <=> m.resources[i].busy + m.resources[i].idle = 0
        /\ range # None => \A i \in DOMAIN m.resources : m.resources[i].utilization = None

\* A thinned series keeps its ends and extremes within the number of points asked for; a
\* Boolean one keeps every transition, however many points that takes (downsample_signal).
SeriesSound(samples, boolean, begin, end, maximum) ==
    LET window == Window(samples, begin, end)
        thin == Downsampled(samples, boolean, begin, end, maximum)
        held(s) == Last(SelectSeq(thin, LAMBDA x : x.tick <= s.tick))
        values(series) == {s.value : s \in ToSet(series)}
    IN  /\ ToSet(thin) \subseteq ToSet(window)
        /\ \A i, j \in DOMAIN thin : i < j => thin[i].tick < thin[j].tick
        /\ ~ boolean => Len(thin) <= maximum
        /\ window # <<>> /\ maximum > 0 =>
               /\ thin[1] = window[1] /\ (maximum > 1 \/ boolean => Last(thin) = Last(window))
               /\ boolean => \A s \in ToSet(window) : held(s).value = s.value
               /\ maximum >= 4 => {Min(values(window)), Max(values(window))} \subseteq values(thin)

\* Every selected series that is known is in exactly one lane, with its like, in the order of
\* the selection; the whole range and a custom one stay within the run
\* (build_plot_lanes, resolve_plot_range).
LanesSound(selected, known) ==
    LET lanes == PlotLanes(selected, known)
        like(lane) == SelectSeq(selected, LAMBDA s : s \in known /\ s.unit = lane.unit /\ s.digital = lane.digital)
    IN  /\ \A i \in DOMAIN lanes : lanes[i].series = like(lanes[i]) /\ lanes[i].series # <<>>
        /\ \A i, j \in DOMAIN lanes : lanes[i].unit = lanes[j].unit /\ lanes[i].digital = lanes[j].digital => i = j
        /\ UNION {ToSet(lanes[i].series) : i \in DOMAIN lanes} = ToSet(selected) \cap known

PlotRangeSound(now, mode, chosen, custom) ==
    LET range == PlotRange(now, mode, chosen, custom)
    IN  mode # "selected" => 0 <= range[1] /\ range[1] <= range[2] /\ range[2] <= now
=============================================================================
