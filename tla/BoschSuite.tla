----------------------------- MODULE BoschSuite -----------------------------
(***************************************************************************)
(* The parts around a Bosch run, checked side by side: the functional run, *)
(* the FMI importer, the event queue, and the pure algorithms that read    *)
(* experiments and compare results.  They share no state.  An initial      *)
(* state picks the subject; the other parts stay at their start.           *)
(***************************************************************************)
EXTENDS BoschRun, Fmi2Importer, BoschConformance, BoschExperiment, EventQueueAllocator

VARIABLES
    subject,    \* the part that runs
    input       \* what a pure algorithm is applied to

suiteVars == <<subject, input, runVars, importerVars, queueVars>>

Subjects == {"run", "importer", "queue", "streams", "rows", "experiment"}
NoInput == [none |-> TRUE]

-----------------------------------------------------------------------------
(* Inputs. *)

\* Short traces of the events that reach a stream, in canonical order.
TraceEvents ==
    {[tick |-> e[1], type |-> e[2], phase |-> ExpectedPhase(e[2]), task |-> e[3], job |-> 1, resource |-> 1] :
        e \in {<<0, "JobStart", 1>>, <<1, "JobStart", 1>>, <<1, "JobFinish", 1>>, <<1, "JobFinish", 5>>,
               <<1, "MessageSend", 1>>, <<1, "MessageSend", 5>>}}
Traces == {t \in SeqOf(TraceEvents, 2) : \A i, j \in DOMAIN t : i < j => t[i].tick <= t[j].tick}
MessageRows == {[source |-> 1, job |-> 1, destination |-> 2, publish |-> 1, send |-> 1, delivery |-> 2,
                 send_event |-> 1, delivery_event |-> d] : d \in {0, 3}}
Projected(trace, messages) == [scheduler |-> ActualScheduler(trace), network |-> ActualNetwork(messages),
                               triggers |-> ActualTriggers(trace)]
StreamInputs == [reference : Traces, trace : Traces, recorded : SeqOf(MessageRows, 1), sent : SeqOf(MessageRows, 1)]

FunctionalRow(tick, real, counter) == [tick |-> tick, real |-> real, counter |-> counter, critical |-> FALSE]
FunctionalRows == {FunctionalRow(0, x, n) : x \in {-11, 0, 9, 10, 11, 12}, n \in {0, 1}}
                  \cup {FunctionalRow(1, x, 1) : x \in {9, 11}}
ShortRuns == {<<r>> : r \in FunctionalRows} \cup {<<FunctionalRow(0, 9, 0), r>> : r \in FunctionalRows}
RowInputs == {[online |-> o, replay |-> r, expected |-> e] :
                 o \in ShortRuns, e \in ShortRuns, r \in {<<FunctionalRow(0, 9, 0)>>}}
             \cup {[online |-> o, replay |-> o, expected |-> e] : o \in ShortRuns, e \in ShortRuns}

Examples == <<"curve", "lane_change">>
Answers == {0, 1, 2, 3}
ExperimentInputs ==
    [kind : {"ticks"}, tick : 0 .. 20 \cup {90, 100, 999, 1000, 9990, 9999, 10000, 10001, 10100, MaxTick}]
    \cup [kind : {"trajectory"}, ticks : UNION {[1 .. n -> 0 .. 3] : n \in 1 .. 3},
          velocity : UNION {[1 .. n -> {Invalid, 0, 5}] : n \in 1 .. 3}]
    \cup [kind : {"wizard"}, answers : UNION {[1 .. n -> Answers] : n \in 0 .. 5}]
    \cup [kind : {"tasks"}, placed : [1 .. 4 -> {"sensor_ecu", "cloud", "actuator_ecu"}], broken : {0, 1, 5},
          renamed : {0, 3}]
    \cup [kind : {"settings"}, trajectory : {"data/curve", "outside"}, saved : 1 .. 2, savedPlan : 1 .. 2,
          system : 1 .. 2, plan : 1 .. 2]

InputsOf(part) ==
    CASE part = "streams" -> StreamInputs
      [] part = "rows" -> RowInputs
      [] part = "experiment" -> ExperimentInputs

SuiteInit ==
    /\ subject \in Subjects
    /\ input = NoInput
    /\ schedule \in IF subject = "run" THEN Schedules ELSE {CHOOSE s \in Schedules : TRUE}
    /\ RunInit /\ ImporterInit /\ QueueInit

Choose ==
    /\ subject \in {"streams", "rows", "experiment"} /\ input = NoInput
    /\ input' \in InputsOf(subject)
    /\ UNCHANGED <<subject, runVars, importerVars, queueVars>>

SuiteNext ==
    \/ Choose
    \/ subject = "run" /\ RunNext /\ UNCHANGED <<subject, input, importerVars, queueVars>>
    \/ subject = "importer" /\ ImporterNext /\ UNCHANGED <<subject, input, runVars, queueVars>>
    \/ subject = "queue" /\ QueueNext /\ UNCHANGED <<subject, input, runVars, importerVars>>

SuiteSpec == SuiteInit /\ [][SuiteNext]_suiteVars

-----------------------------------------------------------------------------
JobCells(cells) == {c \in ToSet(cells) : c.name \notin {"uplink_sent", "downlink_sent"}}

\* A comparison says "matches" exactly when the two runs agree in every compared event, and
\* otherwise names the earliest row of the first stream that differs, where both prefixes
\* agree and one may have ended.  When the scheduler streams agree, so do the activations
\* and completions among the triggers.  The written trigger table is in order and reads back
\* (compare_bosch_reference, find_first_divergence).
StreamVerdict ==
    subject = "streams" /\ input # NoInput =>
        LET expected == Projected(input.reference, input.recorded)
            actual == Projected(input.trace, input.sent)
            report == Compared(expected, actual)
            found == report.first_divergence[1]
        IN  /\ report.matches <=> expected = actual
            /\ ~ report.matches =>
                   LET e == expected[found.stream]
                       a == actual[found.stream]
                   IN  /\ SubSeq(e, 1, found.row - 1) = SubSeq(a, 1, found.row - 1)
                       /\ Len(e) >= found.row - 1 /\ Len(a) >= found.row - 1
                       /\ found.expected # found.actual
                       /\ found.stream = "triggers" => JobCells(e) = JobCells(a)
            /\ LET rows == CsvRows(Encoded(input.trace))
               IN  \A i \in DOMAIN rows :
                       /\ ParsedTick(rows[i].time) = rows[i].tick
                       /\ i > 1 => Before([tick |-> rows[i - 1].tick, trigger |-> rows[i - 1].name],
                                           [tick |-> rows[i].tick, trigger |-> rows[i].name])
            /\ input.reference = input.trace /\ input.recorded = input.sent => report.matches

\* The functional report passes only runs whose replay is identical and whose rows all lie
\* in the tolerance band around the expected values, tick by tick; it passes every such
\* run, and the largest error it prints belongs to a compared row
\* (compare_bosch_functional_reference).
RowVerdict ==
    subject = "rows" /\ input # NoInput =>
        LET report == FunctionalReport(input.online, input.replay, input.expected)
            error(i) == Magnitude(input.online[i].real - input.expected[i].real)
            inBand(i) == \E slack \in 0 .. 1 + Magnitude(input.expected[i].real) \div 10 :
                             input.online[i].real \in {input.expected[i].real - slack, input.expected[i].real + slack}
            agrees(i) == inBand(i) /\ input.online[i].tick = i - 1 /\ input.expected[i].tick = i - 1
                         /\ input.online[i].counter = input.expected[i].counter
        IN  /\ report.matches <=> /\ input.online = input.replay
                                  /\ Len(input.online) = Len(input.expected)
                                  /\ \A i \in DOMAIN input.online : agrees(i)
            /\ report.matches <=> report.first_divergence = NoDivergence
            /\ report.matches => report.max_absolute_error = Max({error(i) : i \in DOMAIN input.online})

\* A comparison with the captured reference is right about whole runs, not only about the
\* rows both sides happen to have.
ConformanceVerdicts == StreamVerdict /\ RowVerdict

\* What the encoder and the project store write, the readers read back: seconds of a tick,
\* a trajectory sampled at consecutive ticks (and no other), a wizard answer as the same
\* request as its options in any order, a task table as an experiment that places every
\* task where its row says, and settings whose status is ReferenceBaseline
\* exactly while system and plan are the saved ones (seconds_text and parse_time_tick,
\* load_bosch_example_trajectory, load_reference_experiment, bosch_run_command,
\* bosch_project_factory).
ExperimentsReadBack ==
    subject = "experiment" /\ input # NoInput =>
        CASE input.kind = "ticks" ->
                 LET text == SecondsText(input.tick)
                 IN  /\ ParsedTick(text) = input.tick
                     /\ text.fraction # <<>> => Last(text.fraction) # 0
                     /\ Len(text.fraction) < 4 =>
                            ParsedTick([text EXCEPT !.fraction = Append(@, 0)]) = input.tick
                     /\ \A period \in 1 .. 3 :
                            LET d == TicksToDuration(input.tick, period)
                            IN  d # NoTick => DurationToTicks(d, period) = input.tick
          [] input.kind = "trajectory" ->
                 TrajectoryAccepted([i \in DOMAIN input.ticks |-> SecondsText(input.ticks[i])],
                                    input.ticks, input.velocity)
                 <=> /\ input.ticks = [i \in DOMAIN input.velocity |-> i - 1]
                     /\ Range(input.velocity) = {5}
          [] input.kind = "wizard" ->
                 LET request == WizardRequest(Examples, input.answers)
                     options == <<<<"--scenario", request.scenario>>, <<"--example", request.example>>>>
                 IN  request # Invalid =>
                         /\ DirectRequest(IF request.stop = NoTick THEN options
                                          ELSE Append(options, <<"--stop-tick", request.stop>>)) = request
                         /\ StopTickOf(request, 3) \in {NoTick} \cup 0 .. 2
                         /\ StopTickOf(request, 3) = NoTick <=> request.stop > 2
          [] input.kind = "tasks" ->
                 LET names == <<"Sensor", "Estimator", "Merger", "Actuator">>
                     rows == [i \in 1 .. 4 |-> [id |-> i, resource |-> input.placed[i],
                                               name |-> IF i = input.renamed THEN "Mixer" ELSE names[i]]]
                     table == IF input.broken = 0 THEN rows
                              ELSE SubSeq(rows, 1, input.broken - 1) \o <<Unreadable>>
                                       \o SubSeq(rows, input.broken, 4)
                     experiment == ReferenceExperiment(rows)
                 IN  /\ Loadable(table) <=> input.broken = 0 /\ input.renamed = 0
                     /\ Loadable(table) =>
                            /\ IsInjective(experiment.resources)
                            /\ \A i \in DOMAIN rows :
                                   experiment.resources[experiment.assignments[i].resource] = rows[i].resource
                            /\ experiment.routes = <<[source |-> 1, destination |-> 2],
                                                     [source |-> 3, destination |-> 4]>>
          [] input.kind = "settings" ->
                 LET fingerprint(n) == IF n = 1 THEN "one" ELSE "two"
                     written == SettingsDocument([trajectory |-> input.trajectory, scenario |-> "dedicated",
                                                  system |-> fingerprint(input.saved),
                                                  plan |-> fingerprint(input.savedPlan)])
                 IN  /\ written = Invalid <=> input.trajectory = "outside"
                     /\ written # Invalid =>
                            (ExperimentStatus("bosch", written, fingerprint(input.system), fingerprint(input.plan))
                                = "ReferenceBaseline"
                             <=> input.saved = input.system /\ input.savedPlan = input.plan)
=============================================================================
