-------------------------- MODULE BoschConformance --------------------------
(***************************************************************************)
(* Comparison of a run with the captured Bosch reference: the scenario     *)
(* tables, the three event streams and their first divergence, and the     *)
(* functional rows, online, replayed and expected.  A table is a sequence  *)
(* of rows; a row whose text cannot be parsed is the value Unreadable.     *)
(***************************************************************************)
EXTENDS TriggerEncoder

CONSTANT Unreadable     \* a row with wrong field count, quotes or malformed numbers

Missing == [row |-> "missing"]
NoDivergence == <<>>

\* require_header and the row parsers: one malformed row makes the file unusable.
Loads(table) == Unreadable \notin ToSet(table)

\* find_or_add_resource over the rows of tasks.csv: resources in order of first appearance.
Resources(table) ==
    FoldLeft(LAMBDA names, row : IF row.resource \in ToSet(names) THEN names
                                 ELSE Append(names, row.resource), <<>>, table)

IndexOf(names, name) == CHOOSE i \in DOMAIN names : names[i] = name

\* load_reference_experiment of a table of [id, name, resource] rows, with its two routes.
Loadable(table) ==
    /\ Loads(table) /\ table # <<>>
    /\ \A name \in {"Sensor", "Estimator", "Merger", "Actuator"} : \E row \in ToSet(table) : row.name = name

ReferenceExperiment(table) ==
    LET names == Resources(table)
        task(name) == table[CHOOSE i \in DOMAIN table : /\ table[i].name = name
                                                        /\ \A j \in 1 .. i - 1 : table[j].name # name].id
    IN  [resources |-> names,
         assignments |-> [i \in DOMAIN table |-> [task |-> table[i].id, resource |-> IndexOf(names, table[i].resource)]],
         routes |-> <<[source |-> task("Sensor"), destination |-> task("Estimator")],
                      [source |-> task("Merger"), destination |-> task("Actuator")]>>]

\* scheduler_event_name
SchedulerName ==
    [JobRelease |-> "release", JobStart |-> "start", JobPreempt |-> "preempt", JobResume |-> "resume",
     JobFinish |-> "finish", DeadlineMiss |-> "deadline_miss"]

\* project_actual_scheduler; task and resource names are functions of the identifiers.
ActualScheduler(trace) ==
    LET lifecycle == SelectSeq(trace, LAMBDA e : e.type \in DOMAIN SchedulerName)
    IN  [i \in DOMAIN lifecycle |->
            [tick |-> lifecycle[i].tick, type |-> SchedulerName[lifecycle[i].type],
             task |-> lifecycle[i].task, job |-> lifecycle[i].job, resource |-> lifecycle[i].resource]]

\* project_actual_network: an event that never happened leaves its flag down.
ActualNetwork(messages) ==
    [i \in DOMAIN messages |->
        [source |-> messages[i].source, job |-> messages[i].job, destination |-> messages[i].destination,
         publish |-> messages[i].publish, send |-> messages[i].send, delivery |-> messages[i].delivery,
         sent |-> messages[i].send_event # 0, delivered |-> messages[i].delivery_event # 0]]

\* project_actual_triggers
ActualTriggers(trace) ==
    LET pulses == Encoded(trace)
    IN  [i \in DOMAIN pulses |-> [tick |-> pulses[i].tick, column |-> Column(pulses[i].trigger),
                                  name |-> pulses[i].trigger]]

RowAt(table, i) == IF i \in DOMAIN table THEN table[i] ELSE Missing

\* Faulty variant of FirstDivergence: rows beyond the shorter stream are never looked at.
FirstCommonDivergence(stream, expected, actual) ==
    LET differ == {i \in DOMAIN expected \cap DOMAIN actual : expected[i] # actual[i]}
    IN  IF differ = {} THEN NoDivergence
        ELSE <<[stream |-> stream, row |-> Min(differ), expected |-> expected[Min(differ)],
                actual |-> actual[Min(differ)]]>>

\* find_first_divergence
FirstDivergence(stream, expected, actual) ==
    LET differ == {i \in DOMAIN expected \cup DOMAIN actual : RowAt(expected, i) # RowAt(actual, i)}
        row == Min(differ)
    IN  IF differ = {} THEN NoDivergence
        ELSE <<[stream |-> stream, row |-> row, expected |-> RowAt(expected, row), actual |-> RowAt(actual, row)]>>

\* compare_bosch_reference: the first stream that diverges is reported.
Compared(expected, actual) ==
    LET scheduler == FirstDivergence("scheduler", expected.scheduler, actual.scheduler)
        network == FirstDivergence("network", expected.network, actual.network)
        divergence == IF scheduler # NoDivergence THEN scheduler
                      ELSE IF network # NoDivergence THEN network
                      ELSE FirstDivergence("triggers", expected.triggers, actual.triggers)
    IN  [matches |-> divergence = NoDivergence, first_divergence |-> divergence]

-----------------------------------------------------------------------------
(* Functional rows: [tick, real, counter, critical]; expected rows hold    *)
(* the tick their seconds denote.  The tolerance is one unit plus a tenth  *)
(* of the expected value, standing for 1e-12 and 1e-9.                     *)

Magnitude(x) == IF x < 0 THEN - x ELSE x

WithinTolerance(actual, wanted) == 10 * Magnitude(actual - wanted) <= 10 + Magnitude(wanted)

\* One row of the loop: exact discrete fields, Reals within the tolerance.
RowMatches(row, actual, wanted) ==
    /\ actual.tick = row - 1 /\ wanted.tick = row - 1
    /\ actual.counter = wanted.counter /\ actual.critical = wanted.critical
    /\ WithinTolerance(actual.real, wanted.real)

\* compare_bosch_functional_reference, with the reason its first_divergence names.
FunctionalReport(online, replay, expected) ==
    LET compared == DOMAIN online \cap DOMAIN expected
        differing == {i \in compared : ~ RowMatches(i, online[i], expected[i])}
        online_replay_matches == online = replay
        reason == IF ~ online_replay_matches THEN <<"replay">>
                  ELSE IF Len(expected) # Len(online) THEN <<"rows">>
                  ELSE IF differing # {} THEN <<"row", Min(differing)>>
                  ELSE NoDivergence
    IN  [matches |-> online_replay_matches /\ Len(expected) = Len(online) /\ differing = {},
         online_replay_matches |-> online_replay_matches,
         max_absolute_error |-> Max({0} \cup {Magnitude(online[i].real - expected[i].real) : i \in compared}),
         first_divergence |-> reason]
=============================================================================
