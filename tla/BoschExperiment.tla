-------------------------- MODULE BoschExperiment --------------------------
(***************************************************************************)
(* The supplied Bosch experiments: the trajectory columns read in          *)
(* lockstep, decimal seconds as exact ticks, the run request from the      *)
(* command line, the run service, and the project built from an            *)
(* experiment with the fingerprints that recognise its baseline.           *)
(***************************************************************************)
EXTENDS TriggerEncoder

CONSTANTS
    MaxTick,        \* bound: std::numeric_limits<Tick>::max()
    Supplied,       \* the supplied example directories
    Invalid         \* text that is not what it should be, or an exception

NoTick == -1        \* an absent optional tick

-----------------------------------------------------------------------------
(* Ticks. *)

\* duration_to_ticks: exact multiples of a positive period, or an exception.
DurationToTicks(duration, period) ==
    IF period <= 0 \/ duration < 0 \/ duration % period # 0 THEN NoTick ELSE duration \div period

\* ticks_to_duration, refused when the product is not representable.
TicksToDuration(ticks, period) ==
    IF period <= 0 \/ ticks < 0 \/ ticks > MaxTick \div period THEN NoTick ELSE ticks * period

DigitsValue(digits) == FoldLeft(LAMBDA n, d : 10 * n + d, 0, digits)

\* Faulty variant of ParsedTick: the fraction is not scaled to ten-thousandths.
UnscaledTick(text) == IF Len(text.fraction) > 4 THEN NoTick
                      ELSE text.seconds * TicksPerSecond + DigitsValue(text.fraction)

\* parse_time_tick of a text of whole seconds and fraction digits; NoTick stands for a throw.
ParsedTick(text) ==
    LET fraction == DigitsValue(text.fraction) * 10 ^ (4 - Len(text.fraction))
    IN  IF Len(text.fraction) > 4 \/ text.seconds > (MaxTick - fraction) \div TicksPerSecond THEN NoTick
        ELSE text.seconds * TicksPerSecond + fraction

-----------------------------------------------------------------------------
(* Trajectory: three columns stand for the six. *)

\* load_bosch_example_trajectory: equal row counts, consecutive ticks, finite values
\* (Invalid stands for text that is not a finite number) and positive velocity.
TrajectoryAccepted(time, feedforward, velocity) ==
    /\ Len(time) = Len(feedforward) /\ Len(time) = Len(velocity) /\ time # <<>>
    /\ \A i \in DOMAIN time : /\ time[i] # Invalid /\ ParsedTick(time[i]) = i - 1
                              /\ feedforward[i] # Invalid
                              /\ velocity[i] # Invalid /\ velocity[i] > 0

-----------------------------------------------------------------------------
(* Requests. *)

NoRequest == [example |-> "", scenario |-> "", stop |-> NoTick]

\* parse_direct_request over <<option, value>> pairs; an odd argument list has a last
\* option without value.
DirectRequest(options) ==
    LET rejects(o) == \/ o[1] \notin {"--example", "--scenario", "--stop-tick"}
                      \/ Len(o) = 1
                      \/ o[1] = "--example" /\ o[2] \notin Supplied
                      \/ o[1] = "--scenario" /\ o[2] \notin {"dedicated", "shared_cloud"}
                      \/ o[1] = "--stop-tick" /\ o[2] \notin 0 .. MaxTick
        assigned(r, o) == CASE o[1] = "--example" -> [r EXCEPT !.example = o[2]]
                            [] o[1] = "--scenario" -> [r EXCEPT !.scenario = o[2]]
                            [] o[1] = "--stop-tick" -> [r EXCEPT !.stop = o[2]]
        named(option) == \E i \in DOMAIN options : options[i][1] = option
    IN  IF (\E i \in DOMAIN options : rejects(options[i])) \/ ~ named("--example") \/ ~ named("--scenario")
        THEN Invalid ELSE FoldLeft(assigned, NoRequest, options)

\* prompt_choice: answers outside the range are asked again, the end of the input aborts.
Choice(answers, maximum) ==
    LET good == {i \in DOMAIN answers : answers[i] \in 1 .. maximum}
    IN  IF good = {} THEN [value |-> 0, rest |-> <<>>]
        ELSE [value |-> answers[Min(good)], rest |-> SubSeq(answers, Min(good) + 1, Len(answers))]

\* prompt_for_request: trajectory, scenario, horizon, and the stop tick if one was asked for.
WizardRequest(examples, answers) ==
    LET example == Choice(answers, Len(examples))
        scenario == Choice(example.rest, 2)
        horizon == Choice(scenario.rest, 2)
        stop == Head(horizon.rest)
        request == [example |-> examples[example.value],
                    scenario |-> IF scenario.value = 1 THEN "dedicated" ELSE "shared_cloud", stop |-> NoTick]
    IN  IF 0 \in {example.value, scenario.value, horizon.value} THEN Invalid
        ELSE IF horizon.value = 1 THEN request
        ELSE IF horizon.rest = <<>> \/ stop \notin 0 .. MaxTick THEN Invalid
        ELSE [request EXCEPT !.stop = stop]

\* DefaultBoschRunService::run: the resolved stop tick, Invalid beyond the trajectory;
\* create_bosch_project resolves it the same way.
StopTickOf(request, samples) ==
    IF request.stop = NoTick THEN samples - 1
    ELSE IF request.stop > samples - 1 THEN NoTick ELSE request.stop

-----------------------------------------------------------------------------
(* Projects. *)

\* load_settings: schema 1 has no fingerprints, schema 2 exactly five members.
SettingsLoad(document) ==
    IF ~ {"schema_version", "trajectory_directory", "scenario"} \subseteq DOMAIN document THEN Invalid
    ELSE IF document.schema_version = 1
    THEN [trajectory |-> document.trajectory_directory, scenario |-> document.scenario, system |-> "", plan |-> ""]
    ELSE IF document.schema_version # 2 \/ Cardinality(DOMAIN document) # 5
            \/ ~ {"baseline_system_fingerprint", "baseline_run_plan_fingerprint"} \subseteq DOMAIN document
    THEN Invalid
    ELSE [trajectory |-> document.trajectory_directory, scenario |-> document.scenario,
          system |-> document.baseline_system_fingerprint, plan |-> document.baseline_run_plan_fingerprint]

\* serialize_settings: always schema 2, and only for a trajectory inside the project.
SettingsDocument(settings) ==
    IF settings.trajectory = "outside" THEN Invalid
    ELSE [schema_version |-> 2, trajectory_directory |-> settings.trajectory, scenario |-> settings.scenario,
          baseline_system_fingerprint |-> settings.system, baseline_run_plan_fingerprint |-> settings.plan]

\* bosch_experiment_status; a fingerprint is that of the system or plan it was taken from.
ExperimentStatus(kind, document, system, plan) ==
    LET settings == SettingsLoad(document)
    IN  IF kind # "bosch" THEN "NotBosch"
        ELSE IF settings = Invalid THEN Invalid
        ELSE IF "" \in {settings.system, settings.plan, plan} THEN "Modified"
        ELSE IF settings.system = system /\ settings.plan = plan THEN "ReferenceBaseline" ELSE "Modified"
=============================================================================
