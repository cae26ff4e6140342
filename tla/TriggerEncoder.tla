--------------------------- MODULE TriggerEncoder ---------------------------
(***************************************************************************)
(* Projection of canonical events onto the Boolean trigger columns of the  *)
(* Bosch v10 model.  An event is read for its tick, type, phase and task;  *)
(* task 0 stands for an event without a task reference.                    *)
(***************************************************************************)
EXTENDS Integers, Sequences, SequencesExt, FiniteSetsExt

BoschTriggers ==
    <<"sensor_activated", "sensor_finished", "uplink_sent", "uplink_received",
      "estimator_activated", "estimator_finished", "controller_activated", "controller_finished",
      "feedforward_activated", "feedforward_finished", "merger_activated", "merger_finished",
      "downlink_sent", "downlink_received", "actuator_activated", "actuator_finished">>

\* bosch_trigger_column
Column(trigger) == CHOOSE i \in DOMAIN BoschTriggers : BoschTriggers[i] = trigger

Activation ==
    <<"sensor_activated", "estimator_activated", "controller_activated",
      "feedforward_activated", "merger_activated", "actuator_activated">>

Finish ==
    <<"sensor_finished", "estimator_finished", "controller_finished",
      "feedforward_finished", "merger_finished", "actuator_finished">>

Send(task) == CASE task = 1 -> "uplink_sent" [] task = 5 -> "downlink_sent"
Delivery(task) == CASE task = 2 -> "uplink_received" [] task = 6 -> "downlink_received"

Selected == {"JobStart", "JobFinish", "MessageSend", "MessageDelivery"}

\* require_phase
ExpectedPhase(type) ==
    CASE type = "JobStart" -> "Scheduling"
      [] type = "JobFinish" -> "ExecutionCompletion"
      [] type = "MessageSend" -> "CausedAction"
      [] type = "MessageDelivery" -> "MessageDelivery"

\* required_task_id and the default branches of the four task mappings.
MappedTasks(type) ==
    CASE type = "MessageSend" -> {1, 5}
      [] type = "MessageDelivery" -> {2, 6}
      [] OTHER -> 1 .. 6

\* An event that makes the encoder throw.
Unmappable(event) ==
    /\ event.type \in Selected
    /\ event.phase # ExpectedPhase(event.type) \/ event.task \notin MappedTasks(event.type)

Trigger(event) ==
    CASE event.type = "JobStart" -> Activation[event.task]
      [] event.type = "JobFinish" -> Finish[event.task]
      [] event.type = "MessageSend" -> Send(event.task)
      [] event.type = "MessageDelivery" -> Delivery(event.task)

\* The members of a set, each before those that earlier says come after it.
InOrder(set, earlier(_, _)) ==
    LET place(x) == 1 + Cardinality({y \in set : earlier(y, x)})
    IN  [i \in 1 .. Cardinality(set) |-> CHOOSE x \in set : place(x) = i]

\* The order normalize() sorts pulses by.
Before(p, q) == p.tick < q.tick \/ (p.tick = q.tick /\ Column(p.trigger) < Column(q.trigger))

\* normalize(): sorted by tick and column, Boolean duplicates merged.
Normalized(pulses) == InOrder(pulses, Before)

Rejects(trace) == \E i \in DOMAIN trace : Unmappable(trace[i])

\* encode_bosch_v10_triggers of a trace it does not reject.
Encoded(trace) ==
    LET mapped == {e \in ToSet(trace) : e.type \in Selected}
    IN  Normalized({[tick |-> e.tick, trigger |-> Trigger(e)] : e \in mapped})

-----------------------------------------------------------------------------
(* Bosch v10 seconds: a whole part and the digits of ten-thousandths. *)

TicksPerSecond == 10000

Digits(n) == IF n < 10 THEN <<n>> ELSE IF n < 100 THEN <<n \div 10, n % 10>>
             ELSE IF n < 1000 THEN <<n \div 100, (n \div 10) % 10, n % 10>>
             ELSE <<n \div 1000, (n \div 100) % 10, (n \div 10) % 10, n % 10>>

\* The padded digits without the zeros that end them.
Trimmed(digits) ==
    LET kept == Max({i \in DOMAIN digits : digits[i] # 0} \cup {0})
    IN  SubSeq(digits, 1, kept)

Padded(digits) == [i \in 1 .. 4 - Len(digits) |-> 0] \o digits

\* seconds_text of a nonnegative tick.
SecondsText(tick) ==
    LET rest == tick % TicksPerSecond
    IN  [seconds |-> tick \div TicksPerSecond,
         fraction |-> IF rest = 0 THEN <<>> ELSE Trimmed(Padded(Digits(rest)))]

\* serialize_bosch_v10_trigger_csv, one record a line.
CsvRows(pulses) ==
    LET rows == Normalized(ToSet(pulses))
    IN  [i \in DOMAIN rows |-> [tick |-> rows[i].tick, time |-> SecondsText(rows[i].tick),
                                column |-> Column(rows[i].trigger), name |-> rows[i].trigger]]
=============================================================================
