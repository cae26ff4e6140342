------------------------------ MODULE BoschRun ------------------------------
(***************************************************************************)
(* The Bosch experiment as its functional model sees it: six periodic      *)
(* tasks whose jobs start and finish on a nominal schedule, an uplink      *)
(* from the sensor to the estimator and a downlink from the merger to the  *)
(* actuator, their events told tick by tick.  What the model must show     *)
(* for such a trace is computed directly from the ticks of the events.     *)
(***************************************************************************)
EXTENDS BoschFunctionalModel, EventQueue

CONSTANTS
    Periods,        \* the tasks' common period, one of these
    Responses,      \* ticks from the start to the finish of a job
    Offsets,        \* ticks before a task's first job
    Delays          \* network delays

ASSUME NominalAssumption ==
    /\ Periods \subseteq Nat \ {0, 1} /\ Offsets \subseteq Nat
    /\ {Responses, Delays} \subseteq SUBSET (Nat \ {0})
    /\ \A p \in Periods, r \in Responses : r <= p
    \* a packet is in flight at most so long that the FIFO does not overflow
    /\ \A p \in Periods, d \in Delays : d <= p * NetworkCapacity

VARIABLES
    schedule,   \* offset, period, response and the two delays, chosen once
    told        \* the batch of the current tick has been told

runVars == <<schedule, told, boschVars>>

Tasks == 1 .. 6

Schedules == [offset : [Tasks -> Offsets], period : Periods, response : Responses, up : Delays, down : Delays]

Starts(task) == {t \in 0 .. StopTick : t >= schedule.offset[task]
                                       /\ (t - schedule.offset[task]) % schedule.period = 0}
Finishes(task) == {t + schedule.response : t \in Starts(task)}
\* A message is sent in the tick after the completion that produced it.
Sends(task) == {t + 1 : t \in Finishes(task)}
Deliveries(task, delay) == {t + delay : t \in Sends(task)}

EventOf(tick, type, task) == [tick |-> tick, type |-> type, phase |-> ExpectedPhase(type), task |-> task]

\* Every event of a tick; a job also has a release, which the encoder leaves out.
Batch(tick) ==
    {EventOf(tick, "JobFinish", k) : k \in {j \in Tasks : tick \in Finishes(j)}}
    \cup {EventOf(tick, "JobStart", k) : k \in {j \in Tasks : tick \in Starts(j)}}
    \cup {[EventOf(tick, "JobStart", k) EXCEPT !.type = "JobRelease", !.phase = "JobRelease"] :
              k \in {j \in Tasks : tick \in Starts(j)}}
    \cup {EventOf(tick, "MessageSend", k) : k \in {j \in {1, 5} : tick \in Sends(j)}}
    \cup {EventOf(tick, "MessageDelivery", 2) : t \in Deliveries(1, schedule.up) \cap {tick}}
    \cup {EventOf(tick, "MessageDelivery", 6) : t \in Deliveries(5, schedule.down) \cap {tick}}

\* The batch in the order of its phases, one event of a task in each.
Earlier(e, f) == \/ PhasePrecedence(e.phase) < PhasePrecedence(f.phase)
                 \/ e.phase = f.phase /\ e.task < f.task
BatchSequence(tick) == InOrder(Batch(tick), Earlier)

RunInit == schedule \in Schedules /\ told = FALSE /\ BoschInit

StartRun == Initialize /\ UNCHANGED <<schedule, told>>
TellActions == ~ told /\ ApplyActions(adapter.current, BatchSequence(adapter.current))
               /\ told' = TRUE /\ UNCHANGED schedule
Advance == told /\ AdvanceOneTick /\ told' = FALSE /\ UNCHANGED schedule
FinishRun == told /\ adapter.current = StopTick /\ Finalize /\ UNCHANGED <<schedule, told>>

RunNext == StartRun \/ TellActions \/ Advance \/ FinishRun

RunSpec == RunInit /\ [][RunNext]_runVars

-----------------------------------------------------------------------------
(* The ideal run.  X(n) is what stage X shows after the batches of the     *)
(* ticks before n.                                                         *)

Latest(ticks, n) == Max({t \in ticks : t < n} \cup {NoStamp})

\* The start of the job of task that last finished before n, NoStamp if there is none.
LastStart(task, n) == LET f == Latest(Finishes(task), n)
                      IN  IF f = NoStamp THEN NoStamp ELSE f - schedule.response

\* The completion of the message of task that was last delivered before n.
LastCarried(task, delay, n) == LET d == Latest(Deliveries(task, delay), n)
                               IN  IF d = NoStamp THEN NoStamp ELSE d - delay - 1

IdealReading(n) == LET s == LastStart(1, n)
                   IN  IF s = NoStamp THEN Sensed(0, 0) ELSE Sensed(s + 1, s)
IdealReceived(n) == LET f == LastCarried(1, schedule.up, n)
                    IN  IF f = NoStamp THEN Sensed(0, 0) ELSE IdealReading(f + 1)
IdealReference(n) == LastStart(4, n)
EstimateAt(s) == [meas |-> IdealReceived(s + 1), ff |-> IdealReference(s + 1),
                  n |-> Cardinality({t \in Starts(2) : t <= s})]
IdealEstimate(n) == LET s == LastStart(2, n)
                    IN  IF s = NoStamp THEN FirstEstimate(0) ELSE EstimateAt(s)
IdealFeedback(n) == LET s == LastStart(3, n)
                    IN  IF s = NoStamp THEN NoEstimate ELSE IdealEstimate(s + 1)
IdealYawRate(n) == LET s == LastStart(4, n)
                   IN  IF s = NoStamp THEN NoYawRate ELSE YawRate(s, IdealEstimate(s + 1))
IdealCommand(n) == LET s == LastStart(5, n)
                   IN  IF s = NoStamp THEN NoCommand
                       ELSE Command(IdealYawRate(s + 1), IdealFeedback(s + 1), IdealEstimate(s + 1))
IdealArrived(n) == LET f == LastCarried(5, schedule.down, n)
                   IN  IF f = NoStamp THEN NoCommand ELSE IdealCommand(f + 1)
IdealActuation(n) == LET s == LastStart(6, n)
                     IN  IF s = NoStamp THEN NoCommand ELSE IdealArrived(s + 1)

\* The vectors whose cost is sampled before n: every SampleSteps steps, or at every estimation.
RealSamples(n) == {t \in 0 .. n - 1 : t % SampleSteps = 0}
RemoteSamples(n) == {t \in Starts(2) : t < n}
\* The sum of the costs of some ticks of the run.
Total(costs) ==
    LET sum[n \in 0 .. StopTick + 1] ==
            IF n = 0 THEN 0 ELSE sum[n - 1] + (IF n - 1 \in DOMAIN costs THEN costs[n - 1] ELSE 0)
    IN  sum[StopTick + 1]
\* The last WindowSize of a set of ticks.
Window(ticks) == {t \in ticks : Cardinality({u \in ticks : u > t}) < WindowSize}

IdealSignals(n) ==
    [lateral_error |-> n,
     actuator_command |-> IdealActuation(n),
     rolling_real |-> Total([t \in Window(RealSamples(n)) |-> Cost(t + 1)]),
     rolling_remote |-> Total([t \in Window(RemoteSamples(n)) |-> Cost(EstimateAt(t).meas.x)]),
     violation_counter |-> Cardinality({t \in RealSamples(n) : OverThreshold(t + 1)}),
     critical_section |-> \E t \in RealSamples(n) : /\ t = Max(RealSamples(n))
                                                    /\ InCurve(t)]

\* Every observation shows what the trace implies: the actuator command of tick n goes back,
\* through merger, controllers, estimator and both networks, to exactly the readings that
\* the jobs started, finished and delivered by then have carried, and the metrics are those
\* of the samples taken (process_trigger_events, computePerformance, advance_to).  Before
\* initialisation ends every parameter of the model has been set once.
ObservationsFollowTrace ==
    /\ adapter.initialized /\ ~ adapter.thrown =>
           row = [tick |-> adapter.current, signals |-> IdealSignals(adapter.current)]
    /\ adapter.initialized => fmu.set = {<<v.name, v.index>> : v \in Laid(1, Parameters)}

\* While the model is usable the FMU's trigger inputs are exactly the pulses of the current
\* tick's batch, told or not: none survives its step and none reaches another column
\* (apply_actions and the reset loop of advance_to).
PulsesLastOneTick ==
    Active => LET accepted == {e \in Batch(adapter.current) : told /\ e.type \in Selected}
              IN  {i \in DOMAIN TriggerInputs : fmu.trig[i]} = {Column(Trigger(e)) : e \in accepted}
=============================================================================
