------------------------ MODULE LateralMotionControl ------------------------
(***************************************************************************)
(* The lateral-motion FMU as a value: its variable table, its trigger      *)
(* inputs, the chain sensor, uplink, estimator, feedback and feedforward   *)
(* controller, merger, downlink, actuator, and its performance metrics.    *)
(*                                                                         *)
(* A vector is known by where it comes from: the physical state by the     *)
(* number of simulated steps, a computed vector by the vectors it was      *)
(* computed from.  What a step or a controller computes is left out; when  *)
(* it reads its operands and when its result becomes visible is not.       *)
(***************************************************************************)
EXTENDS Integers, Sequences

CONSTANTS
    NetworkCapacity,    \* NETWORK_BUFFER_SIZE
    WindowSize,         \* PERF_WINDOW_SIZE
    SampleSteps         \* simulation steps between two performance samples

ASSUME LateralAssumption == {NetworkCapacity, WindowSize, SampleSteps} \subseteq Nat \ {0}

-----------------------------------------------------------------------------
(* The variable table: blocks of consecutive value references. *)

TriggerInputs ==
    <<"sensor_activated", "sensor_finished", "sc_sent", "sc_received",
      "estimator_activated", "estimator_finished", "controller_activated", "controller_finished",
      "feedforward_activated", "feedforward_finished", "merger_activated", "merger_finished",
      "ca_sent", "ca_received", "actuator_activated", "actuator_finished">>

Block(name, size) == [name |-> name, size |-> size]

Parameters ==
    <<Block("K_TRC_FB", 6), Block("K_TRC_FF", 2), Block("K_YRC_X", 6), Block("K_YRC_PSI", 1),
      Block("X0", 6), Block("NOISE_MEAN", 6), Block("NOISE_STD_DEV", 6), Block("V0", 1)>>

Inputs == [i \in DOMAIN TriggerInputs |-> Block(TriggerInputs[i], 1)]
          \o <<Block("FF_REF", 2), Block("VELOCITY", 1)>>

Outputs ==
    <<Block("phys", 6), Block("sens", 5), Block("est", 6), Block("fb", 1), Block("ff", 2),
      Block("ff_psi", 1), Block("agg", 1), Block("act", 1), Block("time", 1), Block("step", 1),
      Block("local_critical", 1), Block("remote_critical", 1), Block("real_critical", 1),
      Block("local_rolling", 1), Block("remote_rolling", 1), Block("real_rolling", 1),
      Block("local_average", 1), Block("remote_average", 1), Block("real_average", 1),
      Block("local_violations", 1), Block("remote_violations", 1), Block("real_violations", 1),
      Block("local_violated", 1), Block("remote_violated", 1), Block("real_violated", 1)>>

\* Each block starts where the one before it ends.
Laid(first, blocks) ==
    LET start[i \in DOMAIN blocks] == IF i = 1 THEN first ELSE start[i - 1] + blocks[i - 1].size
    IN  UNION {{[ref |-> start[i] + k, name |-> blocks[i].name, index |-> k] :
                    k \in 0 .. blocks[i].size - 1} : i \in DOMAIN blocks}

Variables == Laid(1, Parameters) \cup Laid(100, Inputs) \cup Laid(1000, Outputs)

VariableAt(ref) == CHOOSE v \in Variables : v.ref = ref

-----------------------------------------------------------------------------
(* The packet FIFO between two platforms: a ring with a count. *)

\* The stamp of what has not been computed from anything yet.
NoStamp == -1

EmptyBuffer == [data |-> [i \in 0 .. NetworkCapacity - 1 |-> NoStamp], head |-> 0, tail |-> 0, count |-> 0]

\* A full buffer drops the new packet; the callers do not look at the result.
Push(b, packet) ==
    IF b.count >= NetworkCapacity THEN b
    ELSE [b EXCEPT !.data[b.tail] = packet, !.tail = (@ + 1) % NetworkCapacity, !.count = @ + 1]

Dequeued(b) ==
    IF b.count = 0 THEN b ELSE [b EXCEPT !.head = (@ + 1) % NetworkCapacity, !.count = @ - 1]

\* What the receiver holds afterwards; nothing arrives from an empty buffer.
Received(b, old) == IF b.count = 0 THEN old ELSE b.data[b.head]

-----------------------------------------------------------------------------
(* Performance metrics.  The cost x'Qx of a vector and the curve check of a *)
(* reference are fixed functions of the stamp, so that sums can be checked. *)

Cost(stamp) == (7 * stamp + 3) % 5
OverThreshold(stamp) == Cost(stamp) > 2
InCurve(reference) == reference % 3 = 2

NoMetrics == [window |-> [i \in 0 .. WindowSize - 1 |-> 0], head |-> 0, count |-> 0, rolling |-> 0,
              samples |-> 0, total |-> 0, critical |-> FALSE, violated |-> FALSE, violations |-> 0]

WindowMoved(m, new) ==
    [m EXCEPT !.window[m.head] = new,
              !.rolling = @ + new - (IF m.count = WindowSize THEN m.window[m.head] ELSE 0),
              !.count = IF @ < WindowSize THEN @ + 1 ELSE @,
              !.head = (@ + 1) % WindowSize]

Measured(m, stamp, reference) ==
    [WindowMoved(m, Cost(stamp)) EXCEPT
        !.total = @ + Cost(stamp), !.samples = @ + 1,
        !.violated = OverThreshold(stamp),
        !.violations = @ + IF OverThreshold(stamp) THEN 1 ELSE 0,
        !.critical = InCurve(reference)]

-----------------------------------------------------------------------------
(* The instance. *)

\* A sensed vector: the physical step it was read at and the velocity sample beside it.
Sensed(step, velocity) == [x |-> step, v |-> velocity]

\* An estimate folds each measurement, with the reference then known, into the one before.
Estimate(measured, reference, previous) == [meas |-> measured, ff |-> reference, n |-> previous.n + 1]
FirstEstimate(v0) == [meas |-> Sensed(0, v0), ff |-> NoStamp, n |-> 0]
YawRate(reference, estimate) == [ff |-> reference, v |-> estimate.meas.v]
Command(yaw_rate, feedback, estimate) == [psi |-> yaw_rate, fb |-> feedback, est |-> estimate]

NoEstimate == FirstEstimate(NoStamp)
NoYawRate == YawRate(NoStamp, NoEstimate)
NoCommand == Command(NoYawRate, NoEstimate, NoEstimate)

\* resetTaskChainsVariables and the propagation of the initial state.  Every stage has what
\* its job is computing (comp) and what is visible of it (out).
InitialChain(v0) ==
    LET first == FirstEstimate(v0)
    IN  [sens_comp |-> Sensed(0, v0), sens_out |-> Sensed(0, v0), sc_rec |-> Sensed(0, v0),
         est_comp |-> first, est_out |-> first,
         fb_comp |-> NoEstimate, fb_out |-> NoEstimate, ff_comp |-> NoStamp, ff_out |-> NoStamp,
         psi_comp |-> NoYawRate, psi_out |-> NoYawRate, agg_comp |-> NoCommand, agg_out |-> NoCommand,
         ca_fb |-> NoCommand, ca_ff |-> NoStamp, act_in |-> NoCommand, act_out |-> NoCommand]

\* fmi2Instantiate; NoStamp stands for the default of what the master has not set.
Instantiated ==
    [time |-> 0, step |-> 0, phys |-> 0, ff_ref |-> NoStamp, velocity |-> NoStamp, v0 |-> NoStamp,
     set |-> {}, trig |-> [t \in DOMAIN TriggerInputs |-> FALSE], chain |-> InitialChain(NoStamp),
     sc |-> EmptyBuffer, ca |-> EmptyBuffer,
     local |-> NoMetrics, remote |-> NoMetrics, real |-> NoMetrics]

SetupExperiment(fmu, start) == [fmu EXCEPT !.time = start, !.step = 0]

\* fmi2SetReal: references, the velocity, and the parameters.
SetReal(fmu, ref, value) ==
    LET v == VariableAt(ref)
    IN  CASE v.name = "FF_REF" -> [fmu EXCEPT !.ff_ref = value]
          [] v.name = "VELOCITY" -> [fmu EXCEPT !.velocity = value]
          [] v.name = "V0" -> [fmu EXCEPT !.v0 = value, !.set = @ \cup {<<v.name, v.index>>}]
          [] OTHER -> [fmu EXCEPT !.set = @ \cup {<<v.name, v.index>>}]

\* fmi2SetBoolean: the trigger inputs are the first variables of their block.
SetBoolean(fmu, ref, value) ==
    [fmu EXCEPT !.trig = [t \in DOMAIN @ |->
                             IF TriggerInputs[t] = VariableAt(ref).name THEN value ELSE @[t]]]

\* fmi2ExitInitializationMode: the chain starts from the initial state, everything else from zero.
ExitInitialization(fmu) ==
    [fmu EXCEPT !.chain = InitialChain(fmu.v0), !.phys = 0,
                !.trig = [t \in DOMAIN @ |-> FALSE], !.sc = EmptyBuffer, !.ca = EmptyBuffer,
                !.ff_ref = NoStamp, !.local = NoMetrics, !.remote = NoMetrics, !.real = NoMetrics]

\* simulate_lateral_motion_control_step: the metrics are sampled every SampleSteps.
Simulated(fmu) ==
    LET x == fmu.phys + 1
        sampled == fmu.step % SampleSteps = 0
    IN  [fmu EXCEPT !.phys = x, !.step = @ + 1,
                    !.local = IF sampled THEN Measured(@, x, fmu.chain.ca_ff) ELSE @,
                    !.real = IF sampled THEN Measured(@, x, fmu.ff_ref) ELSE @]

Triggered(fmu, name) == \E i \in DOMAIN TriggerInputs : TriggerInputs[i] = name /\ fmu.trig[i]

\* First the finished jobs and received packets: what was computed becomes visible.
PublishedChain(fmu) ==
    LET c == fmu.chain
        on(name) == Triggered(fmu, name)
        packet == Received(fmu.ca, [delta |-> c.ca_fb, ff |-> c.ca_ff])
    IN  [c EXCEPT
          !.sens_out = IF on("sensor_finished") THEN c.sens_comp ELSE @,
          !.sc_rec = IF on("sc_received") THEN Received(fmu.sc, @) ELSE @,
          !.est_out = IF on("estimator_finished") THEN c.est_comp ELSE @,
          !.fb_out = IF on("controller_finished") THEN c.fb_comp ELSE @,
          !.ff_out = IF on("feedforward_finished") THEN c.ff_comp ELSE @,
          !.psi_out = IF on("feedforward_finished") THEN c.psi_comp ELSE @,
          !.agg_out = IF on("merger_finished") THEN c.agg_comp ELSE @,
          !.ca_fb = IF on("ca_received") THEN packet.delta ELSE @,
          !.ca_ff = IF on("ca_received") THEN packet.ff ELSE @,
          !.act_out = IF on("actuator_finished") THEN c.act_in ELSE @]

Concluded(fmu) ==
    [fmu EXCEPT !.chain = PublishedChain(fmu),
                !.sc = IF Triggered(fmu, "sc_received") THEN Dequeued(@) ELSE @,
                !.ca = IF Triggered(fmu, "ca_received") THEN Dequeued(@) ELSE @]

\* Then the activated jobs and sent packets, in the order of the chain.
Estimated(c) == Estimate(c.sc_rec, c.ff_out, c.est_comp)

ComputedChain(fmu) ==
    LET c == fmu.chain
        on(name) == Triggered(fmu, name)
    IN  [c EXCEPT
          !.sens_comp = IF on("sensor_activated") THEN Sensed(fmu.phys, fmu.velocity) ELSE @,
          !.est_comp = IF on("estimator_activated") THEN Estimated(c) ELSE @,
          !.fb_comp = IF on("controller_activated") THEN c.est_out ELSE @,
          !.ff_comp = IF on("feedforward_activated") THEN fmu.ff_ref ELSE @,
          !.psi_comp = IF on("feedforward_activated") THEN YawRate(fmu.ff_ref, c.est_out) ELSE @,
          !.agg_comp = IF on("merger_activated") THEN Command(c.psi_out, c.fb_out, c.est_out) ELSE @,
          !.act_in = IF on("actuator_activated") THEN c.ca_fb ELSE @]

Activated(fmu) ==
    LET c == fmu.chain
    IN  [fmu EXCEPT
          !.chain = ComputedChain(fmu),
          !.sc = IF Triggered(fmu, "sc_sent") THEN Push(@, c.sens_out) ELSE @,
          !.ca = IF Triggered(fmu, "ca_sent") THEN Push(@, [delta |-> c.agg_out, ff |-> c.ff_out]) ELSE @,
          !.remote = IF Triggered(fmu, "estimator_activated")
                     THEN Measured(@, Estimated(c).meas.x, c.ff_out) ELSE @]

\* Faulty variant of ProcessTriggers: jobs start before the finished ones have published.
ActivatedFirst(fmu) == Concluded(Activated(fmu))

ProcessTriggers(fmu) == Activated(Concluded(fmu))

\* fmi2DoStep of one simulation step, from the FMU's own time: the plant first, then the triggers.
DoStep(fmu) == [ProcessTriggers(Simulated(fmu)) EXCEPT !.time = @ + 1]

\* fmi2GetReal, fmi2GetInteger and fmi2GetBoolean of the outputs.
Visible(fmu) ==
    [phys |-> fmu.phys, sens |-> fmu.chain.sens_out, est |-> fmu.chain.est_out,
     fb |-> fmu.chain.fb_out, ff |-> fmu.chain.ff_out, ff_psi |-> fmu.chain.psi_out,
     agg |-> fmu.chain.agg_out, act |-> fmu.chain.act_out, time |-> fmu.time, step |-> fmu.step,
     local_critical |-> fmu.local.critical, remote_critical |-> fmu.remote.critical,
     real_critical |-> fmu.real.critical, local_rolling |-> fmu.local.rolling,
     remote_rolling |-> fmu.remote.rolling, real_rolling |-> fmu.real.rolling,
     local_average |-> fmu.local.total, remote_average |-> fmu.remote.total,
     real_average |-> fmu.real.total, local_violations |-> fmu.local.violations,
     remote_violations |-> fmu.remote.violations, real_violations |-> fmu.real.violations,
     local_violated |-> fmu.local.violated, remote_violated |-> fmu.remote.violated,
     real_violated |-> fmu.real.violated]

GetValue(fmu, ref) == Visible(fmu)[VariableAt(ref).name]
=============================================================================
