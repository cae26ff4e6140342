-------------------------- MODULE EngineProperties --------------------------
(***************************************************************************)
(* Correctness of one engine run, beyond the invariants of the proof       *)
(* module: agreement with the tick-driven reference, the bookkeeping a     *)
(* result analysis relies on, order and causality of the canonical trace,  *)
(* what a step may never do, and termination.                              *)
(***************************************************************************)
EXTENDS EngineInvariants, FiniteSets, FiniteSetsExt

-----------------------------------------------------------------------------
(***************************************************************************)
(* What the scheduling domain is supposed to compute, defined without      *)
(* events: fixed-priority execution simulated tick by tick.  Every tick    *)
(* first accounts the work of the interval that ends, then completes,      *)
(* checks deadlines, releases and decides, in that order.  The event       *)
(* driven engine jumps from event to event and must agree with it.         *)
(*                                                                         *)
(* A task has at most one incomplete job, so a job is named by its task.   *)
(***************************************************************************)

\* Nobody: the owner of an idle resource.
Nobody == -1

(***************************************************************************)
(* count[t]   jobs of t released so far                                    *)
(* left[t]    work the latest job of t still needs                         *)
(* owner[r]   task whose job r executes from this tick on                  *)
(* done       <<task, job, tick>> of every completion                      *)
(* missed     <<task, job>> of every deadline miss                         *)
(* overlap    some release found its task's previous job incomplete        *)
(***************************************************************************)
Before == [count |-> [t \in TaskIds |-> 0], left |-> [t \in TaskIds |-> 0],
           owner |-> [r \in ResourceIds |-> Nobody], done |-> {}, missed |-> {},
           overlap |-> FALSE]

ReleasesAt(c, t, n) ==
    LET spec == c.task[t] IN n >= spec.offset /\ (n - spec.offset) % spec.period = 0

LatestRelease(c, count, t) == c.task[t].offset + (count[t] - 1) * c.task[t].period

\* Rank by priority, then release time, then identifier.
Outranks(c, count, s, t) ==
    LET a == c.task[s].priority
        b == c.task[t].priority
        x == LatestRelease(c, count, s)
        y == LatestRelease(c, count, t)
    IN  a < b \/ (a = b /\ (x < y \/ (x = y /\ s < t)))

\* Who owns r after the decision at a tick, given who needs work and who owned it.
OwnerAfter(c, count, left, r, incumbent) ==
    LET needy == {t \in TaskIds : c.assignment[t] = r /\ left[t] > 0}
        best == CHOOSE t \in needy : \A s \in needy : ~ Outranks(c, count, s, t)
        keeps == \/ c.mode = "NonPreemptive"
                 \/ c.task[incumbent].priority <= c.task[best].priority
    IN  CASE needy = {}                          -> Nobody
          [] incumbent \in needy /\ keeps        -> incumbent
          [] OTHER                               -> best

TickAfter(c, s, n) ==
    LET worked == {s.owner[r] : r \in ResourceIds} \ {Nobody}
        left == [t \in TaskIds |-> IF t \in worked THEN s.left[t] - 1 ELSE s.left[t]]
        done == {t \in worked : left[t] = 0}
        late == {t \in TaskIds : /\ left[t] > 0
                                 /\ LatestRelease(c, s.count, t) + c.task[t].deadline = n}
        fresh == {t \in TaskIds : ReleasesAt(c, t, n)}
        count == [t \in TaskIds |-> IF t \in fresh THEN s.count[t] + 1 ELSE s.count[t]]
        need == [t \in TaskIds |-> IF t \in fresh THEN Demand(c, t) ELSE left[t]]
        incumbent(r) == IF s.owner[r] \in done THEN Nobody ELSE s.owner[r]
    IN  [count |-> count, left |-> need,
         owner |-> [r \in ResourceIds |-> OwnerAfter(c, count, need, r, incumbent(r))],
         done |-> s.done \cup {<<t, s.count[t], n>> : t \in done},
         missed |-> s.missed \cup {<<t, s.count[t]>> : t \in late},
         overlap |-> s.overlap \/ \E t \in fresh : left[t] > 0]

\* State after tick n has been decided.
ReferenceAt(c, n) ==
    LET state[k \in 0 .. n] == TickAfter(c, IF k = 0 THEN Before ELSE state[k - 1], k)
    IN  state[n]

-----------------------------------------------------------------------------
(* Agreement with the reference. *)

\* States a caller of step_to_next_event() can observe after a tick.
Inspectable == stage \in {"between", "finished"} /\ trace # <<>>

Covered == IF stage = "finished" THEN config.stop ELSE tick

\* Work job j still needs at tick n, including the interval not yet charged.
LeftAt(j, n) ==
    LET res == resource[jobs[j].resource]
    IN  IF res.running = j THEN jobs[j].remaining - (n - res.since) ELSE jobs[j].remaining

-----------------------------------------------------------------------------
\* The event-driven engine agrees with tick-by-tick fixed-priority execution: at every
\* inspectable tick the same jobs were released, completed at the same ticks, missed
\* their deadlines, own the resources and have the same work left; when it finishes it
\* has not skipped anything up to the inclusive horizon; and it stops with
\* "self-overlapping job" exactly at a tick where the reference releases into an
\* incomplete job (simulation_engine.cpp:262-309, scheduler.cpp:133-262).
MatchesTickReference ==
    /\ Inspectable =>
        LET ref == ReferenceAt(config, Covered)
        IN  /\ ~ ref.overlap
            /\ Released = UNION {{<<t, k>> : k \in 1 .. ref.count[t]} : t \in TaskIds}
            /\ ref.done = {<<j[1], j[2], jobs[j].finish>> : j \in {k \in Released : ~ Active(k)}}
            /\ ref.missed = {j \in Released : jobs[j].missed}
            /\ \A j \in Released : Active(j) => LeftAt(j, Covered) = ref.left[j[1]]
            /\ \A r \in ResourceIds :
                   ref.owner[r] = IF Idle(r) THEN Nobody ELSE resource[r].running[1]
    /\ fault = "self_overlap" => ReferenceAt(config, tick).overlap

\* The busy account, with the interval still open, never exceeds elapsed time:
\* busy_ticks_until() and idle_ticks_until() cannot throw or go negative at the current tick
\* (runtime_state.cpp:144-204).
BusyWithinTime ==
    \A r \in ResourceIds :
        resource[r].busy + (IF Idle(r) THEN 0 ELSE tick - resource[r].since) <= tick

\* Work charged to each job so far.
Charged == [j \in Released |-> Demand(config, j[1]) - jobs[j].remaining]

\* The busy account equals the work charged to the jobs of the resource
\* (runtime_state.cpp:144-204).
BusyAccountExact ==
    \A r \in ResourceIds :
        resource[r].busy = SumFunctionOnSet(Charged, {j \in Released : jobs[j].resource = r})

\* Running intervals and the accounts they are charged to are exact, to the tick
\* (Resource in runtime_state.cpp:76-204).
AccountsExact == IntervalsExact /\ BusyWithinTime /\ BusyAccountExact

-----------------------------------------------------------------------------
TraceOf(j, types) ==
    {i \in DOMAIN trace : /\ trace[i].type \in types
                          /\ <<trace[i].entities.task, trace[i].entities.job>> = j}

TraceTicks == [i \in DOMAIN trace |-> trace[i].tick]

\* The canonical trace alone determines what each job did: its starts and resumes
\* alternate with its preemptions and its finish, the intervals between them add up to
\* the work charged so far, and their number is the preemption count.  Result metrics
\* and timelines are rebuilt from the trace and rely on it (process_post_scheduling_events
\* and schedule append the observations, simulation_engine.cpp:212-226).
TraceAccountsForJobs ==
    Inspectable =>
        \A j \in Released :
            LET begins == TraceOf(j, {"JobStart", "JobResume"})
                ends == TraceOf(j, {"JobPreempt", "JobFinish"})
                open == IF jobs[j].lifecycle = "Running" THEN resource[jobs[j].resource].since ELSE 0
            IN  /\ Cardinality(begins) =
                       Cardinality(ends) + IF jobs[j].lifecycle = "Running" THEN 1 ELSE 0
                /\ Cardinality(TraceOf(j, {"JobPreempt"})) = jobs[j].preemptions
                /\ Cardinality(TraceOf(j, {"JobRelease"})) = 1
                /\ Cardinality(TraceOf(j, {"JobStart"})) = IF Started(jobs[j]) THEN 1 ELSE 0
                /\ SumFunctionOnSet(TraceTicks, ends) + open - SumFunctionOnSet(TraceTicks, begins)
                       = Demand(config, j[1]) - jobs[j].remaining

\* Trace order is canonical order: ticks never decrease, phases never decrease inside a
\* tick, the releases of a tick are ordered by priority and task, and an event's cause
\* is in the trace before it (ADR-0004, process_event_tick, process_release_batch).
TraceCanonical ==
    /\ \A i \in 1 .. Len(trace) - 1 :
           LET e == trace[i]
               f == trace[i + 1]
           IN  \/ e.tick < f.tick
               \/ /\ e.tick = f.tick
                  /\ PhasePrecedence(e.phase) <= PhasePrecedence(f.phase)
                  /\ (e.type = "JobRelease" /\ f.type = "JobRelease") =>
                         ReleasedBefore(config, e.entities.task, f.entities.task)
    /\ \A i \in DOMAIN trace :
           trace[i].cause # Absent =>
               \E k \in 1 .. i - 1 : trace[k].sequence = trace[i].cause

\* The trace is in canonical order and tells what every job did.
TraceSound == TraceCanonical /\ TraceAccountsForJobs

\* Every accepted completion published exactly one message per Communication route, and
\* each message is where its planned ticks say: sent in the tick after completion,
\* delivered delay ticks later, and left PendingSend or InFlight only when the horizon
\* ends first (ADR-0010; fixed_delay_network.cpp:111-193).
MessagesOnSchedule ==
    Inspectable =>
        /\ {<<messages[i].source, messages[i].destination>> : i \in DOMAIN messages} =
               UNION {{<<j, d>> : d \in Destinations(config, j[1])} :
                          j \in {k \in Released : ~ Active(k)}}
        /\ \A i, k \in DOMAIN messages :
               (messages[i].source = messages[k].source
                  /\ messages[i].destination = messages[k].destination) => i = k
        /\ \A i \in DOMAIN messages :
               LET m == messages[i]
               IN  /\ m.publish = jobs[m.source].finish
                   /\ m.send = m.publish + 1
                   /\ m.delivery = m.send + RouteDelay(config, m.source[1], m.destination)
                   /\ m.lifecycle = CASE Covered < m.send     -> "PendingSend"
                                      [] Covered >= m.delivery -> "Delivered"
                                      [] OTHER                 -> "InFlight"

\* Messages keep their schedule, causally, and never bring the kernel to one of its throws
\* (fixed_delay_network.cpp:95-193).
MessagesSound == MessagesOnSchedule /\ TraceCanonical /\ KernelConsistent

-----------------------------------------------------------------------------
\* A job only moves forward: its identity, placement and timing never change, work is
\* never given back, Completed and a recorded miss are final, and a finish or first
\* start is recorded once (runtime_state.cpp:49-180).
JobProgress ==
    \A j \in Released :
        /\ j \in DOMAIN jobs'
        /\ LET a == jobs[j]
               b == jobs'[j]
           IN  /\ <<a.resource, a.priority, a.release, a.deadline>>
                     = <<b.resource, b.priority, b.release, b.deadline>>
               /\ b.remaining <= a.remaining
               /\ a.lifecycle = "Completed" => a = b
               /\ a.missed => b.missed
               /\ Started(a) => b.first_start = a.first_start

\* Accepted history is never rewritten and time never runs backwards; a step adds at
\* most one event, of the current tick (trace_ is append-only, simulation_engine.cpp:262-269).
HistoryGrows ==
    /\ tick <= tick'
    /\ \/ trace' = trace
       \/ /\ Len(trace') = Len(trace) + 1
          /\ SubSeq(trace', 1, Len(trace)) = trace
          /\ trace'[Len(trace')].tick = tick

\* Nothing that was recorded is taken back: neither of a job nor of the trace
\* (runtime_state.cpp:49-180, simulation_engine.cpp:262-269).
NothingIsTakenBack == [][JobProgress /\ HistoryGrows]_vars

-----------------------------------------------------------------------------
\* run() returns: stepping reaches the end of the horizon or an exception.
Terminates == <>(stage \in {"finished", "failed"})

\* A run of a valid configuration fails for no other reason than a self-overlapping
\* release or the end of the tick domain: in particular a route with delay zero, which
\* the configuration accepts, is simulated.
ValidRoutesAreSimulated == fault # "zero_delay"
=============================================================================
