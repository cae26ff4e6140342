---------------------------- MODULE EngineState ----------------------------
(***************************************************************************)
(* State of the simulation engine that its subsystems share: the input,    *)
(* the position inside step_to_next_event(), the clock, the pending events *)
(* and the canonical trace.                                                *)
(***************************************************************************)
EXTENDS ExperimentConfig, EventQueue, Sequences

VARIABLES
    config,     \* the immutable input of this run
    stage,      \* which loop of step_to_next_event() the engine is in
    fault,      \* why the engine threw, "none" while it has not
    tick,       \* current_tick_
    queue,      \* queue_
    trace       \* trace_, the canonical events accepted so far

(***************************************************************************)
(* initialize   schedule_initial_releases(), before the first tick         *)
(* between      no call active: the engine can be inspected                *)
(* settle       completions, deliveries and deadline checks of the tick    *)
(* publish      routes of the completion just accepted                     *)
(* release      the sorted batch of releases                               *)
(* schedule     one scheduling decision per resource                       *)
(* act          scheduling observations and message sends                  *)
(* finished     the inclusive horizon is complete                          *)
(* failed       an exception left the engine and ended the program         *)
(***************************************************************************)
Stage == {"initialize", "between", "settle", "publish", "release", "schedule", "act",
          "finished", "failed"}

\* "inconsistent" is any throw that guards the kernel against its own state.
Fault == {"none", "self_overlap", "zero_delay", "tick_overflow", "functional", "inconsistent"}

\* The exception ends the run; what the handler changed before it stays changed.
Throw(reason) == stage' = "failed" /\ fault' = reason

\* Complete identity of a job: its task and its number within the task.
JobIdentity == TaskIds \X Nat

JobEntities(t, k, r) == [task |-> t, job |-> k, resource |-> r, message |-> Absent]

\* e is the next event and belongs to the tick being processed.
IsDue(e) == IsNextEvent(queue, e) /\ e.tick = tick

\* The next event exists and lies within the inclusive horizon.
InHorizon(e) == IsNextEvent(queue, e) /\ e.tick <= config.stop

NothingInHorizon == ~ \E e \in queue.events : InHorizon(e)
=============================================================================
