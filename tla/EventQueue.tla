---------------------------- MODULE EventQueue ----------------------------
(***************************************************************************)
(* The pending-event queue of the simulation kernel as a value: events,    *)
(* their same-tick phases, and the order in which they are taken.          *)
(*                                                                         *)
(* A queue is a record of the pending events and of the next insertion     *)
(* sequence.  The binary heap of the code is abstracted to a set: only     *)
(* which event is the earliest one matters.  The 64-bit limit of the       *)
(* sequence allocator is the subject of EventQueueAllocator; here the      *)
(* allocator counts through Nat.                                           *)
(***************************************************************************)
EXTENDS Integers

\* An entity reference or a cause an event does not carry (std::nullopt).
Absent == -1

EventPhase == {"ExecutionCompletion", "MessageDelivery", "DeadlineCheck", "JobRelease",
               "PolicyUpdate", "Scheduling", "CausedAction", "CausedActionLate"}

EventType == {"JobRelease", "JobStart", "JobPreempt", "JobResume", "JobFinish",
              "DeadlineMiss", "MessageSend", "MessageDelivery"}

\* Identifiers of the entities an event is about.
Entities == [task : Int, job : Int, resource : Int, message : Int]

Event == [tick : Nat, phase : EventPhase, sequence : Nat, type : EventType,
          entities : Entities, cause : Int]

EventQueueState == [events : SUBSET Event, next_sequence : Nat]

EmptyQueue == [events |-> {}, next_sequence |-> 0]

\* Faulty variant of PhasePrecedence: deadlines are checked before completions.
DeadlinesFirst(phase) ==
    CASE phase = "DeadlineCheck"       -> 0
      [] phase = "MessageDelivery"     -> 1
      [] phase = "ExecutionCompletion" -> 2
      [] phase = "JobRelease"          -> 3
      [] phase = "PolicyUpdate"        -> 4
      [] phase = "Scheduling"          -> 5
      [] phase = "CausedAction"        -> 6
      [] phase = "CausedActionLate"    -> 7

\* Position of a phase in the processing order of one tick.
PhasePrecedence(phase) ==
    CASE phase = "ExecutionCompletion" -> 0
      [] phase = "MessageDelivery"     -> 1
      [] phase = "DeadlineCheck"       -> 2
      [] phase = "JobRelease"          -> 3
      [] phase = "PolicyUpdate"        -> 4
      [] phase = "Scheduling"          -> 5
      [] phase = "CausedAction"        -> 6
      [] phase = "CausedActionLate"    -> 7

\* left is taken after right: later tick, then later phase, then later insertion.
LaterEvent(left, right) ==
    \/ left.tick > right.tick
    \/ /\ left.tick = right.tick
       /\ PhasePrecedence(left.phase) > PhasePrecedence(right.phase)
    \/ /\ left.tick = right.tick
       /\ PhasePrecedence(left.phase) = PhasePrecedence(right.phase)
       /\ left.sequence > right.sequence

\* e is the event that next() shows and pop_next() removes.
IsNextEvent(q, e) ==
    /\ e \in q.events
    /\ \A other \in q.events : ~ LaterEvent(e, other)

Popped(q, e) == [q EXCEPT !.events = @ \ {e}]

\* The event schedule() builds from the fields its caller knows.
ScheduledEvent(q, tick, phase, type, entities, cause) ==
    [tick |-> tick, phase |-> phase, sequence |-> q.next_sequence, type |-> type,
     entities |-> entities, cause |-> cause]

\* The queue after one accepted insertion.
Scheduled(q, tick, phase, type, entities, cause) ==
    [events |-> q.events \cup {ScheduledEvent(q, tick, phase, type, entities, cause)},
     next_sequence |-> q.next_sequence + 1]
=============================================================================
