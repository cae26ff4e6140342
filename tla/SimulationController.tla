----------------------- MODULE SimulationController -----------------------
(***************************************************************************)
(* A simulation session of the workbench and its controller: what one      *)
(* update does with the queued commands and the running engine.  The       *)
(* engine is its number of transitions; which ones they are does not       *)
(* matter here (SimulationEngine models them).  Everything is a function   *)
(* of the session, so that an update is one step of the GUI thread.        *)
(***************************************************************************)
EXTENDS Naturals, Sequences

CONSTANT Steps      \* transitions until the engine has finished

ASSUME StepsAssumption == Steps \in Nat \ {0}

GuiCommand == {"Run", "Pause", "Reset", "StepNextEvent"}

GuiRunMode == {"Live", "Fast"}

GuiRunState == {"NotConfigured", "Paused", "Running", "Finished"}

(***************************************************************************)
(* run names the engine a session currently owns; two engines never have   *)
(* the same name, while generations count from zero in every session.      *)
(***************************************************************************)
Sessions ==
    [generation : Nat, data : Nat, run : Nat, state : GuiRunState, done : 0 .. Steps]

Unconfigured == [generation |-> 0, data |-> 0, run |-> 0, state |-> "NotConfigured", done |-> 0]

\* apply_draft() with a valid draft: a new controller, whose constructor resets itself.
Applied(s, run) ==
    [generation |-> s.generation + 1, data |-> 1, run |-> run, state |-> "Paused", done |-> 0]

EngineFinished(s) == s.done = Steps

\* reset(): a new engine at its first transition.
ResetController(s, run) ==
    [s EXCEPT !.data = @ + 1, !.run = run, !.state = "Paused", !.done = 0]

\* n calls of step_once().
SteppedBy(s, n) ==
    [s EXCEPT !.data = @ + n,
              !.done = @ + n,
              !.state = IF n > 0 /\ s.done + n = Steps THEN "Finished" ELSE @]

\* What one command does to an engine that has not finished.
Controlled(u, command) ==
    CASE command = "Run" -> [u EXCEPT !.session.state = "Running"]
      [] command = "Pause" -> [u EXCEPT !.session.state = "Paused", !.paused = TRUE]
      [] command = "StepNextEvent" ->
            [u EXCEPT !.session = SteppedBy([u.session EXCEPT !.state = "Paused"], 1), !.step = TRUE]

\* One command popped by update(); u is the update so far.
AfterCommand(u, command) ==
    IF command = "Reset"
    THEN [u EXCEPT !.session = ResetController(u.session, u.runs + 1),
                   !.runs = u.runs + 1,
                   !.reset = TRUE]
    ELSE IF EngineFinished(u.session) THEN u ELSE Controlled(u, command)

\* All of them, from the first to the last.
AfterCommands(start, queue) ==
    LET after[n \in 0 .. Len(queue)] ==
            IF n = 0 THEN start ELSE AfterCommand(after[n - 1], queue[n])
    IN  after[Len(queue)]

\* How many transitions a running session makes: one in Live mode; in Fast mode the batch
\* size or the wall clock may end the loop before any transition.
BatchSizes(s, mode) ==
    IF s.state # "Running" THEN {0}
    ELSE IF mode = "Live" THEN {1} ELSE 0 .. (Steps - s.done)

(***************************************************************************)
(* The outcomes of GuiSimulationSession::update: the session, the result   *)
(* flags, and the counter that names runs.                                 *)
(***************************************************************************)
Updates(s, queue, runs, mode) ==
    LET start == [session |-> s, runs |-> runs, reset |-> FALSE, paused |-> FALSE, step |-> FALSE]
        u == AfterCommands(start, queue)
        generation == IF u.reset THEN s.generation + 1 ELSE s.generation
        Outcome(n) ==
            LET after == SteppedBy(u.session, n)
            IN  [session |-> [after EXCEPT !.generation = generation],
                 runs |-> u.runs,
                 reset |-> u.reset,
                 paused |-> u.paused,
                 step |-> u.step,
                 finished |-> s.state # "Finished" /\ after.state = "Finished"]
    IN  { Outcome(n) : n \in BatchSizes(u.session, mode) }

NeedsUpdate(s, queue) == s.state = "Running" \/ queue # <<>>
=============================================================================
