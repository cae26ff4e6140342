----------------------------- MODULE Workbench -----------------------------
(***************************************************************************)
(* The Qt workbench: one GUI thread that owns the session, its             *)
(* presentation and the cache of completed results, driven by a timer      *)
(* (Live), by calls posted to its own event loop (Fast and commands) and   *)
(* by the user, together with the finalizer's worker thread.               *)
(*                                                                         *)
(* A handler of the GUI thread is one step, except where it waits for the  *)
(* worker: gui names the handler that is inside such a call, and the step  *)
(* that ends the handler follows when the call has returned.  The worker   *)
(* reads nothing of the workbench, so no finer grain is observable.        *)
(***************************************************************************)
EXTENDS SimulationController, CompletedRunFinalizer

CONSTANTS
    Operations,     \* what the user of this instance does besides sending commands
    RunBound,       \* bound: engines built
    QueueBound,     \* bound: commands waiting in the controller
    ShotBound,      \* bound: zero-delay calls posted and not yet made
    None            \* no session, no snapshot

ASSUME WorkbenchAssumption ==
    /\ RunBound \in Nat /\ QueueBound \in Nat /\ ShotBound \in Nat
    /\ Generations = 0 .. RunBound /\ Runs = 0 .. RunBound
    /\ WakeupBound > RunBound
    /\ None \notin Sessions

VARIABLES
    session,    \* the active session; None on the home screen
    commands,   \* its controller's FIFO
    runs,       \* engines built so far
    mode,       \* workspace_state_.run_mode
    lastMode,   \* last_run_mode_
    shown,      \* presentation_snapshot_
    published,  \* the policy's generations at the last publication
    progress,   \* progress_
    completed,  \* completed_results_
    pump,       \* live_timer_ is active, fast_continuation_pending_, posted zero-delay calls
    gui,        \* the handler waiting for the finalizer, and what it still has to do
    leaving     \* shutting_down_

sessionVars == <<session, commands, runs>>
viewVars == <<mode, lastMode, shown, published, progress, completed>>
vars == <<sessionVars, viewVars, pump, gui, leaving, finalizerVars>>

Idle == [at |-> "idle", reset |-> FALSE]

At(handler) == [at |-> handler, reset |-> FALSE]

\* The GUI thread is in its event loop and the program is not closing.
Listening == gui = Idle /\ ~ leaving

\* What snapshot() and progress() tell of a session.
Snapshot(s) == [run |-> s.run, state |-> s.state, done |-> s.done]

Progress(s) == [state |-> s.state, done |-> s.done]

Published(s) == [runtime |-> s.generation, data |-> s.data]

\* publish_complete_snapshot(false) and the assignments of the handlers that call it.
Publish(s) == shown' = Snapshot(s) /\ published' = Published(s)

Init ==
    /\ FinalizerInit
    /\ session = None
    /\ commands = <<>>
    /\ runs = 0
    /\ mode = "Live" /\ lastMode = "Live"
    /\ shown = None
    /\ published = [runtime |-> 0, data |-> 0]
    /\ progress = Progress(Unconfigured)
    /\ completed = NoRequest
    /\ pump = [timer |-> FALSE, flag |-> FALSE, shots |-> 0]
    /\ gui = Idle
    /\ leaving = FALSE

-----------------------------------------------------------------------------
(* What makes the GUI thread run. *)

ScheduleImmediate(p) ==
    IF p.flag THEN p ELSE [p EXCEPT !.flag = TRUE, !.shots = @ + 1]

\* Faulty variant of ScheduleForRunState: a Live run is expected to have its timer.
ScheduleWithoutTimer(p, s, m) ==
    IF s = None \/ s.state # "Running" THEN [p EXCEPT !.timer = FALSE]
    ELSE IF m = "Live" THEN p ELSE ScheduleImmediate([p EXCEPT !.timer = FALSE])

\* schedule_for_run_state() when the session is s and the mode m.
ScheduleForRunState(p, s, m) ==
    IF s = None \/ s.state # "Running" THEN [p EXCEPT !.timer = FALSE]
    ELSE IF m = "Live" THEN [p EXCEPT !.timer = TRUE]
    ELSE ScheduleImmediate([p EXCEPT !.timer = FALSE])

-----------------------------------------------------------------------------
(* process_once(): WorkbenchApplication::update() and the next schedule. *)

\* needs_update()
Busy == session # None /\ NeedsUpdate(session, commands)

\* Faulty variant of PublishChoices: a pause is left to the rate limit.
PublishChoicesAfterPause(u) ==
    IF \/ shown = None \/ u.session.generation # published.runtime
       \/ u.reset \/ u.finished \/ u.step
       \/ lastMode = "Fast" /\ mode = "Live"
    THEN {TRUE}
    ELSE IF u.session.data # published.data /\ mode = "Live" THEN BOOLEAN ELSE {FALSE}

\* Whether should_publish() holds; in Live mode the rate limit decides about new data.
PublishChoices(u) ==
    IF \/ shown = None \/ u.session.generation # published.runtime
       \/ u.reset \/ u.paused \/ u.finished \/ u.step
       \/ lastMode = "Fast" /\ mode = "Live"
    THEN {TRUE}
    ELSE IF u.session.data # published.data /\ mode = "Live" THEN BOOLEAN ELSE {FALSE}

\* The end of the handler.
Settle(p, s) ==
    /\ lastMode' = mode
    /\ pump' = ScheduleForRunState(p, s, mode)
    /\ gui' = Idle

ResultOf(s) == [generation |-> s.generation, run |-> s.run]

\* Publication requests the result of a finished run; then a reset invalidates results.
RequestFinishedRun(u, p) ==
    /\ u.finished
    /\ BeginCall("request", ResultOf(u.session))
    /\ gui' = [at |-> "publishing", reset |-> u.reset]
    /\ pump' = p
    /\ UNCHANGED lastMode

InvalidateAfterReset(u, p) ==
    /\ ~ u.finished /\ u.reset
    /\ BeginCall("reset", NoRequest)
    /\ gui' = At("resetting")
    /\ pump' = p
    /\ UNCHANGED lastMode

NothingToCall(u, p) ==
    /\ ~ u.finished /\ ~ u.reset
    /\ Settle(p, u.session)
    /\ UNCHANGED finalizerVars

Update(p) ==
    /\ Busy
    /\ \E u \in Updates(session, commands, runs, mode) :
        /\ session' = u.session
        /\ commands' = <<>>
        /\ runs' = u.runs
        /\ progress' = Progress(u.session)
        /\ \E publish \in PublishChoices(u) :
            IF publish THEN Publish(u.session) ELSE UNCHANGED <<shown, published>>
        /\ RequestFinishedRun(u, p) \/ InvalidateAfterReset(u, p) \/ NothingToCall(u, p)
    /\ UNCHANGED <<mode, completed, leaving>>

NothingToUpdate(p) ==
    /\ ~ Busy
    /\ pump' = ScheduleForRunState(p, session, mode)
    /\ UNCHANGED <<sessionVars, viewVars, gui, leaving, finalizerVars>>

\* shutdown() up to set_wakeup({}).
BeginShutdown ==
    /\ leaving' = TRUE
    /\ pump' = [pump EXCEPT !.timer = FALSE, !.flag = FALSE]
    /\ gui' = At("leaving")
    /\ ClearWakeup
    /\ UNCHANGED <<sessionVars, viewVars>>

\* The engine throws out of the event loop: main() unwinds and destroys the bridge.
UpdateThrows ==
    /\ Busy
    /\ session.state = "Running" \/ \E i \in DOMAIN commands : commands[i] # "Pause"
    /\ BeginShutdown

ProcessOnce(p) ==
    /\ Listening
    /\ NothingToUpdate(p) \/ Update(p) \/ UpdateThrows

\* request() has returned; if the update also reset the session, its results go now.
AfterRequest ==
    /\ gui.at = "publishing" /\ call = NoCall
    /\ \/ /\ gui.reset
          /\ BeginCall("reset", NoRequest)
          /\ gui' = At("resetting")
          /\ UNCHANGED <<lastMode, pump>>
       \/ /\ ~ gui.reset
          /\ Settle(pump, session)
          /\ UNCHANGED finalizerVars
    /\ UNCHANGED <<sessionVars, mode, shown, published, progress, completed, leaving>>

\* Faulty variant of AfterReset: the finalizer is reset, the cache is not.
AfterResetKeepingResult ==
    /\ gui.at = "resetting" /\ call = NoCall
    /\ Settle(pump, session)
    /\ UNCHANGED <<sessionVars, mode, shown, published, progress, completed, leaving, finalizerVars>>

\* The handler of an update with a reset ends.
AfterReset ==
    /\ gui.at = "resetting" /\ call = NoCall
    /\ completed' = NoRequest
    /\ Settle(pump, session)
    /\ UNCHANGED <<sessionVars, mode, shown, published, progress, leaving, finalizerVars>>

\* Faulty variant of ContinuationFires: the pending flag is never cleared.
ContinuationKeepsFlag ==
    /\ pump.shots > 0
    /\ ProcessOnce([pump EXCEPT !.shots = @ - 1])

\* The posted zero-delay call.
ContinuationFires ==
    /\ pump.shots > 0
    /\ ProcessOnce([pump EXCEPT !.flag = FALSE, !.shots = @ - 1])

\* The 16 ms timer of Live mode.
LiveTimerFires ==
    /\ pump.timer
    /\ ProcessOnce(pump)

\* What publish_ready() makes of a result the finalizer hands over.
CacheAfter(r) ==
    IF completed # NoRequest /\ completed.generation = r.generation THEN completed ELSE r

\* process_background_publication(), posted by the worker's wake-up.
ProcessBackgroundPublication ==
    /\ Listening
    /\ ProcessWakeup
    /\ completed' = IF result # NoRequest THEN CacheAfter(result) ELSE completed
    /\ UNCHANGED <<sessionVars, mode, lastMode, shown, published, progress, pump, gui, leaving>>

-----------------------------------------------------------------------------
(* The user. *)

Controllable == session # None /\ session.state # "NotConfigured"

\* A controller's run is named when it is built; queued resets will build one each.
RunsLeft == runs + Len(SelectSeq(commands, LAMBDA c : c = "Reset")) < RunBound

Enqueue(command) ==
    /\ Listening
    /\ Controllable
    /\ Len(commands) < QueueBound
    /\ command = "Reset" => RunsLeft
    /\ commands' = Append(commands, command)
    /\ pump' = ScheduleImmediate(pump)
    /\ UNCHANGED <<session, runs, viewVars, gui, leaving, finalizerVars>>

\* The run mode changes: workspace_settings_changed().
SetMode(m) ==
    /\ Listening
    /\ mode' = m
    /\ pump' = ScheduleForRunState(pump, session, m)
    /\ UNCHANGED <<sessionVars, lastMode, shown, published, progress, completed, gui, leaving, finalizerVars>>

\* A handler that begins with invalidate_completed_results().
BeginInvalidation(handler) ==
    /\ BeginCall("reset", NoRequest)
    /\ gui' = At(handler)
    /\ UNCHANGED <<viewVars, leaving>>

EndInvalidation(handler) ==
    /\ gui.at = handler /\ call = NoCall
    /\ completed' = NoRequest
    /\ gui' = Idle
    /\ UNCHANGED <<leaving, finalizerVars>>

\* Every operation of the bridge on projects starts by stopping what drives it.
StopPump ==
    /\ Listening
    /\ pump.shots < ShotBound
    /\ pump' = [pump EXCEPT !.timer = FALSE, !.flag = FALSE]

\* A project or a session that was created, loaded or copied replaces the active one.
BeginReplace ==
    /\ StopPump
    /\ runs < RunBound
    /\ BeginInvalidation("replacing")
    /\ UNCHANGED sessionVars

FinishReplace ==
    /\ EndInvalidation("replacing")
    /\ \/ session' = Applied(Unconfigured, runs + 1) /\ runs' = runs + 1
       \/ session' = Unconfigured /\ runs' = runs
    /\ commands' = <<>>
    /\ Publish(session')
    /\ progress' = Progress(session')
    /\ mode' \in GuiRunMode
    /\ lastMode' = mode'
    /\ UNCHANGED pump

\* The replacement could not be built; main_window reports the exception.
ReplaceFails ==
    /\ StopPump
    /\ UNCHANGED <<sessionVars, viewVars, gui, leaving, finalizerVars>>

BeginClose ==
    /\ session # None
    /\ StopPump
    /\ BeginInvalidation("closing")
    /\ UNCHANGED sessionVars

FinishClose ==
    /\ EndInvalidation("closing")
    /\ session' = None
    /\ commands' = <<>>
    /\ shown' = None
    /\ progress' = Progress(Unconfigured)
    /\ mode' = "Live"
    /\ UNCHANGED <<runs, lastMode, published, pump>>

\* The run configuration is applied to the session; an edited system to a new session.
BeginApply ==
    /\ Listening
    /\ session # None /\ session.state # "Running"
    /\ runs < RunBound
    /\ \E base \in {session, Unconfigured} : session' = Applied(base, runs + 1)
    /\ runs' = runs + 1
    /\ commands' = <<>>
    /\ BeginInvalidation("applying")
    /\ UNCHANGED pump

\* Faulty variant of FinishApply: the cached progress is forgotten.
FinishApplyKeepingProgress ==
    /\ EndInvalidation("applying")
    /\ Publish(session)
    /\ UNCHANGED <<sessionVars, mode, lastMode, progress, pump>>

FinishApply ==
    /\ EndInvalidation("applying")
    /\ Publish(session)
    /\ progress' = Progress(session)
    /\ UNCHANGED <<sessionVars, mode, lastMode, pump>>

\* apply_and_save_project() with a changed draft: the saved replacement becomes active.
BeginApplyAndSave ==
    /\ Listening
    /\ Controllable
    /\ runs < RunBound
    /\ session' = Applied(Unconfigured, runs + 1)
    /\ runs' = runs + 1
    /\ commands' = <<>>
    /\ BeginInvalidation("saving")
    /\ UNCHANGED pump

\* apply_and_save_project() with nothing to apply.
BeginSaveClean ==
    /\ Listening
    /\ Controllable
    /\ BeginInvalidation("saving")
    /\ UNCHANGED <<sessionVars, pump>>

FinishSave ==
    /\ EndInvalidation("saving")
    /\ Publish(session)
    /\ UNCHANGED <<sessionVars, mode, lastMode, progress, pump>>

\* The window is closed.
CloseWindow == Listening /\ BeginShutdown

CancelBackgroundWork ==
    /\ gui.at = "leaving" /\ call = NoCall
    /\ BeginCall("cancel", NoRequest)
    /\ gui' = At("cancelling")
    /\ UNCHANGED <<sessionVars, viewVars, pump, leaving>>

ShutdownReturns ==
    /\ gui.at = "cancelling" /\ call = NoCall
    /\ gui' = At("closed")
    /\ UNCHANGED <<sessionVars, viewVars, pump, leaving, finalizerVars>>

UserStep ==
    \/ \E command \in GuiCommand : Enqueue(command)
    \/ "mode" \in Operations /\ \E m \in GuiRunMode : SetMode(m)
    \/ "replace" \in Operations /\ BeginReplace
    \/ "replaceFails" \in Operations /\ ReplaceFails
    \/ "close" \in Operations /\ BeginClose
    \/ "apply" \in Operations /\ BeginApply
    \/ "applyAndSave" \in Operations /\ BeginApplyAndSave
    \/ "save" \in Operations /\ BeginSaveClean
    \/ "quit" \in Operations /\ CloseWindow

\* The rest of a handler after a call into the finalizer.
HandlerStep ==
    \/ AfterRequest \/ AfterReset
    \/ FinishReplace \/ FinishClose \/ FinishApply \/ FinishSave
    \/ CancelBackgroundWork \/ ShutdownReturns

\* The worker thread, and the return of a call that waited for it.
FinalizerStep ==
    /\ WorkerStep \/ FinishCall
    /\ UNCHANGED <<sessionVars, viewVars, pump, gui, leaving>>

Next ==
    \/ UserStep
    \/ HandlerStep
    \/ ContinuationFires
    \/ LiveTimerFires
    \/ ProcessBackgroundPublication
    \/ FinalizerStep

(***************************************************************************)
(* Threads run and handlers return.  What is posted to the event loop is   *)
(* delivered however often other events come first, and so is the timer's  *)
(* timeout.  A Fast batch of zero transitions needs a wall clock that used *)
(* up the whole budget before the loop began; it does not do so for ever.  *)
(***************************************************************************)
Spec ==
    /\ Init
    /\ [][Next]_vars
    /\ WF_vars(FinalizerStep)
    /\ WF_vars(HandlerStep)
    /\ SF_vars(ContinuationFires)
    /\ SF_vars(LiveTimerFires)
    /\ SF_vars(ProcessBackgroundPublication)
    /\ SF_vars(ContinuationFires /\ (leaving' \/ session' # session))

-----------------------------------------------------------------------------
(* What must hold of the workbench between two events of its GUI thread. *)

\* A completed result is one of the run on screen, which has finished: no reset, applied
\* configuration or replaced project lets a result of another engine appear, although
\* generations repeat (invalidate_completed_results(), publish_ready()).
ResultIsOfShownRun ==
    Listening /\ completed # NoRequest =>
        /\ session # None
        /\ completed = ResultOf(session)
        /\ session.state = "Finished"

\* Whenever no run is in progress the snapshot on screen is the session's own, whatever was
\* skipped while it ran (should_publish(), the callers of publish_complete_snapshot()).
PresentationCurrent ==
    Listening =>
        IF session = None THEN shown = None
        ELSE session.state # "Running" => shown = Snapshot(session)

\* The cached progress is the session's own between two handlers (progress_).
ProgressCurrent == Listening /\ session # None => progress = Progress(session)

\* A session that has something to do is going to be updated: by the timer or by a posted
\* call (schedule_immediate(), schedule_for_run_state()).
PumpAlive ==
    Listening /\ Busy => pump.timer \/ pump.shots > 0

\* Outside an update the timer ticks only for a session that runs in Live mode
\* (schedule_for_run_state()).
TimerOnlyWhileRunning ==
    Listening /\ pump.timer => session # None /\ session.state = "Running" /\ mode = "Live"

\* What drives the session is there exactly as long as it is needed (schedule_immediate(),
\* schedule_for_run_state(), the single-shot flag).
PumpSound == PumpAlive /\ TimerOnlyWhileRunning

\* When shutdown() has returned no worker is left that could call into what is destroyed.
NoThreadOutlivesShutdown == gui.at = "closed" => worker = NoWorker /\ result = NoRequest

\* A running session gets on: it finishes, is paused, or is replaced, in either mode and
\* however often the mode is changed.
RunAdvances ==
    \A r \in Runs :
        session # None /\ session.run = r /\ session.state = "Running" ~>
            leaving \/ session = None \/ session.run # r \/ session.state # "Running"

Given(r) == completed # NoRequest /\ completed.run = r

\* A run that finished in an update without a reset gets its result, unless the builder
\* fails, the user replaces the run, or the program ends.
FinishedRunsGetResults ==
    \A r \in Runs :
        gui = At("publishing") /\ session.run = r ~>
            Given(r) \/ status = "Failed" \/ leaving \/ session = None \/ session.run # r

\* A run that has finished gets its result, unless the builder fails, the user replaces the
\* run, or the program ends.
EveryFinishedRunGetsResult ==
    \A r \in Runs :
        session # None /\ session.run = r /\ session.state = "Finished" ~>
            Given(r) \/ status = "Failed" \/ leaving \/ session = None \/ session.run # r
=============================================================================
