-------------------------- MODULE WorkbenchProofs --------------------------
(***************************************************************************)
(* Safety of the workbench for any number of engines, queued commands and  *)
(* transitions.  WorkbenchInv holds whatever the user does; what drives a  *)
(* session and the cached progress are sound as long as no project fails   *)
(* to open and no edited system is saved.                                  *)
(***************************************************************************)
EXTENDS Workbench, WellFoundedInduction, TLAPS

\* Fields of a session that the workbench shows or keys results by.
SameView(s, t) ==
    s.generation = t.generation /\ s.run = t.run /\ s.state = t.state /\ s.done = t.done

\* A session has finished exactly when its engine made the last transition.
SessionSound(s) == s.state = "Finished" <=> s.done = Steps

\* The handlers that begin by invalidating results.
Invalidating == {"resetting", "replacing", "closing", "applying", "saving"}

Closing == {"leaving", "cancelling", "closed"}

Answers == [generation : Nat, run : Nat]

WorkerStates ==
    [at : WorkerStage, request : Answers \cup {NoRequest}, stop : BOOLEAN, notify : BOOLEAN]

PumpStates == [timer : BOOLEAN, flag : BOOLEAN, shots : Nat]

GuiStates == [at : {"idle", "publishing"} \cup Invalidating \cup Closing, reset : BOOLEAN]

TypeOK ==
    /\ session \in Sessions \cup {None}
    /\ commands \in Seq(GuiCommand)
    /\ runs \in Nat
    /\ mode \in GuiRunMode /\ lastMode \in GuiRunMode
    /\ pump \in PumpStates
    /\ gui \in GuiStates
    /\ leaving \in BOOLEAN
    /\ worker \in WorkerStates /\ wakeup \in BOOLEAN

\* The session and its queue.
QueueSound ==
    /\ session # None => SessionSound(session)
    /\ session = None \/ session.state = "NotConfigured" => commands = <<>>

\* Which call of the finalizer a handler can be inside of.
CallSound ==
    /\ leaving <=> gui.at \in Closing
    /\ gui.reset => gui.at = "publishing"
    /\ call = NoCall \/ call.operation \in {"request", "reset", "cancel"}
    /\ gui.at \in {"idle", "leaving", "closed"} => call = NoCall
    /\ call # NoCall /\ gui.at = "publishing" => call.operation = "request"
    /\ call # NoCall /\ gui.at \in Invalidating => call.operation = "reset"
    /\ call # NoCall /\ gui.at = "cancelling" => call.operation = "cancel"

\* No worker and nothing it left behind.
Quiet == worker = NoWorker /\ result = NoRequest

\* A call has returned that cancelled what the worker did.
ReturnedQuiet ==
    /\ worker.at = "none" => worker = NoWorker
    /\ call = NoCall /\ gui.at \in Invalidating \cup {"cancelling", "closed"} => Quiet

\* Whatever the finalizer makes is of the active session's run.
OwnedBy(answer, s) == answer = NoRequest \/ answer = ResultOf(s)

ResultsOwned ==
    gui.at \in {"idle", "publishing"} =>
        IF session = None \/ session.state # "Finished"
        THEN Quiet /\ completed = NoRequest
        ELSE /\ OwnedBy(result, session)
             /\ OwnedBy(completed, session)
             /\ worker.at \in {"building", "deliver"} => worker.request = ResultOf(session)

\* What a handler knows of the session while it waits.
HandlerSound ==
    /\ gui.at \in {"publishing", "resetting"} =>
        session # None /\ shown = Snapshot(session) /\ commands = <<>>
    /\ gui.at = "publishing" => session.state = "Finished"
    /\ gui.at = "publishing" /\ call # NoCall => call.request = ResultOf(session)
    /\ gui.at \in {"applying", "saving"} => session # None

\* A pending continuation has been posted; a project is replaced with the timer stopped.
PumpPosted ==
    /\ pump.flag => pump.shots > 0
    /\ gui.at \in {"replacing", "closing"} => ~ pump.timer

WorkbenchInv ==
    /\ TypeOK /\ QueueSound
    /\ CallSound /\ ReturnedQuiet /\ ResultsOwned
    /\ HandlerSound /\ PresentationCurrent
    /\ PumpPosted

\* Whenever no update is going on, a busy session has a timer or a posted call.
DriveInv ==
    /\ gui.at \in {"idle", "applying", "saving"} =>
        /\ Busy => pump.timer \/ pump.shots > 0
        /\ pump.timer => session # None /\ session.state = "Running" /\ mode = "Live"
    /\ gui.at = "applying" => session.state # "Running" /\ commands = <<>>

\* Outside an application of a new configuration the cached progress is the session's.
ProgressInv ==
    gui.at \in {"idle", "publishing", "resetting", "saving"} /\ session # None =>
        progress = Progress(session)

-----------------------------------------------------------------------------
(* The controller: the net effect of the queued commands. *)

\* A nonempty set of natural numbers has a least element.
LEMMA LeastNumber ==
    ASSUME NEW D \in SUBSET Nat, D # {}
    PROVE  \E n \in D : \A m \in D : n <= m
  <1>1. \E n \in D : \A m \in D : ~ (<<m, n>> \in OpToRel(<, Nat))
    BY NatLessThanWellFounded, WFMin
  <1>2. PICK n \in D : \A m \in D : ~ (<<m, n>> \in OpToRel(<, Nat))
    BY <1>1
  <1>3. ASSUME NEW m \in D PROVE n <= m
    <2>1. m \in Nat /\ n \in Nat
      OBVIOUS
    <2>2. ~ (m < n)
      BY <1>2, <2>1 DEF OpToRel
    <2> QED
      BY <2>1, <2>2
  <1> QED
    BY <1>3

\* The state of an update between two commands.
UpdateStates ==
    [session : Sessions, runs : Nat, reset : BOOLEAN, paused : BOOLEAN, step : BOOLEAN]

\* The engine exists and has finished exactly when it made its last transition.
Configured(s) == s \in Sessions /\ s.state # "NotConfigured" /\ SessionSound(s)

\* The values between the commands, as AfterCommands goes through them.
IsChain(chain, start, queue) ==
    chain = [n \in 0 .. Len(queue) |->
                IF n = 0 THEN start ELSE AfterCommand(chain[n - 1], queue[n])]

\* The recursive definition of AfterCommands has a solution.
LEMMA ChainExists ==
    ASSUME NEW start, NEW queue \in Seq(GuiCommand)
    PROVE  \E chain : IsChain(chain, start, queue)
  <1> DEFINE Part(n, c) ==
                c = [i \in 0 .. n |-> IF i = 0 THEN start ELSE AfterCommand(c[i - 1], queue[i])]
             D == {n \in Nat : ~ \E c : Part(n, c)}
  <1>1. Part(0, [i \in 0 .. 0 |-> start])
    OBVIOUS
  <1>2. ASSUME NEW n \in Nat, NEW c, Part(n, c)
        PROVE  \E d : Part(n + 1, d)
    <2> DEFINE d == [i \in 0 .. n + 1 |->
                        IF i <= n THEN c[i] ELSE AfterCommand(c[n], queue[n + 1])]
    <2>1. ASSUME NEW i \in 0 .. n + 1
          PROVE  d[i] = IF i = 0 THEN start ELSE AfterCommand(d[i - 1], queue[i])
      <3>1. CASE i = 0
        BY <3>1, <1>2
      <3>2. CASE i # 0 /\ i <= n
        <4>1. d[i] = c[i] /\ d[i - 1] = c[i - 1] /\ c[i] = AfterCommand(c[i - 1], queue[i])
          BY <3>2, <1>2
        <4> QED
          BY <4>1, <3>2
      <3>3. CASE i = n + 1
        <4>1. d[i] = AfterCommand(c[n], queue[n + 1]) /\ d[i - 1] = c[n]
          BY <3>3
        <4> QED
          BY <4>1, <3>3
      <3> QED
        BY <3>1, <3>2, <3>3
    <2>2. Part(n + 1, d)
      BY <2>1
    <2> QED
      BY <2>2
  <1>3. ASSUME D # {} PROVE FALSE
    <2>1. D \in SUBSET Nat
      OBVIOUS
    <2> HIDE DEF Part
    <2>2. PICK n \in D : \A m \in D : n <= m
      BY <1>3, <2>1, LeastNumber, Zenon
    <2>3. n # 0
      BY <2>2, <1>1
    <2>4. n - 1 \in Nat /\ n - 1 \notin D
      BY <2>2, <2>3
    <2>5. PICK c : Part(n - 1, c)
      BY <2>4
    <2>6. \E d : Part(n - 1 + 1, d)
      BY <2>4, <2>5, <1>2
    <2> QED
      BY <2>6, <2>2
  <1>4. Len(queue) \in Nat
    OBVIOUS
  <1>5. \E c : Part(Len(queue), c)
    BY <1>3, <1>4
  <1> QED
    BY <1>5 DEF IsChain

\* AfterCommands is the last value of a chain.
LEMMA AfterCommandsChain ==
    ASSUME NEW start, NEW queue \in Seq(GuiCommand)
    PROVE  \E chain : /\ chain[0] = start
                      /\ \A n \in 1 .. Len(queue) :
                            chain[n] = AfterCommand(chain[n - 1], queue[n])
                      /\ AfterCommands(start, queue) = chain[Len(queue)]
  <1> DEFINE f == CHOOSE c : IsChain(c, start, queue)
  <1>1. IsChain(f, start, queue)
    BY ChainExists
  <1>2. AfterCommands(start, queue) = f[Len(queue)]
    BY DEF AfterCommands, IsChain
  <1> HIDE DEF f
  <1>3. f[0] = start /\ \A n \in 1 .. Len(queue) : f[n] = AfterCommand(f[n - 1], queue[n])
    BY <1>1 DEF IsChain
  <1> QED
    BY <1>2, <1>3

\* A number of transitions that the engine still has.
LEMMA SteppedSession ==
    ASSUME NEW s \in Sessions, NEW n \in Nat, s.done + n <= Steps
    PROVE  LET r == SteppedBy(s, n)
           IN  /\ r \in Sessions /\ r.generation = s.generation /\ r.run = s.run
               /\ r.done = s.done + n
               /\ r.state = IF n > 0 /\ s.done + n = Steps THEN "Finished" ELSE s.state
  <1> DEFINE data == s.data + n
             done == s.done + n
             state == IF n > 0 /\ s.done + n = Steps THEN "Finished" ELSE s.state
             r == SteppedBy(s, n)
  <1>1. s.generation \in Nat /\ s.data \in Nat /\ s.run \in Nat /\ s.state \in GuiRunState
    BY DEF Sessions
  <1>2. s.done \in 0 .. Steps /\ Steps \in Nat
    BY StepsAssumption DEF Sessions
  <1>3. data \in Nat /\ done \in 0 .. Steps /\ state \in GuiRunState
    BY <1>1, <1>2 DEF GuiRunState
  <1>4. r = [s EXCEPT !.data = data, !.done = done, !.state = state]
    BY DEF SteppedBy
  <1> HIDE DEF data, done, state, r
  <1>5. /\ r \in Sessions /\ r.generation = s.generation /\ r.run = s.run
        /\ r.done = done /\ r.state = state
    BY <1>1, <1>2, <1>3, <1>4 DEF Sessions
  <1> QED
    BY <1>5 DEF r, done, state

\* A new engine at its first transition.
LEMMA ResetSession ==
    ASSUME NEW s \in Sessions, NEW run \in Nat
    PROVE  LET r == ResetController(s, run)
           IN  /\ r \in Sessions /\ r.generation = s.generation
               /\ r.state = "Paused" /\ r.done = 0
  <1> DEFINE data == s.data + 1
             r == ResetController(s, run)
  <1>1. data \in Nat /\ 0 \in 0 .. Steps /\ "Paused" \in GuiRunState
    BY StepsAssumption DEF Sessions, GuiRunState
  <1>2. r = [s EXCEPT !.data = data, !.run = run, !.state = "Paused", !.done = 0]
    BY DEF ResetController
  <1> HIDE DEF data, r
  <1>3. /\ r \in Sessions /\ r.generation = s.generation
        /\ r.state = "Paused" /\ r.done = 0
    BY <1>1, <1>2 DEF Sessions
  <1> QED
    BY <1>3 DEF r

\* One command keeps the session sound; without a reset it keeps the engine, and an
\* engine that has finished is left alone.
LEMMA AfterCommandSound ==
    ASSUME NEW u \in UpdateStates, Configured(u.session), NEW command \in GuiCommand
    PROVE  LET v == AfterCommand(u, command)
           IN  /\ v \in UpdateStates /\ Configured(v.session)
               /\ u.reset => v.reset
               /\ u.paused => v.paused
               /\ u.step => v.step
               /\ v.session.generation = u.session.generation
               /\ ~ v.reset => v.session.run = u.session.run
               /\ ~ v.reset /\ u.session.state = "Finished" => v.session = u.session
               /\ ~ v.reset /\ ~ v.paused /\ ~ v.step /\ u.session.state # "Finished" =>
                    v.session.state = "Running"
  <1> DEFINE v == AfterCommand(u, command)
  <1>1. Steps \in Nat /\ Steps > 0
    BY StepsAssumption
  <1>2. /\ u.session \in Sessions /\ u.session.generation \in Nat /\ u.session.data \in Nat
        /\ u.session.run \in Nat /\ u.session.done \in 0 .. Steps /\ u.runs \in Nat
        /\ u.session.state \in {"Paused", "Running", "Finished"}
        /\ u.session.state = "Finished" <=> u.session.done = Steps
    BY DEF UpdateStates, Configured, Sessions, GuiRunState, SessionSound
  <1>3. CASE command = "Reset"
    <2> DEFINE r == ResetController(u.session, u.runs + 1)
    <2>1. r \in Sessions /\ r.generation = u.session.generation /\ r.state = "Paused" /\ r.done = 0
      <3>1. u.session \in Sessions /\ u.runs + 1 \in Nat
        BY <1>2
      <3> QED
        BY ONLY <3>1, ResetSession
    <2>2. v = [u EXCEPT !.session = r, !.runs = u.runs + 1, !.reset = TRUE]
      BY <1>3 DEF AfterCommand
    <2> DEFINE next == u.runs + 1
    <2>5. next \in Nat /\ v = [u EXCEPT !.session = r, !.runs = next, !.reset = TRUE]
      BY <2>2, <1>2
    <2> HIDE DEF r, v, next
    <2>3. /\ v \in UpdateStates /\ v.session = r /\ v.reset = TRUE
          /\ v.paused = u.paused /\ v.step = u.step
      BY <2>1, <2>5 DEF UpdateStates
    <2>4. Configured(v.session)
      BY <2>1, <2>3, <1>1 DEF Configured, SessionSound
    <2> QED
      BY <2>1, <2>3, <2>4 DEF v
  <1>4. CASE command # "Reset" /\ EngineFinished(u.session)
    <2>1. v = u
      BY <1>4 DEF AfterCommand
    <2>2. u.session.state = "Finished"
      BY <1>4, <1>2 DEF EngineFinished
    <2> QED
      BY <2>1, <2>2
  <1>5. CASE command # "Reset" /\ ~ EngineFinished(u.session)
    <2>1. v = Controlled(u, command) /\ u.session.done \in Nat /\ u.session.done < Steps
      BY <1>5, <1>2, <1>1 DEF AfterCommand, EngineFinished
    <2>2. CASE command = "Run"
      <3>1. v = [u EXCEPT !.session.state = "Running"]
        BY <2>1, <2>2 DEF Controlled
      <3> HIDE DEF v
      <3>2. v.session = [u.session EXCEPT !.state = "Running"] /\ v \in UpdateStates
        BY <3>1, <1>2 DEF UpdateStates, Sessions, GuiRunState
      <3>3. /\ v.session \in Sessions /\ v.session.state = "Running"
            /\ v.session.done = u.session.done /\ v.session.run = u.session.run
            /\ v.session.generation = u.session.generation
        BY <3>2, <1>2 DEF Sessions, GuiRunState
      <3>4. v.reset = u.reset /\ v.paused = u.paused /\ v.step = u.step
        BY <3>1 DEF UpdateStates
      <3>5. Configured(v.session)
        BY <3>3, <2>1 DEF Configured, SessionSound
      <3> QED
        BY <3>2, <3>3, <3>4, <3>5, <2>1, <1>2 DEF v
    <2>3. CASE command = "Pause"
      <3>1. v = [u EXCEPT !.session.state = "Paused", !.paused = TRUE]
        BY <2>1, <2>3 DEF Controlled
      <3> HIDE DEF v
      <3>2. v.session = [u.session EXCEPT !.state = "Paused"] /\ v \in UpdateStates
        BY <3>1, <1>2 DEF UpdateStates, Sessions, GuiRunState
      <3>3. /\ v.session \in Sessions /\ v.session.state = "Paused"
            /\ v.session.done = u.session.done /\ v.session.run = u.session.run
            /\ v.session.generation = u.session.generation
        BY <3>2, <1>2 DEF Sessions, GuiRunState
      <3>4. v.reset = u.reset /\ v.paused = TRUE /\ v.step = u.step
        BY <3>1 DEF UpdateStates
      <3>5. Configured(v.session)
        BY <3>3, <2>1 DEF Configured, SessionSound
      <3> QED
        BY <3>2, <3>3, <3>4, <3>5, <2>1, <1>2 DEF v
    <2>4. CASE command = "StepNextEvent"
      <3> DEFINE p == [u.session EXCEPT !.state = "Paused"]
                 r == SteppedBy(p, 1)
      <3>1. v = [u EXCEPT !.session = r, !.step = TRUE]
        BY <2>1, <2>4 DEF Controlled
      <3>2. /\ p \in Sessions /\ p.generation = u.session.generation /\ p.run = u.session.run
            /\ p.done = u.session.done /\ p.state = "Paused" /\ p.data = u.session.data
        BY <1>2 DEF Sessions, GuiRunState
      <3> HIDE DEF p
      <3>3. /\ r \in Sessions /\ r.generation = p.generation /\ r.run = p.run
            /\ r.done = p.done + 1
            /\ r.state = IF p.done + 1 = Steps THEN "Finished" ELSE "Paused"
        BY <3>2, <2>1, <1>1, SteppedSession
      <3> HIDE DEF v, r
      <3>4. /\ v \in UpdateStates /\ v.session = r
            /\ v.reset = u.reset /\ v.paused = u.paused /\ v.step = TRUE
        BY <3>1, <3>3, <1>2 DEF UpdateStates
      <3>5. Configured(r)
        BY <3>3, <3>2, <2>1 DEF Configured, SessionSound
      <3> QED
        BY <3>2, <3>3, <3>4, <3>5, <2>1, <1>2 DEF v
    <2> QED
      BY <2>2, <2>3, <2>4, <1>5 DEF GuiCommand
  <1> QED
    BY <1>3, <1>4, <1>5

\* What the commands before the n-th have done, for every n.
LEMMA AfterCommandsSound ==
    ASSUME NEW start \in UpdateStates, Configured(start.session),
           ~ start.reset, ~ start.paused, ~ start.step,
           NEW queue \in Seq(GuiCommand)
    PROVE  LET u == AfterCommands(start, queue)
           IN  /\ u \in UpdateStates /\ Configured(u.session)
               /\ u.session.generation = start.session.generation
               /\ ~ u.reset => u.session.run = start.session.run
               /\ ~ u.reset /\ start.session.state = "Finished" => u.session = start.session
               /\ ~ u.reset /\ ~ u.paused /\ ~ u.step /\ start.session.state # "Finished" =>
                    \/ queue = <<>> /\ u = start
                    \/ u.session.state = "Running"
  <1>1. PICK chain : /\ chain[0] = start
                     /\ \A n \in 1 .. Len(queue) :
                            chain[n] = AfterCommand(chain[n - 1], queue[n])
                     /\ AfterCommands(start, queue) = chain[Len(queue)]
    BY AfterCommandsChain
  <1> DEFINE S(u, n) ==
                /\ u \in UpdateStates /\ Configured(u.session)
                /\ u.session.generation = start.session.generation
                /\ ~ u.reset => u.session.run = start.session.run
                /\ ~ u.reset /\ start.session.state = "Finished" => u.session = start.session
                /\ ~ u.reset /\ ~ u.paused /\ ~ u.step /\ start.session.state # "Finished" =>
                     \/ n = 0 /\ u = start
                     \/ u.session.state = "Running"
             D == {n \in 0 .. Len(queue) : ~ S(chain[n], n)}
  <1>2. S(chain[0], 0)
    BY <1>1
  <1>3. ASSUME NEW n \in 1 .. Len(queue), S(chain[n - 1], n - 1)
        PROVE  S(chain[n], n)
    <2> DEFINE u == chain[n - 1]
               v == chain[n]
    <2>1. v = AfterCommand(u, queue[n]) /\ queue[n] \in GuiCommand
      BY <1>1
    <2>2. u \in UpdateStates /\ Configured(u.session)
      BY <1>3
    <2>4. S(u, n - 1)
      BY <1>3
    <2> HIDE DEF u, v
    <2>3. /\ v \in UpdateStates /\ Configured(v.session)
          /\ u.reset => v.reset
          /\ u.paused => v.paused
          /\ u.step => v.step
          /\ v.session.generation = u.session.generation
          /\ ~ v.reset => v.session.run = u.session.run
          /\ ~ v.reset /\ u.session.state = "Finished" => v.session = u.session
          /\ ~ v.reset /\ ~ v.paused /\ ~ v.step /\ u.session.state # "Finished" =>
               v.session.state = "Running"
      BY ONLY <2>1, <2>2, AfterCommandSound
    <2>5. ASSUME ~ v.reset, ~ v.paused, ~ v.step, start.session.state # "Finished"
          PROVE  v.session.state = "Running"
      <3>1. u = start \/ u.session.state = "Running"
        BY <2>3, <2>4, <2>5
      <3>2. u.session.state # "Finished"
        BY <3>1, <2>5
      <3> QED
        BY <3>2, <2>3, <2>5
    <2> QED
      BY <2>3, <2>4, <2>5 DEF v
  <1>4. ASSUME D # {} PROVE FALSE
    <2>1. D \in SUBSET Nat
      OBVIOUS
    <2> HIDE DEF S
    <2>2. PICK n \in D : \A m \in D : n <= m
      BY <1>4, <2>1, LeastNumber, Zenon
    <2>3. n \in 1 .. Len(queue) /\ ~ S(chain[n], n)
      BY <2>2, <1>2
    <2>4. n - 1 \in 0 .. Len(queue) /\ n - 1 \notin D
      BY <2>2, <2>3
    <2> QED
      BY <2>3, <2>4, <1>3
  <1>5. Len(queue) \in 0 .. Len(queue) /\ (Len(queue) = 0 => queue = <<>>)
    OBVIOUS
  <1>6. S(chain[Len(queue)], Len(queue))
    BY <1>4, <1>5
  <1> QED
    BY <1>1, <1>5, <1>6

\* An update of a session that has something to do.
LEMMA UpdateSound ==
    ASSUME NEW s \in Sessions, SessionSound(s),
           NEW queue \in Seq(GuiCommand), s.state = "NotConfigured" => queue = <<>>,
           NeedsUpdate(s, queue),
           NEW r \in Nat, NEW m \in GuiRunMode, NEW u \in Updates(s, queue, r, m)
    PROVE  /\ u.session \in Sessions /\ SessionSound(u.session)
           /\ u.session.state # "NotConfigured"
           /\ u.runs \in Nat
           /\ u.reset \in BOOLEAN /\ u.finished \in BOOLEAN
           /\ u.finished => s.state # "Finished" /\ u.session.state = "Finished"
           /\ ~ u.finished /\ ~ u.reset /\ (u.session.state = "Finished" \/ s.state = "Finished") =>
                SameView(u.session, s)
           /\ ~ u.finished /\ ~ u.reset /\ ~ u.paused /\ ~ u.step =>
                u.session.state = "Running" \/ (SameView(u.session, s) /\ s.state = "Finished")
  <1> DEFINE start == [session |-> s, runs |-> r, reset |-> FALSE, paused |-> FALSE, step |-> FALSE]
             v == AfterCommands(start, queue)
             generation == IF v.reset THEN s.generation + 1 ELSE s.generation
  <1>1. start \in UpdateStates /\ Configured(start.session)
        /\ ~ start.reset /\ ~ start.paused /\ ~ start.step
    BY DEF UpdateStates, Configured, NeedsUpdate
  <1> HIDE DEF start
  <1>2. /\ v \in UpdateStates /\ Configured(v.session)
        /\ v.session.generation = start.session.generation
        /\ ~ v.reset => v.session.run = start.session.run
        /\ ~ v.reset /\ start.session.state = "Finished" => v.session = start.session
        /\ ~ v.reset /\ ~ v.paused /\ ~ v.step /\ start.session.state # "Finished" =>
             \/ queue = <<>> /\ v = start
             \/ v.session.state = "Running"
    BY ONLY <1>1, queue \in Seq(GuiCommand), AfterCommandsSound
  <1>3. PICK n \in BatchSizes(v.session, m) :
            u = [session |-> [SteppedBy(v.session, n) EXCEPT !.generation = generation],
                 runs |-> v.runs,
                 reset |-> v.reset,
                 paused |-> v.paused,
                 step |-> v.step,
                 finished |-> s.state # "Finished" /\ SteppedBy(v.session, n).state = "Finished"]
    BY DEF Updates, start
  <1> DEFINE after == SteppedBy(v.session, n)
  <1>4. start.session = s
    BY DEF start
  <1> HIDE DEF v
  <1>5. /\ v.session \in Sessions /\ v.session.state \in {"Paused", "Running", "Finished"}
        /\ v.session.done \in 0 .. Steps /\ Steps \in Nat
        /\ v.session.state = "Finished" <=> v.session.done = Steps
        /\ v.runs \in Nat /\ v.reset \in BOOLEAN
    BY <1>2, StepsAssumption DEF UpdateStates, Configured, Sessions, GuiRunState, SessionSound
  <1>6. /\ n \in Nat /\ v.session.done + n <= Steps
        /\ v.session.state # "Running" => n = 0
    BY <1>3, <1>5 DEF BatchSizes
  <1>7. /\ after \in Sessions /\ after.generation = v.session.generation
        /\ after.run = v.session.run
        /\ after.done = v.session.done + n
        /\ after.state = IF n > 0 /\ v.session.done + n = Steps THEN "Finished" ELSE v.session.state
    BY ONLY <1>5, <1>6, SteppedSession
  <1>8. generation \in Nat
    BY DEF Sessions
  <1> HIDE DEF after, generation
  <1>9. /\ u.session = [after EXCEPT !.generation = generation]
        /\ u.runs = v.runs /\ u.reset = v.reset /\ u.paused = v.paused /\ u.step = v.step
        /\ u.finished = (s.state # "Finished" /\ after.state = "Finished")
    BY <1>3 DEF after
  <1>10. /\ u.session \in Sessions /\ u.session.generation = generation
         /\ u.session.run = after.run /\ u.session.done = after.done
         /\ u.session.state = after.state
    BY <1>7, <1>8, <1>9 DEF Sessions
  <1>11. SessionSound(u.session) /\ u.session.state # "NotConfigured"
    BY <1>5, <1>6, <1>7, <1>10 DEF SessionSound
  <1>12. ASSUME ~ u.reset, s.state = "Finished"
         PROVE  SameView(u.session, s)
    <2>1. v.session = s /\ generation = s.generation
      BY <1>12, <1>2, <1>4, <1>9 DEF generation
    <2>2. n = 0 /\ after.done = s.done /\ after.state = s.state /\ after.run = s.run
      BY <2>1, <1>12, <1>6, <1>7, <1>5
    <2> QED
      BY <2>1, <2>2, <1>10 DEF SameView
  <1>13. ASSUME ~ u.finished, ~ u.reset, ~ u.paused, ~ u.step, s.state # "Finished"
         PROVE  u.session.state = "Running"
    <2>1. v.session.state = "Running"
      <3>1. (queue = <<>> /\ v = start) \/ v.session.state = "Running"
        BY <1>13, <1>2, <1>4, <1>9
      <3> QED
        BY <3>1, <1>4 DEF NeedsUpdate
    <2> QED
      BY <2>1, <1>13, <1>7, <1>9, <1>10
  <1>14. u.finished => s.state # "Finished" /\ u.session.state = "Finished"
    BY <1>9, <1>10
  <1>15. ~ u.finished /\ u.session.state = "Finished" => s.state = "Finished"
    BY <1>9, <1>10
  <1>16. u.reset \in BOOLEAN /\ u.finished \in BOOLEAN /\ u.runs \in Nat
    BY <1>5, <1>9
  <1>17. ~ u.finished /\ ~ u.reset /\ (u.session.state = "Finished" \/ s.state = "Finished") =>
            SameView(u.session, s)
    BY <1>12, <1>15
  <1>18. ~ u.finished /\ ~ u.reset /\ ~ u.paused /\ ~ u.step =>
            u.session.state = "Running" \/ (SameView(u.session, s) /\ s.state = "Finished")
    BY <1>12, <1>13
  <1> QED
    BY <1>10, <1>11, <1>14, <1>16, <1>17, <1>18

-----------------------------------------------------------------------------
(* What the handlers are made of. *)

\* A session that gets a new engine.
LEMMA AppliedSession ==
    ASSUME NEW s \in Sessions, NEW run \in Nat
    PROVE  LET a == Applied(s, run)
           IN  a \in Sessions /\ SessionSound(a) /\ a.state = "Paused"
  BY StepsAssumption DEF Applied, Sessions, GuiRunState, SessionSound

LEMMA UnconfiguredSession ==
    Unconfigured \in Sessions /\ SessionSound(Unconfigured) /\ Unconfigured.state = "NotConfigured"
  BY StepsAssumption DEF Unconfigured, Sessions, GuiRunState, SessionSound

\* No session is mistaken for the lack of one.
LEMMA NoneIsNoSession == None \notin Sessions
  BY WorkbenchAssumption

\* Stopping the timer, with or without the pending flag.
LEMMA StoppedPump ==
    ASSUME NEW p \in PumpStates
    PROVE  LET q == [p EXCEPT !.timer = FALSE, !.flag = FALSE]
               t == [p EXCEPT !.timer = FALSE]
           IN  /\ q \in PumpStates /\ ~ q.timer /\ ~ q.flag /\ q.shots = p.shots
               /\ t \in PumpStates /\ ~ t.timer /\ t.flag = p.flag /\ t.shots = p.shots
  BY DEF PumpStates

\* A posted continuation.
LEMMA ScheduledImmediately ==
    ASSUME NEW p \in PumpStates, p.flag => p.shots > 0
    PROVE  LET q == ScheduleImmediate(p)
           IN  q \in PumpStates /\ (q.timer <=> p.timer) /\ q.shots > 0 /\ q.shots >= p.shots
  <1> DEFINE shots == p.shots + 1
  <1>1. shots \in Nat /\ shots > 0 /\ shots >= p.shots
    BY DEF PumpStates
  <1>2. ScheduleImmediate(p) = IF p.flag THEN p ELSE [p EXCEPT !.flag = TRUE, !.shots = shots]
    BY DEF ScheduleImmediate
  <1> DEFINE posted == [p EXCEPT !.flag = TRUE, !.shots = shots]
  <1> HIDE DEF shots
  <1>3. posted \in PumpStates /\ (posted.timer <=> p.timer) /\ posted.shots = shots
    BY <1>1 DEF PumpStates
  <1>4. p.shots \in Nat
    BY DEF PumpStates
  <1> HIDE DEF posted
  <1> QED
    BY <1>1, <1>2, <1>3, <1>4 DEF posted

\* The schedule of a session in a mode.
LEMMA Scheduled ==
    ASSUME NEW p \in PumpStates, p.flag => p.shots > 0, NEW s, NEW m \in GuiRunMode
    PROVE  LET q == ScheduleForRunState(p, s, m)
           IN  /\ q \in PumpStates
               /\ q.flag => q.shots > 0
               /\ q.shots >= p.shots
               /\ q.timer => s # None /\ s.state = "Running" /\ m = "Live"
               /\ s # None /\ s.state = "Running" => q.timer \/ q.shots > 0
  <1> DEFINE stopped == [p EXCEPT !.timer = FALSE]
             started == [p EXCEPT !.timer = TRUE]
  <1>1. /\ stopped \in PumpStates /\ ~ stopped.timer /\ stopped.flag = p.flag
        /\ stopped.shots = p.shots
        /\ started \in PumpStates /\ started.timer /\ started.flag = p.flag
        /\ started.shots = p.shots
    BY DEF PumpStates
  <1>2. p.shots \in Nat
    BY DEF PumpStates
  <1> HIDE DEF stopped, started
  <1>3. CASE s = None \/ s.state # "Running"
    <2>1. ScheduleForRunState(p, s, m) = stopped
      BY <1>3 DEF ScheduleForRunState, stopped
    <2> QED
      BY <1>1, <1>2, <1>3, <2>1
  <1>4. CASE ~ (s = None \/ s.state # "Running") /\ m = "Live"
    <2>1. ScheduleForRunState(p, s, m) = started
      BY <1>4 DEF ScheduleForRunState, started
    <2> QED
      BY <1>1, <1>2, <1>4, <2>1
  <1>5. CASE ~ (s = None \/ s.state # "Running") /\ m # "Live"
    <2> DEFINE q == ScheduleImmediate(stopped)
    <2>1. ScheduleForRunState(p, s, m) = q
      BY <1>5 DEF ScheduleForRunState, stopped
    <2>2. /\ q \in PumpStates /\ (q.timer <=> stopped.timer) /\ q.shots > 0
          /\ q.shots >= stopped.shots
      BY ONLY <1>1, p.flag => p.shots > 0, ScheduledImmediately
    <2> QED
      BY <1>1, <1>2, <1>5, <2>1, <2>2
  <1> QED
    BY <1>3, <1>4, <1>5

\* The handlers a state of the GUI thread names.
LEMMA HandlerNames ==
    /\ Idle \in GuiStates /\ Idle.at = "idle" /\ ~ Idle.reset
    /\ \A h \in {"idle", "publishing"} \cup Invalidating \cup Closing :
         At(h) \in GuiStates /\ At(h).at = h /\ ~ At(h).reset
    /\ \A g \in GuiStates : g.at = "idle" /\ ~ g.reset => g = Idle
  BY DEF Idle, At, GuiStates, Invalidating, Closing

LEMMA NoWorkerState == NoWorker \in WorkerStates /\ NoWorker.stop = FALSE /\ NoWorker.at = "none"
  BY DEF NoWorker, WorkerStates, WorkerStage

LEMMA StopUnset ==
    ASSUME NEW w \in WorkerStates, w.stop = FALSE
    PROVE  [w EXCEPT !.stop = FALSE] = w
  BY DEF WorkerStates

\* A call only asks a worker to stop.
LEMMA CallBegins ==
    ASSUME TypeOK, ReturnedQuiet, NEW operation, NEW request, BeginCall(operation, request)
    PROVE  /\ call = NoCall
           /\ call' = [operation |-> operation, request |-> request]
           /\ worker' \in WorkerStates /\ worker'.at = worker.at /\ wakeup' = wakeup
           /\ worker'.request = worker.request
           /\ worker.at = "none" => worker' = NoWorker
           /\ result' = result
  <1> DEFINE asked == worker.at # "none"
  <1>1. /\ call = NoCall
        /\ call' = [operation |-> operation, request |-> request]
        /\ worker' = [worker EXCEPT !.stop = asked]
        /\ result' = result /\ wakeup' = wakeup
    BY DEF BeginCall
  <1>2. worker \in WorkerStates /\ asked \in BOOLEAN
    BY DEF TypeOK
  <1>3. worker.at = "none" => worker' = NoWorker
    <2>1. worker.at = "none" => worker = NoWorker /\ asked = FALSE
      BY DEF ReturnedQuiet
    <2>2. [NoWorker EXCEPT !.stop = FALSE] = NoWorker
      BY StopUnset, NoWorkerState
    <2> HIDE DEF asked
    <2> QED
      BY <1>1, <2>1, <2>2
  <1> HIDE DEF asked
  <1>4. /\ worker' \in WorkerStates /\ worker'.at = worker.at /\ wakeup' = wakeup
        /\ worker'.request = worker.request
    BY <1>1, <1>2 DEF WorkerStates
  <1> QED
    BY <1>1, <1>3, <1>4

-----------------------------------------------------------------------------
(* One lemma per action: the user. *)

\* A queued command.
LEMMA EnqueueInv ==
    ASSUME WorkbenchInv, NEW command \in GuiCommand, Enqueue(command)
    PROVE  WorkbenchInv'
  <1>1. /\ commands' = Append(commands, command) /\ pump' = ScheduleImmediate(pump)
        /\ UNCHANGED <<session, runs, viewVars, gui, leaving, finalizerVars>>
        /\ session # None /\ session.state # "NotConfigured" /\ gui = Idle
    BY DEF Enqueue, Controllable, Listening
  <1>2. /\ pump' \in PumpStates /\ (pump'.timer <=> pump.timer) /\ pump'.shots > 0
    BY <1>1, ScheduledImmediately DEF WorkbenchInv, TypeOK, PumpPosted
  <1>3. TypeOK' /\ QueueSound'
    BY <1>1, <1>2 DEF WorkbenchInv, TypeOK, QueueSound, SessionSound, viewVars, finalizerVars
  <1>4. CallSound' /\ ReturnedQuiet' /\ ResultsOwned'
    BY <1>1 DEF WorkbenchInv, CallSound, ReturnedQuiet, ResultsOwned, Quiet, OwnedBy,
           ResultOf, viewVars, finalizerVars
  <1>5. HandlerSound' /\ PresentationCurrent' /\ PumpPosted'
    BY <1>1, <1>2, HandlerNames DEF WorkbenchInv, HandlerSound, PresentationCurrent, Listening, Snapshot,
           PumpPosted, viewVars, finalizerVars
  <1> QED
    BY <1>3, <1>4, <1>5 DEF WorkbenchInv

\* The other run mode.
LEMMA SetModeInv ==
    ASSUME WorkbenchInv, NEW m \in GuiRunMode, SetMode(m)
    PROVE  WorkbenchInv'
  <1>1. /\ mode' = m /\ pump' = ScheduleForRunState(pump, session, m)
        /\ UNCHANGED <<sessionVars, lastMode, shown, completed, gui, leaving, finalizerVars>>
        /\ gui = Idle
    BY DEF SetMode, Listening
  <1>2. pump' \in PumpStates /\ (pump'.flag => pump'.shots > 0)
    BY <1>1, Scheduled DEF WorkbenchInv, TypeOK, PumpPosted
  <1>3. TypeOK' /\ QueueSound'
    BY <1>1, <1>2 DEF WorkbenchInv, TypeOK, QueueSound, SessionSound, sessionVars, finalizerVars
  <1>4. CallSound' /\ ReturnedQuiet' /\ ResultsOwned'
    BY <1>1 DEF WorkbenchInv, CallSound, ReturnedQuiet, ResultsOwned, Quiet, OwnedBy,
           ResultOf, sessionVars, finalizerVars
  <1>5. HandlerSound' /\ PresentationCurrent' /\ PumpPosted'
    BY <1>1, <1>2, HandlerNames DEF WorkbenchInv, HandlerSound, PresentationCurrent, Listening, Snapshot,
           PumpPosted, sessionVars, finalizerVars
  <1> QED
    BY <1>3, <1>4, <1>5 DEF WorkbenchInv

\* A replacement that could not be built only stops the pump.
LEMMA ReplaceFailsInv ==
    ASSUME WorkbenchInv, ReplaceFails
    PROVE  WorkbenchInv'
  <1>1. /\ pump' = [pump EXCEPT !.timer = FALSE, !.flag = FALSE]
        /\ UNCHANGED <<sessionVars, viewVars, gui, leaving, finalizerVars>>
    BY DEF ReplaceFails, StopPump
  <1>2. pump' \in PumpStates /\ ~ pump'.timer /\ ~ pump'.flag
    BY <1>1, StoppedPump DEF WorkbenchInv, TypeOK
  <1>3. TypeOK' /\ QueueSound'
    BY <1>1, <1>2 DEF WorkbenchInv, TypeOK, QueueSound, SessionSound, sessionVars, viewVars, finalizerVars
  <1>4. CallSound' /\ ReturnedQuiet' /\ ResultsOwned'
    BY <1>1 DEF WorkbenchInv, CallSound, ReturnedQuiet, ResultsOwned, Quiet, OwnedBy,
           ResultOf, sessionVars, viewVars, finalizerVars
  <1>5. HandlerSound' /\ PresentationCurrent' /\ PumpPosted'
    BY <1>1, <1>2 DEF WorkbenchInv, HandlerSound, PresentationCurrent, Listening, Snapshot,
           PumpPosted, sessionVars, viewVars, finalizerVars
  <1> QED
    BY <1>3, <1>4, <1>5 DEF WorkbenchInv

\* A handler that invalidates results begins: the session and its queue are given, the
\* pump may have been stopped.
LEMMA BeginInvalidationInv ==
    ASSUME WorkbenchInv, Listening, NEW h \in Invalidating \ {"resetting"},
           BeginInvalidation(h),
           session' \in Sessions \cup {None}, commands' \in Seq(GuiCommand), runs' \in Nat,
           QueueSound',
           h \in {"applying", "saving"} => session' # None,
           pump' \in PumpStates, pump'.flag => pump'.shots > 0,
           h \in {"replacing", "closing"} => ~ pump'.timer
    PROVE  WorkbenchInv'
  <1>1. /\ BeginCall("reset", NoRequest) /\ gui' = At(h)
        /\ UNCHANGED <<viewVars, leaving>>
        /\ ~ leaving
    BY DEF BeginInvalidation, Listening
  <1>2. /\ call' = [operation |-> "reset", request |-> NoRequest]
        /\ worker' \in WorkerStates /\ worker'.at = worker.at /\ wakeup' = wakeup
        /\ worker.at = "none" => worker' = NoWorker
    BY <1>1, CallBegins DEF WorkbenchInv
  <1>3. call'.operation = "reset" /\ call' # NoCall
    BY <1>2 DEF NoCall
  <1>4. gui' \in GuiStates /\ gui'.at = h /\ ~ gui'.reset
    BY <1>1, HandlerNames
  <1>5. TypeOK'
    BY <1>1, <1>2, <1>4 DEF WorkbenchInv, TypeOK, viewVars
  <1>6. CallSound' /\ ReturnedQuiet' /\ ResultsOwned'
    BY <1>1, <1>2, <1>3, <1>4 DEF CallSound, ReturnedQuiet, ResultsOwned, Invalidating, Closing
  <1>7. HandlerSound' /\ PresentationCurrent' /\ PumpPosted'
    BY <1>4, HandlerNames DEF HandlerSound, PresentationCurrent, Listening, PumpPosted, Invalidating
  <1> QED
    BY <1>5, <1>6, <1>7 DEF WorkbenchInv

\* Replacing and closing begin by stopping the pump; the session stays until they end.
LEMMA BeginReplaceOrCloseInv ==
    ASSUME WorkbenchInv, BeginReplace \/ BeginClose
    PROVE  WorkbenchInv'
  <1>1. /\ Listening /\ UNCHANGED sessionVars
        /\ pump' = [pump EXCEPT !.timer = FALSE, !.flag = FALSE]
        /\ BeginInvalidation("replacing") \/ BeginInvalidation("closing")
    BY DEF BeginReplace, BeginClose, StopPump
  <1>2. pump' \in PumpStates /\ ~ pump'.timer /\ ~ pump'.flag
    BY <1>1, StoppedPump DEF WorkbenchInv, TypeOK
  <1>3. session' \in Sessions \cup {None} /\ commands' \in Seq(GuiCommand) /\ runs' \in Nat /\ QueueSound'
    BY <1>1 DEF WorkbenchInv, TypeOK, QueueSound, SessionSound, sessionVars
  <1>4. "replacing" \in Invalidating \ {"resetting"} /\ "closing" \in Invalidating \ {"resetting"}
    BY DEF Invalidating
  <1> QED
    BY <1>1, <1>2, <1>3, <1>4, BeginInvalidationInv

\* Applying a configuration gives the session, or its replacement, a new engine at once.
LEMMA BeginApplyInv ==
    ASSUME WorkbenchInv, BeginApply \/ BeginApplyAndSave
    PROVE  WorkbenchInv'
  <1>1. /\ Listening /\ session # None /\ UNCHANGED pump
        /\ \E base \in {session, Unconfigured} : session' = Applied(base, runs + 1)
        /\ runs' = runs + 1 /\ commands' = <<>>
        /\ BeginInvalidation("applying") \/ BeginInvalidation("saving")
    BY DEF BeginApply, BeginApplyAndSave, Controllable
  <1>2. /\ session' \in Sessions /\ SessionSound(session') /\ session'.state = "Paused"
        /\ runs' \in Nat
    <2>1. PICK base \in {session, Unconfigured} : session' = Applied(base, runs + 1)
      BY <1>1
    <2>2. base \in Sessions /\ runs + 1 \in Nat
      BY <1>1, UnconfiguredSession DEF WorkbenchInv, TypeOK
    <2>3. /\ Applied(base, runs + 1) \in Sessions /\ SessionSound(Applied(base, runs + 1))
          /\ Applied(base, runs + 1).state = "Paused"
      BY ONLY <2>2, AppliedSession
    <2> QED
      BY <2>1, <2>2, <2>3, <1>1
  <1>3. commands' \in Seq(GuiCommand) /\ QueueSound' /\ session' # None
    BY <1>1, <1>2, NoneIsNoSession DEF QueueSound, SessionSound
  <1>4. pump' \in PumpStates /\ (pump'.flag => pump'.shots > 0)
    BY <1>1 DEF WorkbenchInv, TypeOK, PumpPosted
  <1>5. "applying" \in Invalidating \ {"resetting"} /\ "saving" \in Invalidating \ {"resetting"}
    BY DEF Invalidating
  <1> QED
    BY <1>1, <1>2, <1>3, <1>4, <1>5, BeginInvalidationInv

\* Saving without changes invalidates results too.
LEMMA BeginSaveCleanInv ==
    ASSUME WorkbenchInv, BeginSaveClean
    PROVE  WorkbenchInv'
  <1>1. /\ Listening /\ session # None /\ UNCHANGED <<sessionVars, pump>>
        /\ BeginInvalidation("saving")
    BY DEF BeginSaveClean, Controllable
  <1>2. session' \in Sessions \cup {None} /\ commands' \in Seq(GuiCommand) /\ runs' \in Nat /\ QueueSound'
    BY <1>1 DEF WorkbenchInv, TypeOK, QueueSound, SessionSound, sessionVars
  <1>3. session' # None /\ pump' \in PumpStates /\ (pump'.flag => pump'.shots > 0)
    BY <1>1 DEF WorkbenchInv, TypeOK, PumpPosted, sessionVars
  <1>4. "saving" \in Invalidating \ {"resetting"}
    BY DEF Invalidating
  <1> QED
    BY <1>1, <1>2, <1>3, <1>4, BeginInvalidationInv

\* The program begins to close: by the user, or because the engine threw.
LEMMA BeginShutdownInv ==
    ASSUME WorkbenchInv, BeginShutdown
    PROVE  WorkbenchInv'
  <1>1. /\ leaving' = TRUE /\ gui' = At("leaving")
        /\ pump' = [pump EXCEPT !.timer = FALSE, !.flag = FALSE]
        /\ call = NoCall /\ UNCHANGED <<call, result, worker>> /\ wakeup' = FALSE
        /\ UNCHANGED <<sessionVars, viewVars>>
    BY DEF BeginShutdown, ClearWakeup
  <1>2. pump' \in PumpStates /\ ~ pump'.timer /\ ~ pump'.flag
    BY <1>1, StoppedPump DEF WorkbenchInv, TypeOK
  <1>3. gui' \in GuiStates /\ gui'.at = "leaving" /\ ~ gui'.reset
    BY <1>1, HandlerNames DEF Closing
  <1>4. TypeOK' /\ QueueSound'
    BY <1>1, <1>2, <1>3 DEF WorkbenchInv, TypeOK, QueueSound, SessionSound, sessionVars, viewVars
  <1>5. CallSound' /\ ReturnedQuiet' /\ ResultsOwned'
    BY <1>1, <1>3 DEF WorkbenchInv, CallSound, ReturnedQuiet, ResultsOwned, Invalidating, Closing
  <1>6. HandlerSound' /\ PresentationCurrent' /\ PumpPosted'
    BY <1>1, <1>2, <1>3 DEF HandlerSound, PresentationCurrent, Listening, PumpPosted
  <1> QED
    BY <1>4, <1>5, <1>6 DEF WorkbenchInv

-----------------------------------------------------------------------------
(* One lemma per action: the rest of a handler. *)

\* A handler ends by scheduling for the state the session is in.
LEMMA SettleInv ==
    ASSUME TypeOK, PumpPosted, NEW p \in PumpStates, p.flag => p.shots > 0,
           NEW s, Settle(p, s)
    PROVE  /\ pump' \in PumpStates /\ (pump'.flag => pump'.shots > 0)
           /\ pump'.timer => s # None /\ s.state = "Running" /\ mode = "Live"
           /\ s # None /\ s.state = "Running" => pump'.timer \/ pump'.shots > 0
           /\ lastMode' \in GuiRunMode
           /\ gui' \in GuiStates /\ gui'.at = "idle" /\ ~ gui'.reset /\ gui' = Idle
  BY Scheduled, HandlerNames DEF Settle, TypeOK

\* The finished run's result has been requested.
LEMMA AfterRequestInv ==
    ASSUME WorkbenchInv, AfterRequest
    PROVE  WorkbenchInv'
  <1>1. /\ gui.at = "publishing" /\ call = NoCall /\ ~ leaving
        /\ UNCHANGED <<sessionVars, mode, shown, published, progress, completed, leaving>>
        /\ session # None /\ session.state = "Finished" /\ shown = Snapshot(session)
        /\ commands = <<>>
    BY DEF AfterRequest, WorkbenchInv, HandlerSound, CallSound, Closing
  <1>2. CASE BeginCall("reset", NoRequest) /\ gui' = At("resetting") /\ UNCHANGED <<lastMode, pump>>
    <2>1. /\ call' = [operation |-> "reset", request |-> NoRequest]
          /\ worker' \in WorkerStates /\ worker'.at = worker.at /\ wakeup' = wakeup
          /\ worker.at = "none" => worker' = NoWorker
      BY <1>2, CallBegins DEF WorkbenchInv
    <2>2. call'.operation = "reset" /\ call' # NoCall
      BY <2>1 DEF NoCall
    <2>3. gui' \in GuiStates /\ gui'.at = "resetting" /\ ~ gui'.reset
      BY <1>2, HandlerNames DEF Invalidating
    <2>4. TypeOK' /\ QueueSound'
      BY <1>1, <1>2, <2>1, <2>3 DEF WorkbenchInv, TypeOK, QueueSound, SessionSound, sessionVars
    <2>5. CallSound' /\ ReturnedQuiet' /\ ResultsOwned'
      BY <1>1, <2>1, <2>2, <2>3 DEF WorkbenchInv, CallSound, ReturnedQuiet, ResultsOwned, Invalidating, Closing
    <2>6. HandlerSound' /\ PresentationCurrent' /\ PumpPosted'
      BY <1>1, <1>2, <2>3, HandlerNames DEF WorkbenchInv, HandlerSound, PresentationCurrent, Listening,
             Snapshot, PumpPosted, sessionVars
    <2> QED
      BY <2>4, <2>5, <2>6 DEF WorkbenchInv
  <1>3. CASE Settle(pump, session) /\ UNCHANGED finalizerVars
    <2>1. /\ pump' \in PumpStates /\ (pump'.flag => pump'.shots > 0)
          /\ lastMode' \in GuiRunMode
          /\ gui' \in GuiStates /\ gui'.at = "idle" /\ ~ gui'.reset
      BY <1>3, SettleInv DEF WorkbenchInv, TypeOK, PumpPosted
    <2>2. TypeOK' /\ QueueSound'
      BY <1>1, <1>3, <2>1 DEF WorkbenchInv, TypeOK, QueueSound, SessionSound, sessionVars, finalizerVars
    <2>3. CallSound' /\ ReturnedQuiet' /\ ResultsOwned'
      BY <1>1, <1>3, <2>1 DEF WorkbenchInv, CallSound, ReturnedQuiet, ResultsOwned, Quiet, OwnedBy, ResultOf,
             Invalidating, Closing, sessionVars, finalizerVars
    <2>4. HandlerSound' /\ PresentationCurrent' /\ PumpPosted'
      BY <1>1, <2>1 DEF HandlerSound, PresentationCurrent, Listening, Snapshot, PumpPosted, sessionVars
    <2> QED
      BY <2>2, <2>3, <2>4 DEF WorkbenchInv
  <1> QED
    BY <1>2, <1>3 DEF AfterRequest

\* A handler that invalidated results ends, with the session and the screen given.
LEMMA HandlerEndsInv ==
    ASSUME WorkbenchInv, gui.at \in Invalidating, call = NoCall,
           completed' = NoRequest, gui' = Idle, UNCHANGED <<leaving, finalizerVars>>,
           session' \in Sessions \cup {None}, commands' \in Seq(GuiCommand), runs' \in Nat,
           QueueSound', PresentationCurrent',
           mode' \in GuiRunMode, lastMode' \in GuiRunMode,
           pump' \in PumpStates, pump'.flag => pump'.shots > 0
    PROVE  WorkbenchInv'
  <1>1. gui' \in GuiStates /\ gui'.at = "idle" /\ ~ gui'.reset
    BY HandlerNames
  <1>2. Quiet /\ ~ leaving
    BY DEF WorkbenchInv, ReturnedQuiet, CallSound, Invalidating, Closing
  <1>3. TypeOK'
    BY <1>1 DEF WorkbenchInv, TypeOK, finalizerVars
  <1>4. CallSound' /\ ReturnedQuiet' /\ ResultsOwned'
    BY <1>1, <1>2, NoWorkerState DEF WorkbenchInv, CallSound, ReturnedQuiet, ResultsOwned, Quiet, OwnedBy,
           Invalidating, Closing, finalizerVars
  <1>5. HandlerSound' /\ PumpPosted'
    BY <1>1 DEF HandlerSound, PumpPosted
  <1> QED
    BY <1>3, <1>4, <1>5 DEF WorkbenchInv

\* The end of an update with a reset.
LEMMA AfterResetInv ==
    ASSUME WorkbenchInv, AfterReset
    PROVE  WorkbenchInv'
  <1>1. /\ gui.at = "resetting" /\ call = NoCall /\ completed' = NoRequest
        /\ Settle(pump, session)
        /\ UNCHANGED <<sessionVars, mode, shown, leaving, finalizerVars>>
    BY DEF AfterReset
  <1>2. session # None /\ shown = Snapshot(session) /\ commands = <<>> /\ gui.at \in Invalidating
    BY <1>1 DEF WorkbenchInv, HandlerSound, Invalidating
  <1>3. /\ pump' \in PumpStates /\ (pump'.flag => pump'.shots > 0)
        /\ lastMode' \in GuiRunMode /\ gui' = Idle
    BY <1>1, SettleInv DEF WorkbenchInv, TypeOK, PumpPosted
  <1>4. /\ session' \in Sessions \cup {None} /\ commands' \in Seq(GuiCommand) /\ runs' \in Nat
        /\ mode' \in GuiRunMode /\ QueueSound'
    BY <1>1, <1>2 DEF WorkbenchInv, TypeOK, QueueSound, SessionSound, sessionVars
  <1>5. PresentationCurrent'
    BY <1>1, <1>2 DEF PresentationCurrent, Snapshot, sessionVars
  <1> QED
    BY <1>1, <1>2, <1>3, <1>4, <1>5, HandlerEndsInv

\* The replacement is active: with an engine, or not configured.
LEMMA FinishReplaceInv ==
    ASSUME WorkbenchInv, FinishReplace
    PROVE  WorkbenchInv'
  <1>1. /\ gui.at = "replacing" /\ call = NoCall /\ completed' = NoRequest /\ gui' = Idle
        /\ UNCHANGED <<leaving, finalizerVars, pump>>
        /\ commands' = <<>> /\ shown' = Snapshot(session')
        /\ mode' \in GuiRunMode /\ lastMode' = mode'
        /\ \/ session' = Applied(Unconfigured, runs + 1) /\ runs' = runs + 1
           \/ session' = Unconfigured /\ runs' = runs
    BY DEF FinishReplace, EndInvalidation, Publish
  <1>2. session' \in Sessions /\ SessionSound(session') /\ runs' \in Nat
    <2>1. runs \in Nat /\ runs + 1 \in Nat
      BY DEF WorkbenchInv, TypeOK
    <2>2. Applied(Unconfigured, runs + 1) \in Sessions /\ SessionSound(Applied(Unconfigured, runs + 1))
      BY ONLY <2>1, AppliedSession, UnconfiguredSession
    <2> QED
      BY <1>1, <2>1, <2>2, UnconfiguredSession
  <1>3. commands' \in Seq(GuiCommand) /\ QueueSound' /\ PresentationCurrent'
    BY <1>1, <1>2, NoneIsNoSession DEF QueueSound, SessionSound, PresentationCurrent, Snapshot
  <1>4. pump' \in PumpStates /\ (pump'.flag => pump'.shots > 0) /\ gui.at \in Invalidating
    BY <1>1 DEF WorkbenchInv, TypeOK, PumpPosted, Invalidating
  <1> QED
    BY <1>1, <1>2, <1>3, <1>4, HandlerEndsInv

\* The home screen.
LEMMA FinishCloseInv ==
    ASSUME WorkbenchInv, FinishClose
    PROVE  WorkbenchInv'
  <1>1. /\ gui.at = "closing" /\ call = NoCall /\ completed' = NoRequest /\ gui' = Idle
        /\ UNCHANGED <<leaving, finalizerVars, pump>>
        /\ session' = None /\ commands' = <<>> /\ shown' = None
        /\ mode' = "Live" /\ UNCHANGED <<runs, lastMode>>
    BY DEF FinishClose, EndInvalidation
  <1>2. /\ commands' \in Seq(GuiCommand) /\ QueueSound' /\ PresentationCurrent'
        /\ mode' \in GuiRunMode
    BY <1>1 DEF QueueSound, PresentationCurrent, GuiRunMode
  <1>3. /\ pump' \in PumpStates /\ (pump'.flag => pump'.shots > 0) /\ gui.at \in Invalidating
        /\ runs' \in Nat /\ lastMode' \in GuiRunMode
    BY <1>1 DEF WorkbenchInv, TypeOK, PumpPosted, Invalidating
  <1> QED
    BY <1>1, <1>2, <1>3, HandlerEndsInv

\* An application, with or without a save, ends by publishing the session.
LEMMA FinishApplyInv ==
    ASSUME WorkbenchInv, FinishApply \/ FinishSave
    PROVE  WorkbenchInv'
  <1>1. /\ gui.at \in {"applying", "saving"} /\ call = NoCall
        /\ completed' = NoRequest /\ gui' = Idle
        /\ UNCHANGED <<leaving, finalizerVars, pump>>
        /\ UNCHANGED <<sessionVars, mode, lastMode>> /\ shown' = Snapshot(session)
    BY DEF FinishApply, FinishSave, EndInvalidation, Publish
  <1>2. session # None /\ gui.at \in Invalidating
    BY <1>1 DEF WorkbenchInv, HandlerSound, Invalidating
  <1>3. QueueSound' /\ PresentationCurrent'
    BY <1>1, <1>2 DEF WorkbenchInv, QueueSound, SessionSound, PresentationCurrent, Snapshot, sessionVars
  <1>4. /\ pump' \in PumpStates /\ (pump'.flag => pump'.shots > 0)
        /\ session' \in Sessions \cup {None} /\ commands' \in Seq(GuiCommand)
        /\ runs' \in Nat /\ mode' \in GuiRunMode /\ lastMode' \in GuiRunMode
    BY <1>1 DEF WorkbenchInv, TypeOK, PumpPosted, sessionVars
  <1> QED
    BY <1>1, <1>2, <1>3, <1>4, HandlerEndsInv

\* shutdown() cancels the background work and returns when the worker is gone.
LEMMA ClosingInv ==
    ASSUME WorkbenchInv, CancelBackgroundWork \/ ShutdownReturns
    PROVE  WorkbenchInv'
  <1>1. /\ UNCHANGED <<sessionVars, viewVars, pump, leaving>> /\ call = NoCall
        /\ gui.at \in {"leaving", "cancelling"}
    BY DEF CancelBackgroundWork, ShutdownReturns
  <1>2. leaving
    BY <1>1 DEF WorkbenchInv, CallSound, Closing
  <1>3. CASE CancelBackgroundWork
    <2>1. /\ call' = [operation |-> "cancel", request |-> NoRequest]
          /\ worker' \in WorkerStates /\ worker'.at = worker.at /\ wakeup' = wakeup
          /\ worker.at = "none" => worker' = NoWorker
      BY <1>3, CallBegins DEF WorkbenchInv, CancelBackgroundWork
    <2>2. call'.operation = "cancel" /\ call' # NoCall
      BY <2>1 DEF NoCall
    <2>3. gui' \in GuiStates /\ gui'.at = "cancelling" /\ ~ gui'.reset
      BY <1>3, HandlerNames DEF CancelBackgroundWork, Closing
    <2>4. TypeOK' /\ QueueSound'
      BY <1>1, <2>1, <2>3 DEF WorkbenchInv, TypeOK, QueueSound, SessionSound, sessionVars, viewVars
    <2>5. CallSound' /\ ReturnedQuiet' /\ ResultsOwned'
      BY <1>1, <1>2, <2>1, <2>2, <2>3 DEF CallSound, ReturnedQuiet, ResultsOwned, Invalidating, Closing
    <2>6. HandlerSound' /\ PresentationCurrent' /\ PumpPosted'
      BY <1>1, <1>2, <2>3 DEF WorkbenchInv, HandlerSound, PresentationCurrent, Listening, PumpPosted
    <2> QED
      BY <2>4, <2>5, <2>6 DEF WorkbenchInv
  <1>4. CASE ShutdownReturns
    <2>1. gui.at = "cancelling" /\ UNCHANGED finalizerVars
      BY <1>4 DEF ShutdownReturns
    <2>2. gui' \in GuiStates /\ gui'.at = "closed" /\ ~ gui'.reset
      BY <1>4, HandlerNames DEF ShutdownReturns, Closing
    <2>3. Quiet
      BY <1>1, <2>1 DEF WorkbenchInv, ReturnedQuiet
    <2>4. TypeOK' /\ QueueSound'
      BY <1>1, <2>1, <2>2 DEF WorkbenchInv, TypeOK, QueueSound, SessionSound, sessionVars, viewVars, finalizerVars
    <2>5. CallSound' /\ ReturnedQuiet' /\ ResultsOwned'
      BY <1>1, <1>2, <2>1, <2>2, <2>3 DEF WorkbenchInv, CallSound, ReturnedQuiet, ResultsOwned, Quiet, Closing,
             Invalidating, finalizerVars
    <2>6. HandlerSound' /\ PresentationCurrent' /\ PumpPosted'
      BY <1>1, <1>2, <2>2 DEF WorkbenchInv, HandlerSound, PresentationCurrent, Listening, PumpPosted
    <2> QED
      BY <2>4, <2>5, <2>6 DEF WorkbenchInv
  <1> QED
    BY <1>3, <1>4

-----------------------------------------------------------------------------
(* One lemma per action: updates. *)

\* What the GUI thread hands to process_once(): the timer's pump, or the continuation's.
LEMMA ContinuationPump ==
    ASSUME TypeOK, pump.shots > 0
    PROVE  LET p == [pump EXCEPT !.flag = FALSE, !.shots = @ - 1]
           IN  p \in PumpStates /\ ~ p.flag
  <1> DEFINE shots == pump.shots - 1
             p == [pump EXCEPT !.flag = FALSE, !.shots = shots]
  <1>1. pump \in PumpStates /\ shots \in Nat
    BY DEF TypeOK, PumpStates
  <1>2. p \in PumpStates /\ ~ p.flag
    <2> HIDE DEF shots
    <2> QED
      BY <1>1 DEF PumpStates
  <1> QED
    BY <1>2

\* Nothing to do: only the schedule changes.
LEMMA NothingToUpdateInv ==
    ASSUME WorkbenchInv, NEW p \in PumpStates, p.flag => p.shots > 0, Listening, NothingToUpdate(p)
    PROVE  WorkbenchInv'
  <1>1. /\ pump' = ScheduleForRunState(p, session, mode)
        /\ UNCHANGED <<sessionVars, viewVars, gui, leaving, finalizerVars>>
        /\ gui = Idle
    BY DEF NothingToUpdate, Listening
  <1>2. pump' \in PumpStates /\ (pump'.flag => pump'.shots > 0)
    BY <1>1, Scheduled DEF WorkbenchInv, TypeOK
  <1>3. TypeOK' /\ QueueSound'
    BY <1>1, <1>2 DEF WorkbenchInv, TypeOK, QueueSound, SessionSound, sessionVars, viewVars, finalizerVars
  <1>4. CallSound' /\ ReturnedQuiet' /\ ResultsOwned'
    BY <1>1 DEF WorkbenchInv, CallSound, ReturnedQuiet, ResultsOwned, Quiet, OwnedBy,
           ResultOf, sessionVars, viewVars, finalizerVars
  <1>5. HandlerSound' /\ PresentationCurrent' /\ PumpPosted'
    BY <1>1, <1>2, HandlerNames DEF WorkbenchInv, HandlerSound, PresentationCurrent, Listening, Snapshot,
           PumpPosted, sessionVars, viewVars, finalizerVars
  <1> QED
    BY <1>3, <1>4, <1>5 DEF WorkbenchInv

\* An outcome of the update that the step chose, and whether it published.
UpdateStep(p, u) ==
    /\ u \in Updates(session, commands, runs, mode)
    /\ session' = u.session
    /\ commands' = <<>>
    /\ runs' = u.runs
    /\ progress' = Progress(u.session)
    /\ \E publish \in PublishChoices(u) :
        IF publish THEN Publish(u.session) ELSE UNCHANGED <<shown, published>>
    /\ RequestFinishedRun(u, p) \/ InvalidateAfterReset(u, p) \/ NothingToCall(u, p)
    /\ UNCHANGED <<mode, completed, leaving>>

\* What an update does to the session and to the screen.
LEMMA UpdateFacts ==
    ASSUME WorkbenchInv, Listening, Busy, NEW p, NEW u, UpdateStep(p, u)
    PROVE  /\ session \in Sessions /\ session # None
           /\ session' \in Sessions /\ session' # None /\ SessionSound(session')
           /\ runs' \in Nat /\ commands' = <<>> /\ QueueSound'
           /\ u.reset \in BOOLEAN /\ u.finished \in BOOLEAN
           /\ u.finished => session.state # "Finished" /\ session'.state = "Finished"
           /\ ~ u.finished /\ ~ u.reset /\ (session'.state = "Finished" \/ session.state = "Finished") =>
             SameView(session', session)
           /\ u.finished \/ u.reset => shown' = Snapshot(session')
           /\ session'.state # "Running" => shown' = Snapshot(session')
  <1>1. session # None /\ NeedsUpdate(session, commands) /\ gui = Idle
    BY DEF Busy, Listening
  <1>2. /\ session \in Sessions /\ SessionSound(session) /\ commands \in Seq(GuiCommand)
        /\ session.state = "NotConfigured" => commands = <<>>
        /\ runs \in Nat /\ mode \in GuiRunMode
    BY <1>1 DEF WorkbenchInv, TypeOK, QueueSound
  <1>3. /\ u \in Updates(session, commands, runs, mode)
        /\ session' = u.session /\ runs' = u.runs /\ commands' = <<>>
    BY DEF UpdateStep
  <1>4. /\ u.session \in Sessions /\ SessionSound(u.session)
        /\ u.runs \in Nat
        /\ u.reset \in BOOLEAN /\ u.finished \in BOOLEAN
        /\ u.finished => session.state # "Finished" /\ u.session.state = "Finished"
        /\ ~ u.finished /\ ~ u.reset /\ (u.session.state = "Finished" \/ session.state = "Finished") =>
             SameView(u.session, session)
        /\ ~ u.finished /\ ~ u.reset /\ ~ u.paused /\ ~ u.step =>
             u.session.state = "Running"
             \/ (SameView(u.session, session) /\ session.state = "Finished")
    BY ONLY <1>1, <1>2, <1>3, UpdateSound
  <1>5. shown' = Snapshot(session') \/ (~ u.reset /\ ~ u.paused /\ ~ u.finished /\ ~ u.step /\ shown' = shown)
    <2>1. PICK publish \in PublishChoices(u) :
              IF publish THEN Publish(u.session) ELSE UNCHANGED <<shown, published>>
      BY DEF UpdateStep
    <2>2. CASE publish
      BY <2>1, <2>2, <1>3 DEF Publish
    <2>3. CASE ~ publish
      <3>1. ~ (u.reset \/ u.paused \/ u.finished \/ u.step)
        BY <2>1, <2>3 DEF PublishChoices
      <3> QED
        BY <3>1, <2>1, <2>3
    <2> QED
      BY <2>2, <2>3
  <1>6. ASSUME session'.state # "Running" PROVE shown' = Snapshot(session')
    <2>1. CASE ~ u.reset /\ ~ u.paused /\ ~ u.finished /\ ~ u.step /\ shown' = shown
      <3>1. SameView(session', session) /\ session.state = "Finished"
        BY <1>3, <1>4, <1>6, <2>1
      <3>2. shown = Snapshot(session)
        BY <1>1, <3>1 DEF WorkbenchInv, PresentationCurrent, Listening
      <3> QED
        BY <2>1, <3>1, <3>2 DEF SameView, Snapshot
    <2> QED
      BY <2>1, <1>5
  <1>7. session' # None /\ QueueSound'
    BY <1>3, <1>4, NoneIsNoSession DEF QueueSound, SessionSound
  <1> QED
    BY <1>1, <1>2, <1>3, <1>4, <1>5, <1>6, <1>7

\* An update, and the call into the finalizer that it may begin.
LEMMA UpdateInv ==
    ASSUME WorkbenchInv, NEW p \in PumpStates, p.flag => p.shots > 0, Listening, Update(p)
    PROVE  WorkbenchInv'
  <1>1. Busy /\ \E u : UpdateStep(p, u)
    BY DEF Update, UpdateStep
  <1>2. PICK u : UpdateStep(p, u)
    BY <1>1
  <1>3. /\ session \in Sessions /\ session # None
        /\ session' \in Sessions /\ session' # None /\ SessionSound(session')
        /\ runs' \in Nat /\ commands' = <<>> /\ QueueSound'
        /\ u.reset \in BOOLEAN /\ u.finished \in BOOLEAN
        /\ u.finished => session.state # "Finished" /\ session'.state = "Finished"
        /\ ~ u.finished /\ ~ u.reset /\ (session'.state = "Finished" \/ session.state = "Finished") =>
             SameView(session', session)
        /\ u.finished \/ u.reset => shown' = Snapshot(session')
        /\ session'.state # "Running" => shown' = Snapshot(session')
    BY <1>1, <1>2, UpdateFacts
  <1>4. /\ UNCHANGED <<mode, completed, leaving>> /\ gui = Idle /\ ~ leaving /\ gui.at = "idle"
        /\ session' = u.session
        /\ RequestFinishedRun(u, p) \/ InvalidateAfterReset(u, p) \/ NothingToCall(u, p)
    BY <1>2, HandlerNames DEF UpdateStep, Listening
  <1>5. IF session.state # "Finished"
        THEN Quiet /\ completed = NoRequest
        ELSE /\ OwnedBy(result, session)
             /\ OwnedBy(completed, session)
             /\ worker.at \in {"building", "deliver"} => worker.request = ResultOf(session)
    BY <1>3, <1>4 DEF WorkbenchInv, ResultsOwned
  <1>6. CASE RequestFinishedRun(u, p)
    <2>1. /\ u.finished /\ BeginCall("request", ResultOf(session'))
          /\ gui' = [at |-> "publishing", reset |-> u.reset] /\ pump' = p /\ UNCHANGED lastMode
      BY <1>4, <1>6 DEF RequestFinishedRun
    <2>2. /\ call' = [operation |-> "request", request |-> ResultOf(session')]
          /\ worker' \in WorkerStates /\ worker'.at = worker.at /\ wakeup' = wakeup
          /\ worker.at = "none" => worker' = NoWorker
          /\ result' = result
      BY <2>1, CallBegins DEF WorkbenchInv
    <2>3. call'.operation = "request" /\ call' # NoCall /\ call'.request = ResultOf(session')
      BY <2>2 DEF NoCall
    <2>4. gui' \in GuiStates /\ gui'.at = "publishing"
      BY <2>1, <1>3 DEF GuiStates
    <2>5. Quiet /\ completed = NoRequest /\ worker.at = "none"
      BY <1>3, <1>5, <2>1, NoWorkerState DEF Quiet
    <2>6. TypeOK'
      BY <1>3, <1>4, <2>1, <2>2, <2>4 DEF WorkbenchInv, TypeOK
    <2>7. CallSound' /\ ReturnedQuiet' /\ ResultsOwned'
      BY <1>3, <1>4, <2>1, <2>2, <2>3, <2>4, <2>5 DEF CallSound, ReturnedQuiet, ResultsOwned, Quiet, OwnedBy,
             Invalidating, Closing, NoWorker
    <2>8. HandlerSound' /\ PresentationCurrent' /\ PumpPosted'
      BY <1>3, <2>1, <2>3, <2>4, HandlerNames DEF HandlerSound, PresentationCurrent, Listening, PumpPosted
    <2> QED
      BY <1>3, <2>6, <2>7, <2>8 DEF WorkbenchInv
  <1>7. CASE InvalidateAfterReset(u, p)
    <2>1. /\ u.reset /\ BeginCall("reset", NoRequest)
          /\ gui' = At("resetting") /\ pump' = p /\ UNCHANGED lastMode
      BY <1>7 DEF InvalidateAfterReset
    <2>2. /\ call' = [operation |-> "reset", request |-> NoRequest]
          /\ worker' \in WorkerStates /\ worker'.at = worker.at /\ wakeup' = wakeup
          /\ worker.at = "none" => worker' = NoWorker
      BY <2>1, CallBegins DEF WorkbenchInv
    <2>3. call'.operation = "reset" /\ call' # NoCall
      BY <2>2 DEF NoCall
    <2>4. gui' \in GuiStates /\ gui'.at = "resetting" /\ ~ gui'.reset
      BY <2>1, HandlerNames DEF Invalidating
    <2>5. TypeOK'
      BY <1>3, <1>4, <2>1, <2>2, <2>4 DEF WorkbenchInv, TypeOK
    <2>6. CallSound' /\ ReturnedQuiet' /\ ResultsOwned'
      BY <1>4, <2>2, <2>3, <2>4 DEF CallSound, ReturnedQuiet, ResultsOwned, Invalidating, Closing
    <2>7. HandlerSound' /\ PresentationCurrent' /\ PumpPosted'
      BY <1>3, <2>1, <2>4, HandlerNames DEF HandlerSound, PresentationCurrent, Listening, PumpPosted
    <2> QED
      BY <1>3, <2>5, <2>6, <2>7 DEF WorkbenchInv
  <1>8. CASE NothingToCall(u, p)
    <2>1. ~ u.finished /\ ~ u.reset /\ Settle(p, u.session) /\ UNCHANGED finalizerVars
      BY <1>8 DEF NothingToCall
    <2>2. /\ pump' \in PumpStates /\ (pump'.flag => pump'.shots > 0)
          /\ lastMode' \in GuiRunMode
          /\ gui' \in GuiStates /\ gui'.at = "idle" /\ ~ gui'.reset
      BY <2>1, SettleInv DEF WorkbenchInv
    <2>3. TypeOK'
      BY <1>3, <1>4, <2>1, <2>2 DEF WorkbenchInv, TypeOK, finalizerVars
    <2>4. ResultsOwned'
      <3>1. CASE session'.state = "Finished"
        <4>1. SameView(session', session) /\ session.state = "Finished"
          BY <1>3, <2>1, <3>1 DEF SameView
        <4>2. ResultOf(session') = ResultOf(session)
          BY <4>1 DEF SameView, ResultOf
        <4> QED
          BY <1>3, <1>4, <1>5, <2>1, <3>1, <4>1, <4>2 DEF ResultsOwned, OwnedBy, ResultOf, finalizerVars
      <3>2. CASE session'.state # "Finished"
        <4>1. session.state # "Finished"
          BY <1>3, <2>1, <3>2 DEF SameView
        <4> QED
          BY <1>3, <1>4, <1>5, <2>1, <3>2, <4>1 DEF ResultsOwned, Quiet, finalizerVars
      <3> QED
        BY <3>1, <3>2
    <2>5. CallSound' /\ ReturnedQuiet'
      BY <1>4, <2>1, <2>2 DEF WorkbenchInv, CallSound, ReturnedQuiet, Invalidating, Closing, finalizerVars
    <2>6. HandlerSound' /\ PresentationCurrent' /\ PumpPosted'
      BY <1>3, <2>2 DEF HandlerSound, PresentationCurrent, Listening, PumpPosted, Snapshot
    <2> QED
      BY <1>3, <2>3, <2>4, <2>5, <2>6 DEF WorkbenchInv
  <1> QED
    BY <1>4, <1>6, <1>7, <1>8

\* The timer and the posted continuation both run process_once().
LEMMA ProcessOnceInv ==
    ASSUME WorkbenchInv, ContinuationFires \/ LiveTimerFires
    PROVE  WorkbenchInv'
  <1>1. PICK p \in PumpStates : (p.flag => p.shots > 0) /\ ProcessOnce(p)
    <2>1. CASE ContinuationFires
      <3>1. pump.shots > 0 /\ ProcessOnce([pump EXCEPT !.flag = FALSE, !.shots = @ - 1])
        BY <2>1 DEF ContinuationFires
      <3> DEFINE p == [pump EXCEPT !.flag = FALSE, !.shots = @ - 1]
      <3>2. p \in PumpStates /\ ~ p.flag /\ ProcessOnce(p)
        BY <3>1, ContinuationPump DEF WorkbenchInv
      <3> QED
        BY <3>2
    <2>2. CASE LiveTimerFires
      BY <2>2 DEF LiveTimerFires, WorkbenchInv, TypeOK, PumpPosted
    <2> QED
      BY <2>1, <2>2
  <1>2. Listening /\ (NothingToUpdate(p) \/ Update(p) \/ UpdateThrows)
    BY <1>1 DEF ProcessOnce
  <1> QED
    BY <1>1, <1>2, NothingToUpdateInv, UpdateInv, BeginShutdownInv DEF UpdateThrows

\* What the worker stored reaches the cache of completed results.
LEMMA PublicationInv ==
    ASSUME WorkbenchInv, ProcessBackgroundPublication
    PROVE  WorkbenchInv'
  <1>1. /\ gui = Idle /\ gui.at = "idle" /\ ~ leaving
        /\ completed' = IF result # NoRequest THEN CacheAfter(result) ELSE completed
        /\ UNCHANGED <<sessionVars, mode, lastMode, shown, published, progress, pump, gui, leaving>>
        /\ ProcessWakeup
    BY HandlerNames DEF ProcessBackgroundPublication, Listening
  <1>2. /\ UNCHANGED <<call, worker, wakeup>>
        /\ result' = NoRequest \/ result' = result
    BY <1>1 DEF ProcessWakeup, TakePublication
  <1>3. TypeOK' /\ QueueSound'
    BY <1>1, <1>2 DEF WorkbenchInv, TypeOK, QueueSound, SessionSound, sessionVars
  <1>4. CallSound' /\ ReturnedQuiet'
    BY <1>1, <1>2 DEF WorkbenchInv, CallSound, ReturnedQuiet, Invalidating, Closing
  <1>5. ResultsOwned'
    <2>1. CASE session = None \/ session.state # "Finished"
      BY <1>1, <1>2, <2>1 DEF WorkbenchInv, ResultsOwned, Quiet, sessionVars
    <2>2. CASE ~ (session = None \/ session.state # "Finished")
      <3>1. OwnedBy(result, session) /\ OwnedBy(completed, session)
        BY <1>1, <2>2 DEF WorkbenchInv, ResultsOwned
      <3>2. OwnedBy(completed', session)
        BY <1>1, <3>1 DEF OwnedBy, CacheAfter
      <3> QED
        BY <1>1, <1>2, <2>2, <3>1, <3>2 DEF WorkbenchInv, ResultsOwned, OwnedBy, ResultOf, sessionVars
    <2> QED
      BY <2>1, <2>2
  <1>6. HandlerSound' /\ PresentationCurrent' /\ PumpPosted'
    BY <1>1, <1>2 DEF WorkbenchInv, HandlerSound, PresentationCurrent, Listening, Snapshot,
           PumpPosted, sessionVars
  <1> QED
    BY <1>3, <1>4, <1>5, <1>6 DEF WorkbenchInv

-----------------------------------------------------------------------------
(* One lemma per action: the finalizer. *)

\* A step of the worker never reaches a handler whose call has cancelled it, and stores
\* nothing but what was requested.
LEMMA WorkerStepInv ==
    ASSUME WorkbenchInv, WorkerStep, UNCHANGED <<sessionVars, viewVars, pump, gui, leaving>>
    PROVE  WorkbenchInv'
  <1>1. /\ worker \in WorkerStates /\ wakeup \in BOOLEAN /\ UNCHANGED <<call, wakeup>>
        /\ worker.at \in {"building", "deliver", "raise", "notify"}
    BY DEF WorkerStep, CheckStop, BuilderThrows, StoreResult, StoreError, Notify, workerView, clientView,
           WorkbenchInv, TypeOK
  <1>2. /\ worker' \in WorkerStates /\ worker'.request = worker.request
        /\ worker'.at # "none"
        /\ worker'.at \in {"building", "deliver"} => worker.at = "building"
        /\ result' # result => worker.at = "deliver" /\ result' = worker.request
    <2>1. CASE CheckStop
      <3>1. \E at \in {"returned", "deliver"} : worker' = [worker EXCEPT !.at = at]
        BY <2>1 DEF CheckStop
      <3> QED
        BY <1>1, <2>1, <3>1 DEF CheckStop, WorkerStates, WorkerStage
    <2>2. CASE BuilderThrows
      BY <1>1, <2>2 DEF BuilderThrows, WorkerStates, WorkerStage
    <2>3. CASE StoreResult \/ StoreError
      <3>2. worker' = [worker EXCEPT !.at = "notify", !.notify = wakeup]
        BY <2>3 DEF StoreResult, StoreError, Stored
      <3>3. result' # result => worker.at = "deliver" /\ result' = worker.request
        BY <2>3 DEF StoreResult, StoreError
      <3> QED
        BY <1>1, <3>2, <3>3 DEF WorkerStates, WorkerStage
    <2>4. CASE Notify
      BY <1>1, <2>4 DEF Notify, WorkerStates, WorkerStage
    <2> QED
      BY <2>1, <2>2, <2>3, <2>4 DEF WorkerStep
  <1>3. worker # NoWorker
    BY <1>1 DEF NoWorker
  <1>4. TypeOK' /\ QueueSound'
    BY <1>1, <1>2 DEF WorkbenchInv, TypeOK, QueueSound, SessionSound, sessionVars, viewVars
  <1>5. CallSound' /\ ReturnedQuiet'
    BY <1>1, <1>2, <1>3 DEF WorkbenchInv, CallSound, ReturnedQuiet, Quiet
  <1>6. ResultsOwned'
    BY <1>1, <1>2, <1>3 DEF WorkbenchInv, ResultsOwned, Quiet, OwnedBy, ResultOf, sessionVars, viewVars
  <1>7. HandlerSound' /\ PresentationCurrent' /\ PumpPosted'
    BY <1>1 DEF WorkbenchInv, HandlerSound, PresentationCurrent, Listening, Snapshot, ResultOf,
           PumpPosted, sessionVars, viewVars
  <1> QED
    BY <1>4, <1>5, <1>6, <1>7 DEF WorkbenchInv

\* A call that waited for the worker returns: cancelled, refused, or with a new worker.
LEMMA FinishCallInv ==
    ASSUME WorkbenchInv, FinishCall, UNCHANGED <<sessionVars, viewVars, pump, gui, leaving>>
    PROVE  WorkbenchInv'
  <1>1. /\ call' = NoCall /\ result' = NoRequest /\ call # NoCall /\ wakeup' = wakeup
        /\ worker.at \in {"none", "returned"}
    BY DEF FinishCall, FinishCancel, FinishReset, RequestRefused, StartWorker, Finish, Joined, NoCall
  <1>2. \/ worker' = NoWorker
        \/ /\ call.operation = "request"
           /\ worker' = [NoWorker EXCEPT !.at = "building", !.request = call.request]
    BY <1>1 DEF FinishCall, FinishCancel, FinishReset, RequestRefused, StartWorker, Finish, JoinedWorker,
           WorkbenchInv, ReturnedQuiet
  <1>3. call.operation = "request" => gui.at = "publishing" /\ call.request = ResultOf(session)
    <2>1. gui.at \in {"publishing"} \cup Invalidating \cup {"cancelling"}
      BY <1>1 DEF WorkbenchInv, TypeOK, GuiStates, CallSound, Closing
    <2> QED
      BY <1>1, <2>1 DEF WorkbenchInv, CallSound, HandlerSound
  <1>4. /\ worker' \in WorkerStates
        /\ worker'.at = "none" => worker' = NoWorker
        /\ worker'.at # "none" => gui.at = "publishing" /\ worker'.request = ResultOf(session)
    <2>1. CASE worker' = NoWorker
      BY <2>1, NoWorkerState
    <2>2. CASE call.operation = "request"
               /\ worker' = [NoWorker EXCEPT !.at = "building", !.request = call.request]
      <3>1. gui.at = "publishing" /\ call.request = ResultOf(session) /\ session \in Sessions
        BY <1>3, <2>2 DEF WorkbenchInv, HandlerSound, TypeOK
      <3>2. call.request \in Answers
        BY <3>1 DEF ResultOf, Answers, Sessions
      <3>3. worker' \in WorkerStates /\ worker'.at = "building" /\ worker'.request = call.request
        BY <2>2, <3>2, NoWorkerState DEF WorkerStates, WorkerStage
      <3> QED
        BY <3>1, <3>3
    <2> QED
      BY <1>2, <2>1, <2>2
  <1>5. TypeOK' /\ QueueSound'
    BY <1>1, <1>4 DEF WorkbenchInv, TypeOK, QueueSound, SessionSound, sessionVars, viewVars
  <1>6. CallSound' /\ ReturnedQuiet'
    BY <1>1, <1>4 DEF WorkbenchInv, CallSound, ReturnedQuiet, Quiet, Invalidating, Closing
  <1>7. ResultsOwned'
    <2>1. gui.at # "idle"
      BY <1>1 DEF WorkbenchInv, CallSound
    <2>2. gui.at = "publishing" => session # None /\ session.state = "Finished"
      BY DEF WorkbenchInv, HandlerSound
    <2> QED
      BY <1>1, <1>4, <2>1, <2>2, NoWorkerState DEF WorkbenchInv, ResultsOwned, OwnedBy, ResultOf, sessionVars, viewVars
  <1>8. HandlerSound' /\ PresentationCurrent' /\ PumpPosted'
    BY <1>1 DEF WorkbenchInv, HandlerSound, PresentationCurrent, Listening, Snapshot,
           PumpPosted, sessionVars, viewVars
  <1> QED
    BY <1>5, <1>6, <1>7, <1>8 DEF WorkbenchInv

-----------------------------------------------------------------------------
(* The invariant, and the properties that follow from it. *)

LEMMA InitInv == Init => WorkbenchInv
  <1> SUFFICES ASSUME Init PROVE WorkbenchInv
    OBVIOUS
  <1>1. /\ session = None /\ commands = <<>> /\ runs = 0 /\ mode = "Live" /\ lastMode = "Live"
        /\ shown = None /\ completed = NoRequest /\ gui = Idle /\ leaving = FALSE
        /\ pump = [timer |-> FALSE, flag |-> FALSE, shots |-> 0]
        /\ call = NoCall /\ result = NoRequest /\ worker = NoWorker /\ wakeup = TRUE
    BY DEF Init, FinalizerInit
  <1>2. gui \in GuiStates /\ gui.at = "idle" /\ ~ gui.reset
    BY <1>1, HandlerNames
  <1>3. pump \in PumpStates /\ ~ pump.timer /\ ~ pump.flag
    BY <1>1 DEF PumpStates
  <1>4. TypeOK /\ QueueSound
    <2>1. commands \in Seq(GuiCommand) /\ runs \in Nat
      BY <1>1
    <2>4. leaving \in BOOLEAN /\ wakeup \in BOOLEAN
      BY <1>1, Zenon
    <2>2. mode \in GuiRunMode /\ lastMode \in GuiRunMode
      BY <1>1 DEF GuiRunMode
    <2>3. worker \in WorkerStates
      BY <1>1, NoWorkerState
    <2> QED
      BY <1>1, <1>2, <1>3, <2>1, <2>2, <2>3, <2>4 DEF TypeOK, QueueSound
  <1>5. CallSound /\ ReturnedQuiet /\ ResultsOwned
    BY <1>1, <1>2 DEF CallSound, ReturnedQuiet, ResultsOwned, Quiet, Invalidating, Closing
  <1>6. HandlerSound /\ PresentationCurrent /\ PumpPosted
    BY <1>1, <1>2, <1>3 DEF HandlerSound, PresentationCurrent, PumpPosted
  <1> QED
    BY <1>4, <1>5, <1>6 DEF WorkbenchInv

LEMMA NextInv ==
    ASSUME WorkbenchInv, [Next]_vars
    PROVE  WorkbenchInv'
  <1>1. CASE UserStep
    <2>1. CASE \E command \in GuiCommand : Enqueue(command)
      BY <2>1, EnqueueInv
    <2>2. CASE \E m \in GuiRunMode : SetMode(m)
      BY <2>2, SetModeInv
    <2>3. CASE BeginReplace \/ BeginClose
      BY <2>3, BeginReplaceOrCloseInv
    <2>4. CASE ReplaceFails
      BY <2>4, ReplaceFailsInv
    <2>5. CASE BeginApply \/ BeginApplyAndSave
      BY <2>5, BeginApplyInv
    <2>6. CASE BeginSaveClean
      BY <2>6, BeginSaveCleanInv
    <2>7. CASE CloseWindow
      BY <2>7, BeginShutdownInv DEF CloseWindow
    <2> QED
      BY <1>1, <2>1, <2>2, <2>3, <2>4, <2>5, <2>6, <2>7 DEF UserStep
  <1>2. CASE HandlerStep
    BY <1>2, AfterRequestInv, AfterResetInv, FinishReplaceInv, FinishCloseInv, FinishApplyInv, ClosingInv
    DEF HandlerStep
  <1>3. CASE ContinuationFires \/ LiveTimerFires
    BY <1>3, ProcessOnceInv
  <1>4. CASE ProcessBackgroundPublication
    BY <1>4, PublicationInv
  <1>5. CASE FinalizerStep
    BY <1>5, WorkerStepInv, FinishCallInv DEF FinalizerStep
  <1>6. CASE UNCHANGED vars
    <2>1. UNCHANGED <<sessionVars, viewVars, pump, gui, leaving, call, result, worker, wakeup>>
      BY <1>6 DEF vars, finalizerVars
    <2>2. TypeOK' /\ QueueSound' /\ CallSound' /\ ReturnedQuiet' /\ ResultsOwned'
      BY <2>1 DEF WorkbenchInv, TypeOK, QueueSound, SessionSound, CallSound, ReturnedQuiet, ResultsOwned,
             Quiet, OwnedBy, ResultOf, sessionVars, viewVars
    <2>3. HandlerSound' /\ PresentationCurrent' /\ PumpPosted'
      BY <2>1 DEF WorkbenchInv, HandlerSound, PresentationCurrent, Listening, Snapshot, ResultOf,
             PumpPosted, sessionVars, viewVars
    <2> QED
      BY <2>2, <2>3 DEF WorkbenchInv
  <1> QED
    BY <1>1, <1>2, <1>3, <1>4, <1>5, <1>6 DEF Next

LEMMA InvariantHolds == Spec => []WorkbenchInv
  BY InitInv, NextInv, PTL DEF Spec

\* Whatever the user does, in any number of sessions: between two events the cached result
\* is that of the finished run on screen (invalidate_completed_results(), publish_ready()).
THEOREM ResultStaysOfShownRun == Spec => []ResultIsOfShownRun
  <1>1. WorkbenchInv => ResultIsOfShownRun
    BY HandlerNames DEF WorkbenchInv, ResultsOwned, ResultIsOfShownRun, Listening, OwnedBy
  <1> QED
    BY <1>1, InvariantHolds, PTL

\* Whatever publications the rate limit skipped, a session that does not run is on screen as
\* it is (should_publish()).
THEOREM PresentationStaysCurrent == Spec => []PresentationCurrent
  <1>1. WorkbenchInv => PresentationCurrent
    BY DEF WorkbenchInv
  <1> QED
    BY <1>1, InvariantHolds, PTL

\* At whatever stage the worker was, it is gone with its result when shutdown() has returned.
THEOREM NoThreadSurvivesShutdown == Spec => []NoThreadOutlivesShutdown
  <1>1. WorkbenchInv => NoThreadOutlivesShutdown
    BY DEF WorkbenchInv, CallSound, ReturnedQuiet, Quiet, NoThreadOutlivesShutdown
  <1> QED
    BY <1>1, InvariantHolds, PTL

-----------------------------------------------------------------------------
(* What drives a session, and the cached progress. *)

\* A handler's end leaves the pump as the session needs it when no command is queued.
LEMMA SettleDrives ==
    ASSUME WorkbenchInv, NEW p \in PumpStates, p.flag => p.shots > 0, Settle(p, session'),
           commands' = <<>>, mode' = mode
    PROVE  DriveInv'
  <1>1. /\ pump'.timer => session' # None /\ session'.state = "Running" /\ mode = "Live"
        /\ session' # None /\ session'.state = "Running" => pump'.timer \/ pump'.shots > 0
        /\ gui'.at = "idle"
    BY SettleInv DEF WorkbenchInv
  <1> QED
    BY <1>1 DEF DriveInv, Busy, NeedsUpdate

\* Every operation but the two exceptions keeps a busy session driven.
LEMMA DriveStep ==
    ASSUME "replaceFails" \notin Operations, "applyAndSave" \notin Operations,
           WorkbenchInv, DriveInv, [Next]_vars
    PROVE  DriveInv'
  <1>1. pump \in PumpStates /\ (pump.flag => pump.shots > 0) /\ mode \in GuiRunMode
    BY DEF WorkbenchInv, TypeOK, PumpPosted
  <1>2. ASSUME NEW command \in GuiCommand, Enqueue(command) PROVE DriveInv'
    <2>1. /\ pump' = ScheduleImmediate(pump) /\ gui = Idle
          /\ UNCHANGED <<session, mode, gui>>
      BY <1>2 DEF Enqueue, Listening, viewVars
    <2>2. (pump'.timer <=> pump.timer) /\ pump'.shots > 0 /\ gui.at = "idle"
      BY <1>1, <2>1, ScheduledImmediately, HandlerNames
    <2> QED
      BY <2>1, <2>2 DEF DriveInv
  <1>3. ASSUME NEW m \in GuiRunMode, SetMode(m) PROVE DriveInv'
    <2>1. /\ pump' = ScheduleForRunState(pump, session, m) /\ mode' = m /\ gui = Idle
          /\ UNCHANGED <<session, commands, gui>>
      BY <1>3 DEF SetMode, Listening, sessionVars
    <2>2. /\ pump' \in PumpStates /\ pump'.shots >= pump.shots /\ gui.at = "idle"
          /\ pump'.timer => session # None /\ session.state = "Running" /\ m = "Live"
          /\ session # None /\ session.state = "Running" => pump'.timer \/ pump'.shots > 0
      BY <1>1, <2>1, Scheduled, HandlerNames
    <2>3. pump.shots \in Nat /\ pump'.shots \in Nat
      BY <1>1, <2>2 DEF PumpStates
    <2> QED
      BY <2>1, <2>2, <2>3 DEF DriveInv, Busy, NeedsUpdate
  <1>4. CASE BeginReplace \/ BeginClose
    <2>1. gui'.at \in {"replacing", "closing"}
      BY <1>4, HandlerNames DEF BeginReplace, BeginClose, BeginInvalidation, Invalidating
    <2> QED
      BY <2>1 DEF DriveInv
  <1>5. CASE BeginApply
    <2>1. /\ gui = Idle /\ session # None /\ session.state # "Running"
          /\ \E base \in {session, Unconfigured} : session' = Applied(base, runs + 1)
          /\ commands' = <<>> /\ UNCHANGED pump /\ gui' = At("applying")
      BY <1>5 DEF BeginApply, BeginInvalidation, Listening
    <2>2. session'.state = "Paused" /\ gui.at = "idle" /\ gui'.at = "applying"
      BY <2>1, HandlerNames DEF Applied, Invalidating
    <2> QED
      BY <2>1, <2>2 DEF DriveInv, Busy, NeedsUpdate
  <1>6. CASE BeginSaveClean
    <2>1. gui = Idle /\ gui' = At("saving") /\ UNCHANGED <<session, commands, pump, mode>>
      BY <1>6 DEF BeginSaveClean, BeginInvalidation, Listening, sessionVars, viewVars
    <2>2. gui.at = "idle" /\ gui'.at = "saving"
      BY <2>1, HandlerNames DEF Invalidating
    <2> QED
      BY <2>1, <2>2 DEF DriveInv, Busy, NeedsUpdate
  <1>7. CASE BeginShutdown
    <2>1. gui'.at = "leaving"
      BY <1>7, HandlerNames DEF BeginShutdown, Closing
    <2> QED
      BY <2>1 DEF DriveInv
  <1>8. CASE AfterRequest
    <2>1. commands = <<>> /\ UNCHANGED <<session, commands, mode>>
      BY <1>8 DEF AfterRequest, WorkbenchInv, HandlerSound, sessionVars
    <2>2. CASE gui' = At("resetting")
      BY <2>2, HandlerNames DEF DriveInv, Invalidating
    <2>3. CASE Settle(pump, session)
      <3>1. Settle(pump, session')
        BY <2>1, <2>3
      <3> QED
        BY <1>1, <2>1, <3>1, SettleDrives
    <2> QED
      BY <1>8, <2>2, <2>3 DEF AfterRequest
  <1>9. CASE AfterReset
    <2>1. commands = <<>> /\ UNCHANGED <<session, commands, mode>> /\ Settle(pump, session)
      BY <1>9 DEF AfterReset, WorkbenchInv, HandlerSound, sessionVars
    <2>2. Settle(pump, session')
      BY <2>1
    <2> QED
      BY <1>1, <2>1, <2>2, SettleDrives
  <1>10. CASE FinishReplace
    <2>1. /\ ~ pump'.timer /\ commands' = <<>> /\ gui'.at = "idle"
          /\ session' = Applied(Unconfigured, runs + 1) \/ session' = Unconfigured
      BY <1>10, HandlerNames DEF FinishReplace, EndInvalidation, WorkbenchInv, PumpPosted
    <2>2. session'.state # "Running"
      BY <2>1 DEF Applied, Unconfigured
    <2> QED
      BY <2>1, <2>2 DEF DriveInv, Busy, NeedsUpdate
  <1>11. CASE FinishClose
    <2>1. ~ pump'.timer /\ session' = None /\ gui'.at = "idle"
      BY <1>11, HandlerNames DEF FinishClose, EndInvalidation, WorkbenchInv, PumpPosted
    <2> QED
      BY <2>1 DEF DriveInv, Busy
  <1>12. CASE FinishApply \/ FinishSave
    <2>1. /\ gui.at \in {"applying", "saving"} /\ gui'.at = "idle"
          /\ UNCHANGED <<session, commands, pump, mode>>
      BY <1>12, HandlerNames DEF FinishApply, FinishSave, EndInvalidation, sessionVars
    <2> QED
      BY <2>1 DEF DriveInv, Busy, NeedsUpdate
  <1>13. CASE CancelBackgroundWork \/ ShutdownReturns
    <2>1. gui'.at \in {"cancelling", "closed"}
      BY <1>13, HandlerNames DEF CancelBackgroundWork, ShutdownReturns, Closing
    <2> QED
      BY <2>1 DEF DriveInv
  <1>14. ASSUME NEW p \in PumpStates, p.flag => p.shots > 0, ProcessOnce(p) PROVE DriveInv'
    <2>1. CASE NothingToUpdate(p)
      <3>1. /\ ~ Busy /\ pump' = ScheduleForRunState(p, session, mode)
            /\ UNCHANGED <<session, commands, gui, mode>>
        BY <2>1 DEF NothingToUpdate, sessionVars, viewVars
      <3>2. pump'.timer => session # None /\ session.state = "Running" /\ mode = "Live"
        BY <1>1, <1>14, <3>1, Scheduled
      <3> QED
        BY <3>1, <3>2 DEF DriveInv, Busy, NeedsUpdate
    <2>2. CASE Update(p)
      <3>1. PICK u : UpdateStep(p, u)
        BY <2>2 DEF Update, UpdateStep
      <3>2. CASE RequestFinishedRun(u, p) \/ InvalidateAfterReset(u, p)
        <4>1. gui'.at \in {"publishing", "resetting"}
          BY <3>2, HandlerNames DEF RequestFinishedRun, InvalidateAfterReset, Invalidating
        <4> QED
          BY <4>1 DEF DriveInv
      <3>3. CASE NothingToCall(u, p)
        <4>1. Settle(p, session') /\ commands' = <<>> /\ mode' = mode
          BY <3>1, <3>3 DEF UpdateStep, NothingToCall
        <4> QED
          BY <1>14, <4>1, SettleDrives
      <3> QED
        BY <3>1, <3>2, <3>3 DEF UpdateStep
    <2> QED
      BY <1>7, <1>14, <2>1, <2>2 DEF ProcessOnce, UpdateThrows
  <1>15. CASE ContinuationFires
    <2> DEFINE p == [pump EXCEPT !.flag = FALSE, !.shots = @ - 1]
    <2>1. p \in PumpStates /\ ~ p.flag /\ ProcessOnce(p)
      BY <1>15, ContinuationPump DEF ContinuationFires, WorkbenchInv
    <2> QED
      BY <1>14, <2>1
  <1>16. CASE LiveTimerFires
    BY <1>1, <1>14, <1>16 DEF LiveTimerFires
  <1>17. CASE ProcessBackgroundPublication \/ FinalizerStep \/ UNCHANGED vars
    <2>1. UNCHANGED <<session, commands, pump, mode, gui>>
      BY <1>17 DEF ProcessBackgroundPublication, FinalizerStep, vars, sessionVars, viewVars
    <2> QED
      BY <2>1 DEF DriveInv, Busy, NeedsUpdate
  <1>18. CASE UserStep
    BY <1>18, <1>2, <1>3, <1>4, <1>5, <1>6, <1>7 DEF UserStep, CloseWindow
  <1>19. CASE HandlerStep
    BY <1>19, <1>8, <1>9, <1>10, <1>11, <1>12, <1>13 DEF HandlerStep
  <1> QED
    BY <1>15, <1>16, <1>17, <1>18, <1>19 DEF Next

\* Without failed replacements and saved edits a session with something to do always has the
\* timer or a posted call, and the timer only while it runs in Live mode
\* (schedule_immediate(), schedule_for_run_state()).
THEOREM PumpStaysSound ==
    ASSUME "replaceFails" \notin Operations, "applyAndSave" \notin Operations
    PROVE  Spec => []PumpSound
  <1>1. Init => DriveInv
    <2> SUFFICES ASSUME Init PROVE DriveInv
      OBVIOUS
    <2>1. /\ session = None /\ ~ pump.timer /\ gui.at = "idle"
      BY HandlerNames DEF Init
    <2> QED
      BY <2>1 DEF DriveInv, Busy
  <1>2. WorkbenchInv /\ DriveInv /\ [Next]_vars => DriveInv'
    BY DriveStep
  <1>3. DriveInv => PumpSound
    BY HandlerNames DEF DriveInv, PumpSound, PumpAlive, TimerOnlyWhileRunning, Listening
  <1> QED
    BY <1>1, <1>2, <1>3, InvariantHolds, PTL DEF Spec

\* Every operation but the saving of an edited system renews the cached progress.
LEMMA ProgressStep ==
    ASSUME "applyAndSave" \notin Operations, ProgressInv, [Next]_vars
    PROVE  ProgressInv'
  <1>1. ASSUME UNCHANGED <<session, progress>>, gui'.at = gui.at \/ gui.at = "idle"
        PROVE  ProgressInv'
    BY <1>1 DEF ProgressInv, Progress
  <1>2. ASSUME progress' = Progress(session') PROVE ProgressInv'
    BY <1>2 DEF ProgressInv, Progress
  <1>3. ASSUME gui'.at \notin {"idle", "publishing", "resetting", "saving"} PROVE ProgressInv'
    BY <1>3 DEF ProgressInv
  <1>4. CASE UserStep
    <2>1. CASE (\E command \in GuiCommand : Enqueue(command))
               \/ (\E m \in GuiRunMode : SetMode(m)) \/ ReplaceFails
      BY <1>1, <2>1 DEF Enqueue, SetMode, ReplaceFails, sessionVars, viewVars
    <2>2. CASE BeginReplace \/ BeginClose \/ BeginApply \/ CloseWindow
      <3>1. gui'.at \in {"replacing", "closing", "applying", "leaving"}
        BY <2>2, HandlerNames DEF BeginReplace, BeginClose, BeginApply, CloseWindow, BeginShutdown,
               BeginInvalidation, Invalidating, Closing
      <3> QED
        BY <1>3, <3>1
    <2>3. CASE BeginSaveClean
      <3>1. UNCHANGED <<session, progress>> /\ gui.at = "idle"
        BY <2>3, HandlerNames DEF BeginSaveClean, BeginInvalidation, Listening, sessionVars, viewVars
      <3> QED
        BY <1>1, <3>1
    <2> QED
      BY <1>4, <2>1, <2>2, <2>3 DEF UserStep
  <1>5. CASE AfterRequest \/ AfterReset \/ FinishSave
    <2>1. UNCHANGED <<session, progress>> /\ gui.at \in {"publishing", "resetting", "saving"}
      BY <1>5 DEF AfterRequest, AfterReset, FinishSave, EndInvalidation, sessionVars
    <2> QED
      BY <2>1 DEF ProgressInv, Progress
  <1>6. CASE FinishReplace \/ FinishApply
    BY <1>2, <1>6 DEF FinishReplace, FinishApply, sessionVars
  <1>7. CASE FinishClose
    BY <1>7 DEF FinishClose, ProgressInv
  <1>8. CASE CancelBackgroundWork \/ ShutdownReturns
    <2>1. gui'.at \in {"cancelling", "closed"}
      BY <1>8, HandlerNames DEF CancelBackgroundWork, ShutdownReturns, Closing
    <2> QED
      BY <1>3, <2>1
  <1>9. ASSUME NEW p, ProcessOnce(p) PROVE ProgressInv'
    <2>1. CASE NothingToUpdate(p)
      BY <1>1, <2>1 DEF NothingToUpdate, sessionVars, viewVars
    <2>2. CASE Update(p)
      BY <1>2, <2>2 DEF Update
    <2>3. CASE UpdateThrows
      <3>1. gui'.at = "leaving"
        BY <2>3, HandlerNames DEF UpdateThrows, BeginShutdown, Closing
      <3> QED
        BY <1>3, <3>1
    <2> QED
      BY <1>9, <2>1, <2>2, <2>3 DEF ProcessOnce
  <1>10. CASE ContinuationFires \/ LiveTimerFires
    BY <1>9, <1>10 DEF ContinuationFires, LiveTimerFires
  <1>11. CASE ProcessBackgroundPublication \/ FinalizerStep \/ UNCHANGED vars
    BY <1>1, <1>11 DEF ProcessBackgroundPublication, FinalizerStep, vars, sessionVars, viewVars
  <1> QED
    BY <1>4, <1>5, <1>6, <1>7, <1>8, <1>10, <1>11 DEF Next, HandlerStep

\* Unless an edited system is saved, the progress on screen is the session's own between two
\* handlers (progress_).
THEOREM ProgressStaysCurrent ==
    ASSUME "applyAndSave" \notin Operations
    PROVE  Spec => []ProgressCurrent
  <1>1. Init => ProgressInv
    BY DEF Init, ProgressInv
  <1>2. ProgressInv /\ [Next]_vars => ProgressInv'
    BY ProgressStep
  <1>3. ProgressInv => ProgressCurrent
    BY HandlerNames DEF ProgressInv, ProgressCurrent, Listening
  <1> QED
    BY <1>1, <1>2, <1>3, PTL DEF Spec

=============================================================================
