-------------------------- MODULE FunctionalProofs --------------------------
(***************************************************************************)
(* Proofs about the engine with a functional model, for every valid        *)
(* configuration and every answer of the adapter: rows are complete and in *)
(* order, actions are seen a tick later, no tick runs without a model, and *)
(* the offline replay of a trace gives the rows of the run.                *)
(*                                                                         *)
(* Both runtimes, the online one and the replay's, are explained by the    *)
(* trace alone: a row's value is the number of events before its tick.     *)
(***************************************************************************)
EXTENDS FunctionalEngine, EngineProofs, FiniteSetTheorems

-----------------------------------------------------------------------------
(* The inductive invariant. *)

Processing == {"settle", "publish", "release", "schedule", "act"}

\* The clock stays in the horizon, the trace is in order of ticks up to the clock, and a
\* release being processed is of this tick.
ClockInv ==
    /\ tick <= config.stop
    /\ \A k \in DOMAIN trace : trace[k].tick <= tick
    /\ \A i, k \in DOMAIN trace : i <= k => trace[i].tick <= trace[k].tick
    /\ stage = "release" => \A e \in batch : e.tick = tick

\* The rows of a runtime are the ticks from zero to its own.
RowsComplete(f) ==
    /\ f \in Functional
    /\ \A i \in DOMAIN f.runtime.rows : f.runtime.rows[i].tick = i - 1
    /\ IF f.runtime.status = "created" THEN f.runtime = NewFunctional.runtime
                                       ELSE Len(f.runtime.rows) = f.runtime.tick + 1

\* The first n events of s, and no others, precede tick t.
CountsBefore(s, t, n) ==
    /\ n <= Len(s)
    /\ \A k \in 1 .. n : s[k].tick < t
    /\ \A k \in n + 1 .. Len(s) : s[k].tick >= t

\* Each row of f counts the events of s before its tick.
RowsCount(f, s) ==
    \A i \in DOMAIN f.runtime.rows :
        CountsBefore(s, f.runtime.rows[i].tick, f.runtime.rows[i].value)

\* Runtime and model are both active and at the same tick.
InStep(f) ==
    /\ f.runtime.status = "active" /\ f.model.status = "active"
    /\ f.model.tick = f.runtime.tick
    /\ ~ f.thrown

\* What the model knows of the trace, or will know a tick later.
Known(f) == f.model.state + f.model.pending

\* A model that has seen nothing and to which nothing was told.
Untold(f) == f.model.state = 0 /\ f.model.pending = 0

\* Nothing has happened, with or without a model.
Unstarted == trace = <<>> /\ tick = 0 /\ jobs = <<>>

\* During a tick the model knows the events of earlier ticks; those since action_begin are
\* of this one and will be told at its end.
ModelInTick ==
    stage \in Processing =>
        /\ InStep(online) /\ online.runtime.tick = tick
        /\ begin <= Len(trace)
        /\ \A k \in begin + 1 .. Len(trace) : trace[k].tick = tick
        /\ ~ online.runtime.applied =>
               /\ online.model.state = begin /\ online.model.pending = 0
               /\ \A k \in 1 .. begin : trace[k].tick < tick

\* Between two ticks it knows all events.
ModelBetweenTicks ==
    stage = "between" /\ HasModel =>
        /\ InStep(online) /\ online.runtime.tick = tick
        /\ Known(online) = Len(trace)
        /\ ~ online.runtime.applied => trace = <<>> /\ Untold(online)

\* The online model.
ModelInv ==
    /\ stage = "initialize" => online = NewFunctional
    /\ ~ HasModel => stage \in {"initialize", "between"} /\ Unstarted
    /\ ModelInTick
    /\ ModelBetweenTicks
    /\ stage = "finished" =>
           /\ online.runtime.status = "finalized" /\ online.model.status = "finalized"
           /\ online.runtime.tick = config.stop /\ tick = config.stop

\* The replay has told its model the events it has grouped, all of ticks it has passed.
ReplayInv ==
    /\ ~ replay.thrown
    /\ replay.runtime.status = "created" => replay = NewFunctional /\ replayed = 0
    /\ replay.runtime.status # "created" => stage = "finished"
    /\ replay.runtime.status = "active" =>
           /\ InStep(replay) /\ replay.runtime.tick <= config.stop
           /\ replayed <= Len(trace) /\ Known(replay) = replayed
           /\ \A k \in 1 .. replayed : trace[k].tick <= replay.runtime.tick
           /\ IF replay.runtime.applied
              THEN \A k \in replayed + 1 .. Len(trace) : trace[k].tick > replay.runtime.tick
              ELSE replayed = 0 /\ replay.runtime.tick = 0 /\ Untold(replay)
    /\ replay.runtime.status = "finalized" => replay.runtime.tick = config.stop

FunctionalInv ==
    /\ StateInv
    /\ begin \in Nat /\ replayed \in Nat
    /\ RowsComplete(online) /\ RowsCount(online, trace)
    /\ RowsComplete(replay) /\ RowsCount(replay, trace)
    /\ ~ coupled => online = NewFunctional /\ replay = NewFunctional
    /\ coupled => ClockInv /\ ModelInv /\ ReplayInv

-----------------------------------------------------------------------------
(* The runtime and the model as values. *)

LEMMA FunctionalFields ==
    ASSUME NEW f \in Functional
    PROVE  /\ f.runtime \in Runtime /\ f.model \in Model /\ f.thrown \in BOOLEAN
           /\ f.runtime.status \in Lifecycle /\ f.runtime.tick \in Nat
           /\ f.runtime.applied \in BOOLEAN /\ f.runtime.rows \in Seq(Row)
           /\ f.model.status \in Lifecycle /\ f.model.tick \in Nat
           /\ f.model.state \in Nat /\ f.model.pending \in Nat
    BY DEF Functional, Runtime, Model

\* A runtime that has not been used.
LEMMA NewIsFunctional ==
    ASSUME NEW s
    PROVE  /\ NewFunctional \in Functional
           /\ RowsComplete(NewFunctional) /\ RowsCount(NewFunctional, s)
    <1>1. NewFunctional \in Functional
        BY DEF NewFunctional, Functional, Runtime, Model, Lifecycle
    <1>. QED  BY <1>1 DEF NewFunctional, RowsComplete, RowsCount

\* The model's rows are of the ticks up to the target.
LEMMA RowsOfTheModel ==
    ASSUME NEW f \in Functional, NEW target \in Nat, f.model.tick <= target
    PROVE  /\ ModelRows(f.model, target) \in Seq(Row)
           /\ Len(ModelRows(f.model, target)) = target - f.model.tick
           /\ \A i \in 1 .. Len(ModelRows(f.model, target)) :
                  /\ ModelRows(f.model, target)[i].tick = f.model.tick + i
                  /\ ModelRows(f.model, target)[i].value = Known(f)
    <1>. DEFINE n == target - f.model.tick
                row(i) == [tick |-> f.model.tick + i, value |-> f.model.state + f.model.pending]
    <1>1. n \in Nat /\ \A i \in 1 .. n : row(i) \in Row
        BY FunctionalFields DEF Row
    <1>2. ModelRows(f.model, target) = [i \in 1 .. n |-> row(i)]
        BY DEF ModelRows
    <1>3. \A i \in 1 .. n : row(i).tick = f.model.tick + i /\ row(i).value = Known(f)
        BY DEF Known
    <1>. HIDE DEF n, row
    <1>4. [i \in 1 .. n |-> row(i)] \in Seq(Row) /\ Len([i \in 1 .. n |-> row(i)]) = n
        BY <1>1
    <1>. QED  BY <1>1, <1>2, <1>3, <1>4 DEF n

\* Rows that pass the runtime's validation are the model's own.
LEMMA ValidRowsAreTheModels ==
    ASSUME NEW f \in Functional, NEW target \in Nat, NEW answer \in Answer,
           f.model.tick = f.runtime.tick, f.runtime.tick < target,
           ValidRows(f.runtime, target, Malformed(ModelRows(f.model, target), answer))
    PROVE  Malformed(ModelRows(f.model, target), answer) = ModelRows(f.model, target)
    <1>. DEFINE rows == ModelRows(f.model, target)
    <1>1. f.runtime.tick \in Nat /\ f.model.tick \in Nat /\ f.model.state \in Nat
          /\ f.model.pending \in Nat
        BY FunctionalFields
    <1>2. /\ rows \in Seq(Row) /\ Len(rows) = target - f.runtime.tick /\ Len(rows) > 0
          /\ \A i \in 1 .. Len(rows) : rows[i].tick = f.runtime.tick + i
        <2>1. f.model.tick <= target
            BY <1>1
        <2>2. /\ rows \in Seq(Row) /\ Len(rows) = target - f.model.tick
              /\ \A i \in 1 .. Len(rows) : rows[i].tick = f.model.tick + i
            BY <2>1, RowsOfTheModel
        <2>. HIDE DEF rows
        <2>. QED  BY <1>1, <2>2
    <1>. HIDE DEF rows
    <1>3. CASE answer = "short"
        <2>1. Malformed(rows, answer) = Tail(rows)
            BY <1>2, <1>3 DEF Malformed
        <2>2. Len(Tail(rows)) = Len(rows) - 1
            BY <1>2
        <2>. QED  BY <1>1, <1>2, <2>1, <2>2 DEF ValidRows, rows
    <1>4. CASE answer = "shifted"
        <2>1. Malformed(rows, answer) = [i \in DOMAIN rows |-> [rows[i] EXCEPT !.tick = @ + 1]]
            BY <1>4 DEF Malformed
        <2>2. 1 \in DOMAIN rows /\ rows[1] \in Row
            BY <1>2
        <2>3. Malformed(rows, answer)[1].tick = rows[1].tick + 1
            BY <2>1, <2>2 DEF Row
        <2>4. 1 \in DOMAIN Malformed(rows, answer)
            BY <2>1, <2>2
        <2>5. Malformed(rows, answer)[1].tick = f.runtime.tick + 1
            BY <2>4 DEF ValidRows, rows
        <2>. QED  BY <1>1, <1>2, <2>2, <2>3, <2>5
    <1>5. CASE answer # "short" /\ answer # "shifted"
        BY <1>5 DEF Malformed, rows
    <1>. QED  BY <1>3, <1>4, <1>5

\* g is f after its model was advanced to a later tick.
IsAdvanced(f, g, target) ==
    /\ InStep(g) /\ g.runtime.tick = target /\ ~ g.runtime.applied
    /\ g.runtime.rows = f.runtime.rows \o ModelRows(f.model, target)
    /\ g.model.state = Known(f) /\ g.model.pending = 0

\* Advancing keeps a runtime well formed; an exception leaves its record as it was.
LEMMA AdvanceType ==
    ASSUME NEW f \in Functional, NEW target \in Nat, NEW stop \in Nat, NEW answer \in Answer,
           f.runtime.status = "active" => ~ f.thrown
    PROVE  /\ AdvanceTo(f, target, stop, answer) \in Functional
           /\ AdvanceTo(f, target, stop, answer).thrown =>
                  AdvanceTo(f, target, stop, answer).runtime = f.runtime
    <1>. DEFINE rows == Malformed(ModelRows(f.model, target), answer)
                moved == [f EXCEPT !.model = ModelAdvanced(@, target)]
                recorded == [moved EXCEPT !.runtime = [f.runtime EXCEPT !.rows = @ \o rows,
                                                       !.tick = target, !.applied = FALSE]]
    <1>0. f.runtime \in Runtime /\ f.model \in Model /\ f.thrown \in BOOLEAN
          /\ f.runtime.tick \in Nat /\ f.runtime.rows \in Seq(Row)
          /\ f.model.tick \in Nat /\ f.model.state \in Nat /\ f.model.pending \in Nat
        BY FunctionalFields
    <1>1. Thrown(f) \in Functional /\ Thrown(f).runtime = f.runtime
        BY DEF Thrown, Functional
    <1>2. ModelAdvanced(f.model, target) \in Model
        <2>1. f.model.state + f.model.pending \in Nat
            BY <1>0
        <2>2. [f.model EXCEPT !.tick = target, !.state = f.model.state + f.model.pending,
                              !.pending = 0] \in Model
            BY <1>0, <2>1 DEF Model
        <2>. QED  BY <1>0, <2>2 DEF ModelAdvanced
    <1>3. moved \in Functional /\ Thrown(moved) \in Functional
          /\ Thrown(moved).runtime = f.runtime
        BY <1>0, <1>2 DEF Thrown, Functional
    <1>4. ASSUME f.runtime.tick < target, ~ ModelRefuses(f.model, target, stop)
          PROVE  rows \in Seq(Row)
        <2>1. ModelRows(f.model, target) \in Seq(Row)
            BY <1>0, <1>4, RowsOfTheModel DEF ModelRefuses
        <2>2. \A row \in Row : [row EXCEPT !.tick = @ + 1] \in Row
            BY DEF Row
        <2>. DEFINE own == ModelRows(f.model, target)
        <2>. HIDE DEF own
        <2>3. CASE answer = "short"
            BY <2>1, <2>3 DEF Malformed, own
        <2>4. CASE answer = "shifted"
            <3>1. rows = [i \in DOMAIN own |-> [own[i] EXCEPT !.tick = @ + 1]]
                BY <2>4 DEF Malformed, own
            <3>2. own \in Seq(Row) /\ DOMAIN own = 1 .. Len(own) /\ Len(own) \in Nat
                BY <2>1 DEF own
            <3>3. \A i \in 1 .. Len(own) : [own[i] EXCEPT !.tick = @ + 1] \in Row
                BY <2>2, <3>2
            <3>. QED  BY <3>1, <3>2, <3>3
        <2>5. CASE answer # "short" /\ answer # "shifted"
            BY <2>1, <2>5 DEF Malformed
        <2>. QED  BY <2>3, <2>4, <2>5
    <1>5. ASSUME rows \in Seq(Row) PROVE recorded \in Functional
        <2>1. f.runtime.rows \o rows \in Seq(Row)
            BY <1>0, <1>5
        <2>2. [f.runtime EXCEPT !.rows = @ \o rows, !.tick = target, !.applied = FALSE] \in Runtime
            BY <1>0, <2>1 DEF Runtime
        <2>3. moved \in Functional /\ moved.runtime = f.runtime
            BY <1>3 DEF Functional
        <2>. HIDE DEF moved, rows
        <2>5. \A rt \in Runtime : [moved EXCEPT !.runtime = rt] \in Functional
            BY <2>3 DEF Functional
        <2>. QED  BY <2>2, <2>5 DEF recorded
    <1>6. CASE f.runtime.status # "active" \/ target < f.runtime.tick \/ target > stop
        BY <1>0, <1>1, <1>6 DEF AdvanceTo
    <1>7. CASE f.runtime.status = "active" /\ target = f.runtime.tick /\ ~ target > stop
        <2>1. AdvanceTo(f, target, stop, answer) = f
            BY <1>0, <1>7 DEF AdvanceTo
        <2>. QED  BY <2>1
    <1>8. CASE f.runtime.status = "active" /\ target > f.runtime.tick /\ ~ target > stop
        <2>1. AdvanceTo(f, target, stop, answer) =
                  IF ModelRefuses(f.model, target, stop) \/ answer = "throws" THEN Thrown(f)
                  ELSE IF ~ ValidRows(f.runtime, target, rows) THEN Thrown(moved) ELSE recorded
            BY <1>0, <1>8 DEF AdvanceTo
        <2>2. CASE ModelRefuses(f.model, target, stop) \/ answer = "throws"
            BY <2>1, <2>2, <1>1
        <2>3. CASE ~ ModelRefuses(f.model, target, stop) /\ answer # "throws"
                   /\ ~ ValidRows(f.runtime, target, rows)
            BY <2>1, <2>3, <1>3
        <2>4. CASE ~ ModelRefuses(f.model, target, stop) /\ answer # "throws"
                   /\ ValidRows(f.runtime, target, rows)
            <3>1. recorded \in Functional
                BY <1>4, <1>5, <1>8, <2>4
            <3>2. AdvanceTo(f, target, stop, answer) = recorded
                BY <2>1, <2>4
            <3>3. ~ recorded.thrown
                BY <1>0, <1>3, <1>8 DEF Functional
            <3>. QED  BY <3>1, <3>2, <3>3
        <2>. QED  BY <2>2, <2>3, <2>4
    <1>. QED  BY <1>0, <1>6, <1>7, <1>8

\* Advancing to a later tick of the horizon either fails or appends the model's rows.
LEMMA AdvanceLater ==
    ASSUME NEW f \in Functional, InStep(f), NEW target \in Nat, NEW stop \in Nat,
           NEW answer \in Answer, f.runtime.tick < target, target <= stop
    PROVE  /\ \/ IsAdvanced(f, AdvanceTo(f, target, stop, answer), target)
              \/ AdvanceTo(f, target, stop, answer).thrown
           /\ answer = "ok" => IsAdvanced(f, AdvanceTo(f, target, stop, answer), target)
    <1>. DEFINE rows == Malformed(ModelRows(f.model, target), answer)
                moved == [f EXCEPT !.model = ModelAdvanced(@, target)]
                recorded == [moved EXCEPT !.runtime = [f.runtime EXCEPT !.rows = @ \o rows,
                                                       !.tick = target, !.applied = FALSE]]
    <1>0. f.runtime \in Runtime /\ f.model \in Model /\ ~ f.thrown
          /\ f.runtime.tick \in Nat /\ f.model.tick = f.runtime.tick
          /\ f.runtime.status = "active" /\ f.model.status = "active"
        BY FunctionalFields DEF InStep
    <1>1. ~ ModelRefuses(f.model, target, stop)
        BY <1>0 DEF ModelRefuses
    <1>2. AdvanceTo(f, target, stop, answer) =
              IF ModelRefuses(f.model, target, stop) \/ answer = "throws" THEN Thrown(f)
              ELSE IF ~ ValidRows(f.runtime, target, rows) THEN Thrown(moved) ELSE recorded
        BY <1>0 DEF AdvanceTo
    <1>3. ASSUME rows = ModelRows(f.model, target) PROVE IsAdvanced(f, recorded, target)
        <2>1. ModelAdvanced(f.model, target) =
                  [f.model EXCEPT !.tick = target, !.state = Known(f), !.pending = 0]
            BY <1>0 DEF ModelAdvanced, Known
        <2>2. moved.runtime = f.runtime /\ moved.model = ModelAdvanced(f.model, target)
              /\ moved.thrown = f.thrown
            BY DEF Functional
        <2>3. recorded.model = moved.model /\ recorded.thrown = f.thrown
            BY DEF Functional
        <2>7. "runtime" \in DOMAIN moved
            BY DEF Functional
        <2>. HIDE DEF recorded, moved, rows
        <2>4. recorded.runtime = [f.runtime EXCEPT !.rows = @ \o ModelRows(f.model, target),
                                                   !.tick = target, !.applied = FALSE]
            BY <1>3, <2>7 DEF recorded
        <2>5. /\ recorded.runtime.status = "active" /\ recorded.runtime.tick = target
              /\ ~ recorded.runtime.applied
              /\ recorded.runtime.rows = f.runtime.rows \o ModelRows(f.model, target)
            BY <1>0, <2>4 DEF Runtime
        <2>6. /\ recorded.model.status = "active" /\ recorded.model.tick = target
              /\ recorded.model.state = Known(f) /\ recorded.model.pending = 0
            BY <1>0, <2>1, <2>2, <2>3 DEF Model
        <2>. QED  BY <1>0, <2>3, <2>5, <2>6 DEF IsAdvanced, InStep
    <1>5. Thrown(f).thrown /\ Thrown(moved).thrown
        BY DEF Thrown, Functional
    <1>6. CASE answer = "throws"
        BY <1>2, <1>5, <1>6
    <1>7. CASE answer # "throws" /\ ~ ValidRows(f.runtime, target, rows)
        <2>1. AdvanceTo(f, target, stop, answer) = Thrown(moved)
            BY <1>1, <1>2, <1>7
        <2>2. answer # "ok"
            <3>1. rows = ModelRows(f.model, target) \/ answer # "ok"
                BY DEF Malformed
            <3>2. f.model.tick <= target /\ DOMAIN ModelRows(f.model, target) =
                                                1 .. Len(ModelRows(f.model, target))
                BY <1>0, RowsOfTheModel
            <3>3. ValidRows(f.runtime, target, ModelRows(f.model, target))
                BY <1>0, <3>2, RowsOfTheModel DEF ValidRows
            <3>. QED  BY <1>7, <3>1, <3>3
        <2>. QED  BY <1>5, <2>1, <2>2
    <1>8. CASE answer # "throws" /\ ValidRows(f.runtime, target, rows)
        <2>1. AdvanceTo(f, target, stop, answer) = recorded
            BY <1>1, <1>2, <1>8
        <2>2. rows = ModelRows(f.model, target)
            BY <1>0, <1>8, ValidRowsAreTheModels
        <2>. QED  BY <1>3, <2>1, <2>2
    <1>. QED  BY <1>6, <1>7, <1>8

\* Advancing to the present tick changes nothing.
LEMMA AdvanceNowhere ==
    ASSUME NEW f \in Functional, InStep(f), NEW stop \in Nat, NEW answer, f.runtime.tick <= stop
    PROVE  AdvanceTo(f, f.runtime.tick, stop, answer) = f
    BY FunctionalFields DEF AdvanceTo, InStep

\* A started model has delivered the row of tick zero; a failed start has recorded nothing.
LEMMA InitializeOutcome ==
    ASSUME NEW answer \in Answer
    PROVE  LET g == Initialize(NewFunctional, answer)
           IN  /\ g \in Functional
               /\ \/ g.thrown /\ g.runtime = NewFunctional.runtime /\ answer # "ok"
                  \/ /\ InStep(g) /\ g.runtime.tick = 0 /\ ~ g.runtime.applied /\ Untold(g)
                     /\ g.runtime.rows = <<[tick |-> 0, value |-> 0]>>
    <1>. DEFINE first == <<[tick |-> 0, value |-> 0]>>
                row == Malformed(first, answer)
                f == NewFunctional
                g == Initialize(f, answer)
                failed == [f EXCEPT !.model = ModelStarted(@), !.thrown = TRUE]
                started == [f EXCEPT !.model = ModelStarted(@),
                                     !.runtime = [@ EXCEPT !.status = "active", !.rows = row]]
    <1>1. /\ f.runtime.status = "created" /\ f.model.status = "created"
          /\ f.model.state = 0 /\ f.model.pending = 0 /\ f.model.tick = 0
          /\ f.runtime.tick = 0 /\ ~ f.runtime.applied /\ ~ f.thrown
          /\ f \in Functional
        BY NewIsFunctional DEF NewFunctional
    <1>2. g = IF answer = "throws" THEN Thrown(f)
              ELSE IF row = <<>> \/ row[1].tick # 0 THEN failed ELSE started
        BY <1>1 DEF Initialize
    <1>3. Thrown(f) \in Functional /\ Thrown(f).thrown /\ Thrown(f).runtime = f.runtime
        BY <1>1 DEF Thrown, Functional
    <1>4. f.model \in Model /\ f.runtime \in Runtime /\ ModelStarted(f.model) \in Model
        BY <1>1, FunctionalFields DEF ModelStarted, Model, Lifecycle
    <1>5. failed \in Functional /\ failed.thrown /\ failed.runtime = f.runtime
        BY <1>1, <1>4 DEF Functional
    <1>6. CASE answer = "throws"
        BY <1>2, <1>3, <1>6
    <1>7. CASE answer = "short"
        <2>1. row = <<>>
            <3>1. first # <<>> /\ Tail(first) = <<>>
                OBVIOUS
            <3>. QED  BY <1>7, <3>1 DEF Malformed
        <2>. QED  BY <1>2, <1>5, <1>7, <2>1
    <1>8. CASE answer = "shifted"
        <2>1. row = [i \in DOMAIN first |-> [first[i] EXCEPT !.tick = @ + 1]]
            BY <1>8 DEF Malformed
        <2>2. row[1].tick = 1
            <3>1. 1 \in DOMAIN first /\ first[1] = [tick |-> 0, value |-> 0]
                OBVIOUS
            <3>. QED  BY <2>1, <3>1
        <2>. HIDE DEF failed, started, first, row
        <2>3. g = failed
            BY <1>2, <1>8, <2>2
        <2>. QED  BY <1>5, <1>8, <2>3
    <1>9. CASE answer = "ok"
        <2>1. row = first
            BY <1>9 DEF Malformed
        <2>2. first # <<>> /\ first[1].tick = 0 /\ first \in Seq(Row)
            BY DEF Row
        <2>3. g = started
            BY <1>2, <1>9, <2>1, <2>2
        <2>4. [f.runtime EXCEPT !.status = "active", !.rows = first] \in Runtime
            BY <1>4, <2>2 DEF Runtime, Lifecycle
        <2>5. started \in Functional
            BY <1>1, <1>4, <2>1, <2>4 DEF Functional
        <2>6. /\ started.runtime.status = "active" /\ started.runtime.tick = 0
              /\ ~ started.runtime.applied /\ started.runtime.rows = first
              /\ started.model.status = "active" /\ started.model.tick = 0
              /\ started.model.state = 0 /\ started.model.pending = 0 /\ ~ started.thrown
            BY <1>1, <1>4, <2>1 DEF Functional, ModelStarted, NewFunctional
        <2>. QED  BY <2>3, <2>5, <2>6 DEF InStep, Untold
    <1>. QED  BY <1>6, <1>7, <1>8, <1>9 DEF Answer

\* Telling the model a batch leaves the rows as they are; it is refused or counted once.
LEMMA ApplyOutcome ==
    ASSUME NEW f \in Functional, InStep(f), NEW now, NEW ticks, Len(ticks) \in Nat,
           NEW answer \in Answer
    PROVE  LET g == ApplyActions(f, now, ticks, answer)
           IN  /\ g \in Functional
               /\ \/ g.thrown /\ g.runtime = f.runtime
                  \/ /\ InStep(g) /\ g.runtime.applied /\ ~ f.runtime.applied
                     /\ g.runtime.tick = f.runtime.tick /\ g.runtime.rows = f.runtime.rows
                     /\ g.model.state = f.model.state /\ g.model.pending = Len(ticks)
               /\ /\ now = f.runtime.tick /\ ~ f.runtime.applied /\ answer = "ok"
                  /\ \A i \in DOMAIN ticks : ticks[i] = now
                  => ~ g.thrown
    <1>. DEFINE g == ApplyActions(f, now, ticks, answer)
                told == [f EXCEPT !.model = ModelTold(@, Len(ticks)), !.runtime.applied = TRUE]
                refused == \/ now # f.runtime.tick \/ f.runtime.applied
                           \/ \E i \in DOMAIN ticks : ticks[i] # now
                           \/ answer = "throws"
    <1>1. /\ f.runtime \in Runtime /\ f.model \in Model /\ ~ f.thrown /\ f.thrown \in BOOLEAN
          /\ f.model.tick = f.runtime.tick
          /\ f.runtime.status = "active" /\ f.model.status = "active"
        BY FunctionalFields DEF InStep
    <1>2. g = IF refused THEN Thrown(f) ELSE told
        BY <1>1 DEF ApplyActions
    <1>3. Thrown(f) \in Functional /\ Thrown(f).thrown /\ Thrown(f).runtime = f.runtime
        BY DEF Thrown, Functional
    <1>4. ModelTold(f.model, Len(ticks)) \in Model
        BY <1>1 DEF ModelTold, Model
    <1>5. [f.runtime EXCEPT !.applied = TRUE] \in Runtime
        BY <1>1 DEF Runtime
    <1>6. told \in Functional
        BY <1>1, <1>4, <1>5 DEF Functional
    <1>7. /\ told.runtime = [f.runtime EXCEPT !.applied = TRUE] /\ ~ told.thrown
          /\ told.model = [f.model EXCEPT !.pending = Len(ticks)]
        BY <1>1 DEF Functional, ModelTold
    <1>. HIDE DEF told
    <1>8. /\ told.runtime.status = "active" /\ told.runtime.applied
          /\ told.runtime.tick = f.runtime.tick /\ told.runtime.rows = f.runtime.rows
        BY <1>1, <1>7 DEF Runtime
    <1>9. /\ told.model.status = "active" /\ told.model.tick = f.model.tick
          /\ told.model.state = f.model.state /\ told.model.pending = Len(ticks)
        BY <1>1, <1>7 DEF Model
    <1>10. InStep(told)
        BY <1>1, <1>7, <1>8, <1>9 DEF InStep
    <1>. HIDE DEF g
    <1>11. CASE refused
        <2>1. g = Thrown(f)
            BY <1>2, <1>11
        <2>. QED  BY <1>3, <1>11, <2>1 DEF g
    <1>12. CASE ~ refused
        <2>1. g = told
            BY <1>2, <1>12
        <2>. QED  BY <1>6, <1>7, <1>8, <1>9, <1>10, <1>12, <2>1 DEF g
    <1>. QED  BY <1>11, <1>12

\* Closing leaves the rows as they are.
LEMMA CloseOutcome ==
    ASSUME NEW f \in Functional, InStep(f), NEW stop \in Nat, NEW answer \in Answer
    PROVE  LET g == FinalizeModel(f, stop, answer)
           IN  /\ g \in Functional
               /\ g.runtime.tick = f.runtime.tick /\ g.runtime.rows = f.runtime.rows
               /\ \/ g.thrown /\ g.runtime = f.runtime
                  \/ /\ ~ g.thrown /\ f.runtime.tick = stop
                     /\ g.runtime.status = "finalized" /\ g.model.status = "finalized"
               /\ f.runtime.tick = stop /\ answer = "ok" => ~ g.thrown
    <1>. DEFINE g == FinalizeModel(f, stop, answer)
                closed == [f EXCEPT !.runtime.status = "finalized", !.model.status = "finalized"]
                refused == f.runtime.tick # stop \/ answer = "throws"
    <1>1. /\ f.runtime \in Runtime /\ f.model \in Model /\ ~ f.thrown /\ f.thrown \in BOOLEAN
          /\ f.model.tick = f.runtime.tick
          /\ f.runtime.status = "active" /\ f.model.status = "active"
        BY FunctionalFields DEF InStep
    <1>2. g = IF refused THEN Thrown(f) ELSE closed
        BY <1>1 DEF FinalizeModel
    <1>3. Thrown(f) \in Functional /\ Thrown(f).thrown /\ Thrown(f).runtime = f.runtime
        BY DEF Thrown, Functional
    <1>4. [f.model EXCEPT !.status = "finalized"] \in Model
        BY <1>1 DEF Model, Lifecycle
    <1>5. [f.runtime EXCEPT !.status = "finalized"] \in Runtime
        BY <1>1 DEF Runtime, Lifecycle
    <1>6. closed \in Functional
        BY <1>1, <1>4, <1>5 DEF Functional
    <1>7. /\ closed.runtime = [f.runtime EXCEPT !.status = "finalized"] /\ ~ closed.thrown
          /\ closed.model = [f.model EXCEPT !.status = "finalized"]
        BY <1>1 DEF Functional
    <1>. HIDE DEF closed
    <1>8. /\ closed.runtime.status = "finalized" /\ closed.model.status = "finalized"
          /\ closed.runtime.tick = f.runtime.tick /\ closed.runtime.rows = f.runtime.rows
        BY <1>1, <1>7 DEF Runtime, Model
    <1>. HIDE DEF g
    <1>9. CASE refused
        <2>1. g = Thrown(f)
            BY <1>2, <1>9
        <2>. QED  BY <1>3, <1>9, <2>1 DEF g
    <1>10. CASE ~ refused
        <2>1. g = closed
            BY <1>2, <1>10
        <2>. QED  BY <1>6, <1>7, <1>8, <1>10, <2>1 DEF g
    <1>. QED  BY <1>9, <1>10

-----------------------------------------------------------------------------
(* Rows. *)

\* Whatever leaves the record of an active or unused runtime as it is keeps its rows right.
LEMMA RowsKept ==
    ASSUME NEW f, NEW g \in Functional, NEW s, RowsComplete(f), RowsCount(f, s),
           \/ g.runtime = f.runtime
           \/ /\ g.runtime.rows = f.runtime.rows /\ g.runtime.tick = f.runtime.tick
              /\ f.runtime.status # "created" /\ g.runtime.status # "created"
    PROVE  RowsComplete(g) /\ RowsCount(g, s)
    BY DEF RowsComplete, RowsCount

\* The rows that advancing appends are of the next ticks and count what the model knows.
LEMMA AdvancedRows ==
    ASSUME NEW f, NEW g \in Functional, NEW s, NEW target \in Nat,
           RowsComplete(f), RowsCount(f, s), InStep(f), f.runtime.tick < target,
           IsAdvanced(f, g, target),
           Known(f) <= Len(s), \A k \in 1 .. Known(f) : s[k].tick <= f.runtime.tick,
           \A k \in Known(f) + 1 .. Len(s) : s[k].tick >= target,
           Len(s) \in Nat, \A k \in 1 .. Len(s) : s[k].tick \in Nat
    PROVE  RowsComplete(g) /\ RowsCount(g, s)
    <1>. DEFINE old == f.runtime.rows
                new == ModelRows(f.model, target)
                n == f.runtime.tick
                known == Known(f)
    <1>1. f \in Functional /\ old \in Seq(Row) /\ n \in Nat /\ f.model.tick = n /\ Len(old) = n + 1
          /\ known \in Nat /\ \A i \in DOMAIN old : old[i].tick = i - 1
        BY FunctionalFields DEF RowsComplete, InStep, Known
    <1>2. /\ new \in Seq(Row) /\ Len(new) = target - n
          /\ \A i \in 1 .. Len(new) : new[i].tick = n + i /\ new[i].value = known
        <2>1. f \in Functional /\ f.model.tick = n /\ f.model.tick <= target
            BY <1>1
        <2>. HIDE DEF n, old
        <2>2. /\ new \in Seq(Row) /\ Len(new) = target - f.model.tick
              /\ \A i \in 1 .. Len(new) : new[i].tick = f.model.tick + i /\ new[i].value = known
            BY <2>1, RowsOfTheModel
        <2>. HIDE DEF new, known
        <2>. QED  BY <2>1, <2>2
    <1>3. g.runtime.rows = old \o new /\ g.runtime.tick = target /\ g.runtime.status = "active"
        BY DEF IsAdvanced, InStep
    <1>4. \A i \in DOMAIN old : CountsBefore(s, old[i].tick, old[i].value)
        BY DEF RowsCount
    <1>5. \A t \in Nat : n < t /\ t <= target => CountsBefore(s, t, known)
        BY <1>1 DEF CountsBefore
    <1>. HIDE DEF old, new, n, known
    <1>8. n < target
        BY DEF n
    <1>6. Len(old \o new) = target + 1
        <2>1. old \in Seq(Row) /\ new \in Seq(Row) /\ Len(old) = n + 1 /\ Len(new) = target - n
              /\ n \in Nat
            BY <1>1, <1>2
        <2>2. Len(old \o new) = Len(old) + Len(new)
            BY <2>1
        <2>. QED  BY <2>1, <2>2
    <1>7. ASSUME NEW i \in DOMAIN (old \o new)
          PROVE  /\ (old \o new)[i].tick = i - 1
                 /\ CountsBefore(s, (old \o new)[i].tick, (old \o new)[i].value)
        <2>1. CASE i <= Len(old)
            <3>1. (old \o new)[i] = old[i] /\ i \in DOMAIN old
                BY <1>1, <1>2, <1>7, <2>1
            <3>. QED  BY <1>1, <1>4, <3>1
        <2>2. CASE i > Len(old)
            <3>1. i \in Nat /\ i - Len(old) \in 1 .. Len(new)
                  /\ (old \o new)[i] = new[i - Len(old)]
                BY <1>1, <1>2, <1>7, <2>2
            <3>2. new[i - Len(old)].tick = i - 1 /\ new[i - Len(old)].value = known
                BY <1>1, <1>2, <3>1
            <3>3. i - 1 \in Nat /\ n < i - 1 /\ i - 1 <= target
                BY <1>1, <1>2, <1>8, <2>2, <3>1
            <3>. QED  BY <1>5, <3>1, <3>2, <3>3
        <2>. QED  BY <1>1, <1>2, <1>7, <2>1, <2>2
    <1>. QED  BY <1>3, <1>6, <1>7 DEF RowsComplete, RowsCount

\* Advancing to the horizon and closing: the rows are complete to the end, or it failed.
LEMMA FinalizedOutcome ==
    ASSUME NEW f, NEW s, config.stop \in Nat, NEW a \in Answer, NEW b \in Answer,
           RowsComplete(f), RowsCount(f, s), InStep(f), f.runtime.tick <= config.stop,
           Known(f) <= Len(s), \A k \in 1 .. Known(f) : s[k].tick <= f.runtime.tick,
           \A k \in Known(f) + 1 .. Len(s) : s[k].tick >= config.stop,
           Len(s) \in Nat, \A k \in 1 .. Len(s) : s[k].tick \in Nat
    PROVE  LET g == Finalized(f, a, b)
           IN  /\ RowsComplete(g) /\ RowsCount(g, s)
               /\ \/ g.thrown /\ g.runtime.status = "active"
                  \/ /\ ~ g.thrown /\ g.runtime.tick = config.stop
                     /\ g.runtime.status = "finalized" /\ g.model.status = "finalized"
               /\ a = "ok" /\ b = "ok" => ~ g.thrown
    <1>. DEFINE stop == config.stop
                h == AdvanceTo(f, stop, stop, a)
                g == Finalized(f, a, b)
    <1>1. f \in Functional /\ f.runtime.tick \in Nat /\ f.runtime.status = "active" /\ ~ f.thrown
        BY FunctionalFields DEF RowsComplete, InStep
    <1>2. g = IF h.thrown THEN h ELSE FinalizeModel(h, stop, b)
        BY DEF Finalized, Then
    <1>3. h \in Functional
        BY <1>1, AdvanceType
    <1>4. \/ InStep(h) /\ h.runtime.tick = stop /\ RowsComplete(h) /\ RowsCount(h, s)
          \/ h.thrown /\ h.runtime = f.runtime /\ a # "ok"
        <2>1. CASE f.runtime.tick = stop
            BY <1>1, <2>1, AdvanceNowhere
        <2>2. CASE f.runtime.tick < stop
            <3>1. CASE IsAdvanced(f, h, stop)
                <4>1. RowsComplete(h) /\ RowsCount(h, s)
                    BY <1>3, <2>2, <3>1, AdvancedRows
                <4>. QED  BY <3>1, <4>1 DEF IsAdvanced
            <3>2. CASE h.thrown /\ ~ IsAdvanced(f, h, stop)
                BY <1>1, <2>2, <3>2, AdvanceLater, AdvanceType
            <3>. QED  BY <1>1, <2>2, <3>1, <3>2, AdvanceLater
        <2>. QED  BY <1>1, <2>1, <2>2
    <1>. HIDE DEF g, h
    <1>5. CASE h.thrown /\ h.runtime = f.runtime /\ a # "ok"
        <2>1. g = h
            BY <1>2, <1>5
        <2>2. RowsComplete(h) /\ RowsCount(h, s)
            BY <1>3, <1>5, RowsKept
        <2>. QED  BY <1>1, <1>5, <2>1, <2>2 DEF g
    <1>6. CASE InStep(h) /\ h.runtime.tick = stop /\ RowsComplete(h) /\ RowsCount(h, s)
        <2>1. g = FinalizeModel(h, stop, b)
            BY <1>2, <1>6 DEF InStep
        <2>2. /\ g \in Functional
              /\ g.runtime.tick = h.runtime.tick /\ g.runtime.rows = h.runtime.rows
              /\ \/ g.thrown /\ g.runtime = h.runtime
                 \/ /\ ~ g.thrown
                    /\ g.runtime.status = "finalized" /\ g.model.status = "finalized"
              /\ b = "ok" => ~ g.thrown
            BY <1>3, <1>6, <2>1, CloseOutcome
        <2>3. h.runtime.status = "active"
            BY <1>6 DEF InStep
        <2>4. RowsComplete(g) /\ RowsCount(g, s)
            BY <1>6, <2>2, <2>3, RowsKept
        <2>. QED  BY <1>6, <2>2, <2>3, <2>4 DEF g
    <1>. QED  BY <1>4, <1>5, <1>6

\* An event of a tick that every row precedes or shares is counted by none of them.
LEMMA RowsCountAppended ==
    ASSUME NEW f, NEW S, NEW s \in Seq(S), NEW e, RowsComplete(f), RowsCount(f, s), e \in S,
           e.tick \in Nat, f.runtime.rows = <<>> \/ f.runtime.tick <= e.tick
    PROVE  RowsCount(f, Append(s, e))
    <1>. SUFFICES ASSUME NEW i \in DOMAIN f.runtime.rows
                  PROVE  CountsBefore(Append(s, e), f.runtime.rows[i].tick, f.runtime.rows[i].value)
        BY DEF RowsCount
    <1>. DEFINE t == f.runtime.rows[i].tick
                n == f.runtime.rows[i].value
    <1>1. f \in Functional /\ f.runtime.rows \in Seq(Row) /\ f.runtime.tick \in Nat
          /\ f.runtime.rows # <<>>
        BY FunctionalFields DEF RowsComplete
    <1>9. f.runtime.rows[i] \in Row
        BY <1>1
    <1>2. t \in Nat /\ n \in Nat /\ t = i - 1 /\ CountsBefore(s, t, n)
        BY <1>9 DEF Row, RowsComplete, RowsCount
    <1>3. i <= f.runtime.tick + 1
        BY <1>1 DEF RowsComplete, NewFunctional
    <1>4. t <= e.tick
        BY <1>1, <1>2, <1>3
    <1>. HIDE DEF t, n
    <1>5. /\ Len(Append(s, e)) = Len(s) + 1 /\ Len(s) \in Nat
          /\ \A k \in 1 .. Len(s) : Append(s, e)[k] = s[k]
          /\ Append(s, e)[Len(s) + 1] = e
        OBVIOUS
    <1>6. n <= Len(s) /\ (\A k \in 1 .. n : s[k].tick < t)
          /\ \A k \in n + 1 .. Len(s) : s[k].tick >= t
        BY <1>2 DEF CountsBefore
    <1>7. \A k \in 1 .. n : Append(s, e)[k].tick < t
        BY <1>2, <1>5, <1>6
    <1>8. \A k \in n + 1 .. Len(s) + 1 : Append(s, e)[k].tick >= t
        <2>. TAKE k \in n + 1 .. Len(s) + 1
        <2>1. CASE k = Len(s) + 1
            BY <1>2, <1>4, <1>5, <2>1
        <2>2. CASE k # Len(s) + 1
            <3>1. k \in n + 1 .. Len(s) /\ k \in 1 .. Len(s)
                BY <1>2, <1>5, <2>2
            <3>. QED  BY <1>5, <1>6, <3>1
        <2>. QED  BY <2>1, <2>2
    <1>10. CountsBefore(Append(s, e), t, n)
        BY <1>2, <1>5, <1>6, <1>7, <1>8 DEF CountsBefore
    <1>. QED  BY <1>10 DEF t, n

-----------------------------------------------------------------------------
(* The engine's part of a tick. *)

\* The loops of process_event_tick().
TickWork ==
    \/ Settle
    \/ \E d \in TaskIds : PublishRoute(d)
    \/ ProcessReleases
    \/ Schedule
    \/ \E e \in queue.events : RecordDecision(e) \/ SendMessage(e)

\* They stay in the tick, or throw, and add at most an event of this tick to the trace.
LEMMA TickWorkStays ==
    ASSUME StateInv, ClockInv, TickWork
    PROVE  /\ stage \in Processing /\ stage' \in Processing \cup {"failed"}
           /\ UNCHANGED <<config, tick>>
           /\ trace' = trace \/ \E e \in Event : e.tick = tick /\ trace' = Append(trace, e)
           /\ stage' = "release" => \A e \in batch' : e.tick = tick
    <1>1. queue.events \subseteq Event /\ batch \subseteq Event
        BY PendingType DEF StateInv, TypeOK
    <1>2. stage = "release" => \A e \in batch : e.tick = tick
        BY DEF ClockInv
    <1>3. CASE Settle
        <2>1. PICK e \in queue.events : \/ AcceptCompletion(e) \/ IgnoreStaleCompletion(e)
                                        \/ DeliverMessage(e) \/ CheckDeadline(e)
            BY <1>3 DEF Settle
        <2>2. e \in Event
            BY <1>1
        <2>3. stage = "settle" /\ e.tick = tick
            BY <2>1 DEF AcceptCompletion, IgnoreStaleCompletion, DeliverMessage, CheckDeadline,
               Settling, IsDue
        <2>4. CASE AcceptCompletion(e)
            BY <2>2, <2>3, <2>4 DEF AcceptCompletion, Throw, Processing
        <2>5. CASE IgnoreStaleCompletion(e)
            BY <2>3, <2>5 DEF IgnoreStaleCompletion, Processing
        <2>6. CASE DeliverMessage(e)
            BY <2>2, <2>3, <2>6 DEF DeliverMessage, Throw, Processing
        <2>7. CASE CheckDeadline(e)
            BY <2>2, <2>3, <2>7 DEF CheckDeadline, Throw, Processing
        <2>. QED  BY <2>1, <2>4, <2>5, <2>6, <2>7
    <1>4. CASE \E d \in TaskIds : PublishRoute(d)
        BY <1>4 DEF PublishRoute, Throw, Processing
    <1>5. CASE CollectReleases
        BY <1>5 DEF CollectReleases, Processing
    <1>6. CASE \E e \in batch : ReleaseJob(e)
        <2>1. PICK e \in batch : ReleaseJob(e)
            BY <1>6
        <2>2. e \in Event /\ e.tick = tick
            BY <1>1, <1>2, <2>1 DEF ReleaseJob
        <2>3. UNCHANGED <<config, tick>> /\ stage = "release" /\ batch' \subseteq batch
            BY <2>1 DEF ReleaseJob
        <2>4. \/ stage' = "failed" /\ trace' = trace
              \/ stage' \in {"settle", "release"} /\ trace' = Append(trace, e)
            BY <2>1 DEF ReleaseJob, Throw
        <2>. QED  BY <1>2, <2>2, <2>3, <2>4 DEF Processing
    <1>7. CASE \E e \in batch : ReleaseRefused(e)
        BY <1>7 DEF ReleaseRefused, Throw, Processing
    <1>8. CASE Schedule
        <2>1. PICK r \in ResourceIds :
                  LeaveResource(r) \/ \E j \in ready[r] : Dispatch(r, j) \/ Preempt(r, j)
            BY <1>8 DEF Schedule
        <2>2. stage = "schedule" /\ stage' \in {"act", "schedule", "failed"}
              /\ UNCHANGED <<config, tick, trace>>
            BY <2>1 DEF LeaveResource, Dispatch, Preempt, Visiting, Visited, Throw
        <2>. QED  BY <2>2 DEF Processing
    <1>9. CASE \E e \in queue.events : RecordDecision(e) \/ SendMessage(e)
        <2>1. PICK e \in queue.events : RecordDecision(e) \/ SendMessage(e)
            BY <1>9
        <2>2. e \in Event /\ e.tick = tick /\ stage = "act"
            BY <1>1, <2>1 DEF RecordDecision, SendMessage, IsDue
        <2>3. UNCHANGED <<config, tick>> /\ stage' \in {"act", "failed"}
              /\ (trace' = trace \/ trace' = Append(trace, e))
            BY <2>1, <2>2 DEF RecordDecision, SendMessage, Throw
        <2>. QED  BY <2>2, <2>3 DEF Processing
    <1>. QED  BY <1>3, <1>4, <1>5, <1>6, <1>7, <1>8, <1>9 DEF TickWork, ProcessReleases

\* The ticks of the trace are numbers.
LEMMA TraceTicks ==
    ASSUME StateInv
    PROVE  /\ trace \in Seq(Event) /\ Len(trace) \in Nat /\ DOMAIN trace = 1 .. Len(trace)
           /\ \A k \in 1 .. Len(trace) : trace[k] \in Event /\ trace[k].tick \in Nat
    <1>1. trace \in Seq(Event)
        BY DEF StateInv, TypeOK
    <1>2. \A e \in Event : e.tick \in Nat
        BY DEF Event
    <1>. QED  BY <1>1, <1>2

\* An event of the present tick keeps the trace in order.
LEMMA ClockAppended ==
    ASSUME StateInv, ClockInv, UNCHANGED <<config, tick>>,
           trace' = trace \/ \E e \in Event : e.tick = tick /\ trace' = Append(trace, e),
           stage' = "release" => \A e \in batch' : e.tick = tick
    PROVE  ClockInv'
    <1>1. trace \in Seq(Event) /\ tick \in Nat
        BY DEF StateInv, TypeOK
    <1>2. \A k \in DOMAIN trace : trace[k].tick <= tick /\ trace[k].tick \in Nat
        BY TraceTicks DEF ClockInv
    <1>3. CASE trace' = trace
        BY <1>3 DEF ClockInv
    <1>4. ASSUME NEW e \in Event, e.tick = tick, trace' = Append(trace, e)
          PROVE  ClockInv'
        <2>1. /\ DOMAIN trace = 1 .. Len(trace) /\ Len(trace) \in Nat
              /\ DOMAIN trace' = 1 .. Len(trace) + 1
              /\ \A k \in 1 .. Len(trace) : trace'[k] = trace[k]
              /\ trace'[Len(trace) + 1] = e
            BY <1>1, <1>4
        <2>2. \A k \in DOMAIN trace' : trace'[k].tick <= tick
            <3>. TAKE k \in DOMAIN trace'
            <3>1. CASE k = Len(trace) + 1
                <4>1. trace'[k] = e
                    BY <2>1, <3>1
                <4>. QED  BY <1>1, <1>4, <4>1
            <3>2. CASE k # Len(trace) + 1
                <4>1. k \in DOMAIN trace /\ k \in 1 .. Len(trace)
                    BY <2>1, <3>2
                <4>. QED  BY <1>2, <2>1, <4>1
            <3>. QED  BY <3>1, <3>2
        <2>3. ASSUME NEW i \in DOMAIN trace', NEW k \in DOMAIN trace', i <= k
              PROVE  trace'[i].tick <= trace'[k].tick
            <3>1. CASE k = Len(trace) + 1
                BY <1>4, <2>1, <2>2, <3>1
            <3>2. CASE k # Len(trace) + 1
                <4>1. k \in DOMAIN trace /\ i \in DOMAIN trace
                    BY <2>1, <2>3, <3>2
                <4>. QED  BY <2>1, <2>3, <4>1 DEF ClockInv
            <3>. QED  BY <3>1, <3>2
        <2>. QED  BY <2>2, <2>3 DEF ClockInv
    <1>. QED  BY <1>3, <1>4

-----------------------------------------------------------------------------
(* The invariant. *)

\* Before the run is complete nothing is replayed.
LEMMA ReplayNotBegun ==
    ASSUME ReplayInv, stage # "finished"
    PROVE  replay = NewFunctional /\ replayed = 0
    BY DEF ReplayInv

\* A replay that has not begun stays sound.
LEMMA ReplayUntouched ==
    ASSUME ReplayInv, stage # "finished", UNCHANGED <<replay, replayed>>
    PROVE  ReplayInv'
    <1>1. replay' = NewFunctional /\ replayed' = 0
        BY ReplayNotBegun
    <1>2. NewFunctional.runtime.status = "created" /\ ~ NewFunctional.thrown
        BY DEF NewFunctional
    <1>. QED  BY <1>1, <1>2 DEF ReplayInv

\* A run with a model begins with neither started.
LEMMA InitFunctionalInv == FunctionalInit => FunctionalInv
    <1>. SUFFICES ASSUME FunctionalInit PROVE FunctionalInv
        OBVIOUS
    <1>1. StateInv
        BY InitStateInv DEF FunctionalInit
    <1>2. /\ online = NewFunctional /\ replay = NewFunctional /\ begin = 0 /\ replayed = 0
          /\ stage = "initialize" /\ trace = <<>> /\ tick = 0 /\ jobs = <<>>
        BY DEF FunctionalInit, Init
    <1>3. RowsComplete(NewFunctional) /\ RowsCount(NewFunctional, trace)
        BY NewIsFunctional
    <1>4. ClockInv
        BY <1>1, <1>2, ConfigType DEF ClockInv, StateInv
    <1>5. NewFunctional.runtime.status = "created" /\ ~ NewFunctional.thrown
        BY DEF NewFunctional
    <1>6. ModelInv
        BY <1>2 DEF ModelInv, ModelInTick, ModelBetweenTicks, Processing, Unstarted
    <1>7. ReplayInv
        BY <1>2, <1>5 DEF ReplayInv
    <1>. QED  BY <1>1, <1>2, <1>3, <1>4, <1>6, <1>7 DEF FunctionalInv

\* The loops of a tick leave the model to its tick.
LEMMA TickWorkFunctional ==
    ASSUME FunctionalInv, StateInv', coupled, TickWork, ModelUnchanged
    PROVE  FunctionalInv'
    <1>1. StateInv /\ ClockInv /\ ModelInv /\ ReplayInv
        BY DEF FunctionalInv
    <1>2. UNCHANGED <<coupled, online, begin, replay, replayed>>
        BY DEF ModelUnchanged, functionalVars
    <1>3. /\ stage \in Processing /\ stage' \in Processing \cup {"failed"}
          /\ UNCHANGED <<config, tick>>
          /\ trace' = trace \/ \E e \in Event : e.tick = tick /\ trace' = Append(trace, e)
          /\ stage' = "release" => \A e \in batch' : e.tick = tick
        BY <1>1, TickWorkStays
    <1>4. ClockInv'
        BY <1>1, <1>3, ClockAppended
    <1>5. stage # "finished" /\ InStep(online) /\ online.runtime.tick = tick /\ tick \in Nat
          /\ trace \in Seq(Event)
        BY <1>1, <1>3 DEF ModelInv, ModelInTick, Processing, StateInv, TypeOK
    <1>6. ReplayInv' /\ replay' = NewFunctional
        BY <1>1, <1>2, <1>5, ReplayUntouched, ReplayNotBegun
    <1>7. RowsComplete(replay') /\ RowsCount(replay', trace')
        BY <1>6, NewIsFunctional
    <1>8. RowsCount(online, trace')
        <2>1. CASE trace' = trace
            BY <2>1 DEF FunctionalInv
        <2>2. ASSUME NEW e \in Event, e.tick = tick, trace' = Append(trace, e)
              PROVE  RowsCount(online, trace')
            BY <1>5, <2>2, RowsCountAppended DEF FunctionalInv
        <2>. QED  BY <1>3, <2>1, <2>2
    <1>9. ModelInTick'
        <2>1. /\ begin \in Nat /\ begin <= Len(trace) /\ Len(trace) \in Nat
              /\ \A k \in begin + 1 .. Len(trace) : trace[k].tick = tick
              /\ ~ online.runtime.applied =>
                     /\ online.model.state = begin /\ online.model.pending = 0
                     /\ \A k \in 1 .. begin : trace[k].tick < tick
            BY <1>1, <1>3, <1>5 DEF ModelInv, ModelInTick, FunctionalInv
        <2>2. /\ begin <= Len(trace')
              /\ \A k \in begin + 1 .. Len(trace') : trace'[k].tick = tick
              /\ \A k \in 1 .. begin : trace'[k] = trace[k]
            <3>1. CASE trace' = trace
                BY <2>1, <3>1
            <3>2. ASSUME NEW e \in Event, e.tick = tick, trace' = Append(trace, e)
                  PROVE  /\ begin <= Len(trace')
                         /\ \A k \in begin + 1 .. Len(trace') : trace'[k].tick = tick
                         /\ \A k \in 1 .. begin : trace'[k] = trace[k]
                <4>1. /\ Len(trace') = Len(trace) + 1 /\ trace'[Len(trace) + 1] = e
                      /\ \A k \in 1 .. Len(trace) : trace'[k] = trace[k]
                    BY <1>5, <2>1, <3>2
                <4>. QED  BY <2>1, <3>2, <4>1
            <3>. QED  BY <1>3, <3>1, <3>2
        <2>. QED  BY <1>2, <1>3, <1>5, <2>1, <2>2 DEF ModelInTick
    <1>10. ModelInv'
        <2>1. HasModel'
            BY <1>2, <1>5 DEF HasModel, InStep
        <2>2. stage' \notin {"initialize", "between", "finished"}
            BY <1>3 DEF Processing
        <2>. QED  BY <1>9, <2>1, <2>2 DEF ModelInv, ModelBetweenTicks
    <1>. QED  BY <1>2, <1>4, <1>6, <1>7, <1>8, <1>10 DEF FunctionalInv

\* Steps that change nothing, or only the stage of a run that is over.
LEMMA IdleFunctional ==
    ASSUME FunctionalInv, UNCHANGED allVars
    PROVE  FunctionalInv'
    <1>1. UNCHANGED vars /\ UNCHANGED functionalVars
        BY DEF allVars
    <1>2. StateInv'
        BY <1>1, NextStateInv DEF FunctionalInv
    <1>3. UNCHANGED <<config, stage, tick, trace, jobs, batch, coupled, online, begin, replay, replayed>>
        BY <1>1 DEF vars, functionalVars
    <1>. QED  BY <1>2, <1>3 DEF FunctionalInv, ClockInv, ModelInv, ModelInTick, ModelBetweenTicks,
            ReplayInv, HasModel, Unstarted

\* Without a model nothing of it ever changes.
LEMMA UncoupledFunctional ==
    ASSUME FunctionalInv, StateInv', ~ coupled, ModelUnchanged
    PROVE  FunctionalInv'
    <1>1. UNCHANGED <<coupled, online, begin, replay, replayed>>
        BY DEF ModelUnchanged, functionalVars
    <1>2. online' = NewFunctional /\ replay' = NewFunctional
        BY <1>1 DEF FunctionalInv
    <1>3. RowsComplete(NewFunctional) /\ RowsCount(NewFunctional, trace')
        BY NewIsFunctional
    <1>. QED  BY <1>1, <1>2, <1>3 DEF FunctionalInv

\* Queueing a first release.
LEMMA QueueFirstReleaseFunctional ==
    ASSUME FunctionalInv, StateInv', coupled, ModelUnchanged, NEW t \in TaskIds,
           QueueFirstRelease(t)
    PROVE  FunctionalInv'
    <1>1. UNCHANGED <<coupled, online, begin, replay, replayed>>
        BY DEF ModelUnchanged, functionalVars
    <1>2. UNCHANGED <<config, stage, tick, trace, jobs, batch>>
        BY DEF QueueFirstRelease
    <1>. QED  BY <1>1, <1>2 DEF FunctionalInv, ClockInv, ModelInv, ModelInTick, ModelBetweenTicks,
            ReplayInv, HasModel, Unstarted

\* The model is started, or its start fails and nothing is recorded.
LEMMA StartModelFunctional ==
    ASSUME FunctionalInv, StateInv', coupled, StartModel
    PROVE  FunctionalInv'
    <1>1. PICK a \in Answer : online' = Initialize(online, a)
        BY DEF StartModel
    <1>2. /\ stage = "initialize" /\ stage' = "between"
          /\ UNCHANGED <<config, tick, trace, jobs, batch, coupled, begin, replay, replayed>>
        BY DEF StartModel, Initialized, ReplayUnchanged
    <1>3. ClockInv /\ ModelInv /\ ReplayInv /\ StateInv
        BY DEF FunctionalInv
    <1>4. online = NewFunctional /\ Unstarted
        BY <1>2, <1>3 DEF ModelInv, HasModel, NewFunctional
    <1>5. /\ online' \in Functional
          /\ \/ online'.runtime = NewFunctional.runtime
             \/ /\ InStep(online') /\ online'.runtime.tick = 0 /\ ~ online'.runtime.applied
                /\ Untold(online') /\ online'.runtime.rows = <<[tick |-> 0, value |-> 0]>>
        BY <1>1, <1>4, InitializeOutcome
    <1>6. RowsComplete(online') /\ RowsCount(online', trace')
        <2>1. CASE online'.runtime = NewFunctional.runtime
            BY <1>4, <1>5, <2>1, RowsKept, NewIsFunctional
        <2>2. CASE online'.runtime.rows = <<[tick |-> 0, value |-> 0]>>
                   /\ InStep(online') /\ online'.runtime.tick = 0
            <3>1. trace' = <<>>
                BY <1>2, <1>4 DEF Unstarted
            <3>. QED  BY <1>5, <2>2, <3>1 DEF RowsComplete, RowsCount, CountsBefore, InStep
        <2>. QED  BY <1>5, <2>1, <2>2
    <1>7. ClockInv'
        BY <1>2, <1>3 DEF ClockInv
    <1>8. ModelInv'
        <2>1. Unstarted'
            BY <1>2, <1>4 DEF Unstarted
        <2>2. HasModel' => InStep(online') /\ online'.runtime.tick = 0 /\ Untold(online')
            BY <1>5 DEF HasModel, NewFunctional
        <2>3. ModelBetweenTicks'
            BY <2>1, <2>2 DEF ModelBetweenTicks, Unstarted, Known, Untold
        <2>4. ModelInTick'
            BY <1>2 DEF ModelInTick, Processing
        <2>. QED  BY <1>2, <2>1, <2>3, <2>4 DEF ModelInv
    <1>9. ReplayInv' /\ RowsComplete(replay') /\ RowsCount(replay', trace')
        BY <1>2, <1>3, ReplayUntouched DEF FunctionalInv
    <1>. QED  BY <1>2, <1>6, <1>7, <1>8, <1>9 DEF FunctionalInv

\* A step that moves the position and the clock only keeps the kernel's types.
LEMMA MovedState ==
    ASSUME StateInv, stage' \in Stage, stage' # "publish", fault' \in Fault, tick' \in Nat,
           UNCHANGED <<config, queue, trace, release, jobs, resource, ready, messages, todo, batch>>
    PROVE  StateInv'
    <1>1. TypeOK /\ CandidatesNamed
        BY DEF StateInv
    <1>. QED  BY <1>1, PositionStep DEF TypeOK, CandidatesNamed

\* The model threw: the run has failed with the rows recorded so far.
LEMMA ModelFails ==
    ASSUME FunctionalInv, StateInv', coupled, stage # "finished", stage' = "failed",
           UNCHANGED <<config, trace, coupled, replay, replayed>>, begin' \in Nat,
           tick <= tick', tick' <= config.stop,
           RowsComplete(online'), RowsCount(online', trace), HasModel'
    PROVE  FunctionalInv'
    <1>1. StateInv /\ ClockInv /\ ReplayInv /\ tick \in Nat /\ tick' \in Nat /\ config.stop \in Nat
        BY ConfigType DEF FunctionalInv, StateInv, TypeOK
    <1>2. \A k \in DOMAIN trace : trace[k].tick <= tick'
        BY <1>1, TraceTicks DEF ClockInv
    <1>3. ClockInv'
        BY <1>1, <1>2 DEF ClockInv
    <1>4. ModelInv'
        BY DEF ModelInv, ModelInTick, ModelBetweenTicks, Processing
    <1>5. ReplayInv' /\ RowsComplete(replay') /\ RowsCount(replay', trace')
        BY <1>1, ReplayUntouched DEF FunctionalInv
    <1>. QED  BY <1>3, <1>4, <1>5 DEF FunctionalInv

\* Finishing with a model that was advanced to the horizon and closed, or that threw.
LEMMA FinishingFunctional ==
    ASSUME FunctionalInv, coupled, stage \in Processing \cup {"between"},
           online.runtime.status = "active",
           RowsComplete(online'), RowsCount(online', trace),
           \/ online'.thrown /\ online'.runtime.status = "active"
           \/ /\ ~ online'.thrown /\ online'.runtime.tick = config.stop
              /\ online'.runtime.status = "finalized" /\ online'.model.status = "finalized",
           Finishing(online'), UNCHANGED begin, ReplayUnchanged
    PROVE  FunctionalInv'
    <1>1. StateInv /\ ClockInv /\ ReplayInv /\ tick \in Nat /\ config.stop \in Nat
          /\ tick <= config.stop
        BY ConfigType DEF FunctionalInv, StateInv, TypeOK, ClockInv
    <1>2. /\ UNCHANGED <<config, queue, trace, release, jobs, resource, ready, messages, todo, batch>>
          /\ UNCHANGED <<coupled, begin, replay, replayed>>
        BY DEF Finishing, ReplayUnchanged
    <1>3. CASE online'.thrown /\ online'.runtime.status = "active"
        <2>1. stage' = "failed" /\ fault' = "functional" /\ tick' \in {tick, config.stop}
            BY <1>3 DEF Finishing, Throw
        <2>2. StateInv'
            BY <1>1, <1>2, <2>1, MovedState DEF Stage, Fault
        <2>3. HasModel' /\ stage # "finished" /\ begin' \in Nat /\ tick <= tick'
              /\ tick' <= config.stop
            BY <1>1, <1>2, <1>3, <2>1 DEF HasModel, Processing, FunctionalInv
        <2>. QED  BY <1>2, <2>1, <2>2, <2>3, ModelFails
    <1>4. CASE /\ ~ online'.thrown /\ online'.runtime.tick = config.stop
               /\ online'.runtime.status = "finalized" /\ online'.model.status = "finalized"
        <2>1. stage' = "finished" /\ tick' = config.stop /\ UNCHANGED fault
            BY <1>4 DEF Finishing
        <2>2. StateInv'
            BY <1>1, <1>2, <2>1, MovedState DEF Stage, StateInv, TypeOK
        <2>3. ClockInv'
            <3>1. \A k \in DOMAIN trace : trace[k].tick <= config.stop
                BY <1>1, TraceTicks DEF ClockInv
            <3>. QED  BY <1>1, <1>2, <2>1, <3>1 DEF ClockInv
        <2>4. ModelInv'
            BY <1>2, <1>4, <2>1 DEF ModelInv, ModelInTick, ModelBetweenTicks, Processing, HasModel
        <2>5. ReplayInv' /\ RowsComplete(replay') /\ RowsCount(replay', trace')
            BY <1>1, <1>2, ReplayUntouched DEF FunctionalInv, Processing
        <2>. QED  BY <1>2, <2>2, <2>3, <2>4, <2>5 DEF FunctionalInv
    <1>. QED  BY <1>3, <1>4

\* Between ticks the model, if it was started, is ready; if not, every call is refused.
LEMMA ModelReady ==
    ASSUME FunctionalInv, coupled, stage = "between"
    PROVE  /\ online \in Functional /\ tick \in Nat /\ config.stop \in Nat /\ tick <= config.stop
           /\ IF HasModel
              THEN /\ InStep(online) /\ online.runtime.tick = tick /\ Known(online) = Len(trace)
                   /\ ~ online.runtime.applied => trace = <<>> /\ Untold(online)
              ELSE online.runtime.status = "created" /\ Unstarted
    BY ConfigType DEF FunctionalInv, ModelInv, ModelBetweenTicks, HasModel, ClockInv, StateInv,
       TypeOK, RowsComplete

\* A runtime that is not active refuses to advance.
LEMMA AdvanceRefused ==
    ASSUME NEW f, f.runtime.status # "active", NEW target, NEW stop, NEW a
    PROVE  AdvanceTo(f, target, stop, a) = Thrown(f)
    BY DEF AdvanceTo

\* A refused call before the start changes nothing but the exception.
LEMMA RefusedBeforeStart ==
    ASSUME FunctionalInv, coupled, stage = "between", ~ HasModel, online' = Thrown(online),
           UNCHANGED <<config, stage, fault, tick, queue, trace, release, jobs, resource, ready,
                       messages, todo, batch>>,
           UNCHANGED begin, ReplayUnchanged
    PROVE  FunctionalInv'
    <1>1. UNCHANGED vars /\ UNCHANGED <<coupled, begin, replay, replayed>>
        BY DEF vars, ReplayUnchanged
    <1>2. StateInv' /\ ClockInv /\ ReplayInv
        BY <1>1, NextStateInv DEF FunctionalInv
    <1>3. online' \in Functional /\ online'.runtime = online.runtime
        BY ModelReady DEF Thrown, Functional
    <1>4. RowsComplete(online') /\ RowsCount(online', trace)
        BY <1>3, RowsKept DEF FunctionalInv
    <1>5. ~ HasModel' /\ Unstarted'
        BY <1>1, <1>3, ModelReady DEF HasModel, Unstarted
    <1>6. ModelInv'
        BY <1>5 DEF ModelInv, ModelInTick, ModelBetweenTicks, Processing
    <1>7. ClockInv' /\ ReplayInv' /\ RowsComplete(replay') /\ RowsCount(replay', trace')
        BY <1>1, <1>2 DEF ClockInv, ReplayInv, FunctionalInv
    <1>. QED  BY <1>1, <1>2, <1>4, <1>6, <1>7 DEF FunctionalInv

\* The model is advanced to the tick before the tick is processed.
LEMMA BeginTickFunctional ==
    ASSUME FunctionalInv, coupled, NEW e \in queue.events, BeginTickWithModel(e)
    PROVE  FunctionalInv'
    <1>1. PICK a \in Answer : online' = AdvanceTo(online, e.tick, config.stop, a)
        BY DEF BeginTickWithModel
    <1>2. /\ stage = "between" /\ e.tick \in Nat /\ e.tick <= config.stop /\ InHorizon(e)
          /\ ReplayUnchanged
        BY PendingType DEF BeginTickWithModel, InHorizon, Event, FunctionalInv, StateInv
    <1>3. /\ ~ online'.thrown => BeginTick(e) /\ begin' = Len(trace)
          /\ online'.thrown =>
                 /\ IF online.runtime.status = "created" THEN UNCHANGED <<stage, fault>>
                                                       ELSE Throw("functional")
                 /\ UNCHANGED <<config, tick, queue, trace, release, jobs, resource, ready,
                                messages, todo, batch, begin>>
        BY <1>1 DEF BeginTickWithModel
    <1>4. /\ online \in Functional /\ tick \in Nat /\ config.stop \in Nat /\ tick <= config.stop
          /\ StateInv /\ ClockInv /\ ReplayInv
        BY <1>2, ModelReady DEF FunctionalInv
    <1>5. UNCHANGED <<coupled, replay, replayed>>
        BY <1>2 DEF ReplayUnchanged
    <1>6. CASE ~ HasModel
        <2>1. online.runtime.status = "created"
            BY <1>6 DEF HasModel
        <2>2. online' = Thrown(online)
            BY <1>1, <2>1, AdvanceRefused
        <2>3. online'.thrown
            BY <1>4, <2>2 DEF Thrown, Functional
        <2>. QED  BY <1>2, <1>3, <1>6, <2>1, <2>2, <2>3, RefusedBeforeStart
    <1>7. CASE HasModel /\ online'.thrown
        <2>1. InStep(online)
            BY <1>2, <1>7, ModelReady
        <2>2. online' \in Functional /\ online'.runtime = online.runtime
            BY <1>1, <1>2, <1>4, <1>7, <2>1, AdvanceType DEF InStep
        <2>3. RowsComplete(online') /\ RowsCount(online', trace)
            BY <2>2, RowsKept DEF FunctionalInv
        <2>4. stage' = "failed" /\ fault' = "functional"
              /\ UNCHANGED <<config, tick, queue, trace, release, jobs, resource, ready,
                             messages, todo, batch, begin>>
            BY <1>3, <1>7, <2>1 DEF HasModel, Throw
        <2>5. StateInv'
            BY <1>4, <2>4, MovedState DEF Stage, Fault
        <2>6. HasModel' /\ begin' \in Nat
            BY <1>7, <2>2, <2>4 DEF HasModel, FunctionalInv
        <2>. QED  BY <1>2, <1>4, <1>5, <2>3, <2>4, <2>5, <2>6, ModelFails
    <1>8. CASE HasModel /\ ~ online'.thrown
        <2>1. /\ InStep(online) /\ online.runtime.tick = tick /\ Known(online) = Len(trace)
              /\ ~ online.runtime.applied => trace = <<>> /\ Untold(online)
            BY <1>2, <1>8, ModelReady
        <2>2. BeginTick(e) /\ begin' = Len(trace)
            BY <1>3, <1>8
        <2>3. ~ e.tick < tick
            <3>1. ASSUME e.tick < tick PROVE online' = Thrown(online)
                BY <1>1, <1>4, <2>1, <3>1 DEF AdvanceTo
            <3>. QED  BY <1>4, <1>8, <3>1 DEF Thrown, Functional
        <2>4. /\ stage' = "settle" /\ tick' = e.tick
              /\ UNCHANGED <<config, trace, jobs, batch>>
            BY <2>2, <2>3 DEF BeginTick
        <2>5. StateInv'
            BY <1>4, <2>2, MoveStep
        <2>6. Len(trace) \in Nat /\ \A k \in 1 .. Len(trace) : trace[k].tick \in Nat
                                                               /\ trace[k].tick <= tick
            BY <1>4, TraceTicks DEF ClockInv
        <2>7. /\ RowsComplete(online') /\ RowsCount(online', trace)
              /\ InStep(online') /\ online'.runtime.tick = e.tick
              /\ ~ online'.runtime.applied =>
                     /\ online'.model.state = Len(trace) /\ online'.model.pending = 0
                     /\ \A k \in 1 .. Len(trace) : trace[k].tick < e.tick
            <3>1. CASE e.tick = tick
                <4>1. online' = online
                    BY <1>1, <1>4, <2>1, <3>1, AdvanceNowhere
                <4>. QED  BY <2>1, <3>1, <4>1 DEF FunctionalInv, Untold
            <3>2. CASE e.tick > tick
                <4>1. IsAdvanced(online, online', e.tick) /\ online' \in Functional
                    BY <1>1, <1>2, <1>4, <1>8, <2>1, <3>2, AdvanceLater, AdvanceType DEF InStep
                <4>2. \A k \in 1 .. Len(trace) : trace[k].tick < e.tick
                    BY <1>2, <1>4, <2>6, <3>2
                <4>4. /\ Known(online) <= Len(trace)
                      /\ \A k \in 1 .. Known(online) : trace[k].tick <= online.runtime.tick
                      /\ \A k \in Known(online) + 1 .. Len(trace) : trace[k].tick >= e.tick
                    BY <2>1, <2>6
                <4>5. RowsComplete(online) /\ RowsCount(online, trace)
                    BY DEF FunctionalInv
                <4>6. online.runtime.tick < e.tick
                    BY <1>2, <1>4, <2>1, <3>2
                <4>3. RowsComplete(online') /\ RowsCount(online', trace)
                    BY <1>2, <2>1, <2>6, <4>1, <4>4, <4>5, <4>6, AdvancedRows
                <4>. QED  BY <2>1, <4>1, <4>2, <4>3 DEF IsAdvanced
            <3>. QED  BY <1>2, <1>4, <2>3, <3>1, <3>2
        <2>8. ClockInv'
            <3>1. \A k \in DOMAIN trace : trace[k].tick <= e.tick
                BY <1>2, <1>4, <2>3, <2>6, TraceTicks
            <3>. QED  BY <1>2, <1>4, <2>4, <3>1 DEF ClockInv
        <2>9. ModelInv'
            BY <2>2, <2>4, <2>6, <2>7 DEF ModelInv, ModelInTick, ModelBetweenTicks, HasModel, InStep,
               Processing
        <2>10. ReplayInv' /\ RowsComplete(replay') /\ RowsCount(replay', trace')
            BY <1>2, <1>4, <1>5, <2>4, ReplayUntouched DEF FunctionalInv
        <2>. QED  BY <1>5, <2>2, <2>4, <2>5, <2>6, <2>7, <2>8, <2>9, <2>10 DEF FunctionalInv
    <1>. QED  BY <1>6, <1>7, <1>8

\* A run in which nothing is left is finished with its model.
LEMMA FinishEmptyFunctional ==
    ASSUME FunctionalInv, coupled, FinishEmptyWithModel
    PROVE  FunctionalInv'
    <1>1. PICK a \in Answer, b \in Answer : online' = Finalized(online, a, b)
        BY DEF FinishEmptyWithModel
    <1>2. stage = "between" /\ Finishing(online') /\ UNCHANGED begin /\ ReplayUnchanged
        BY DEF FinishEmptyWithModel
    <1>3. /\ online \in Functional /\ tick \in Nat /\ config.stop \in Nat /\ tick <= config.stop
          /\ StateInv /\ ClockInv
        BY <1>2, ModelReady DEF FunctionalInv
    <1>4. CASE ~ HasModel
        <2>1. AdvanceTo(online, config.stop, config.stop, a) = Thrown(online)
            BY <1>4, AdvanceRefused DEF HasModel
        <2>2. Thrown(online).thrown /\ Thrown(online).runtime = online.runtime
              /\ online.runtime.status = "created"
            BY <1>3, <1>4 DEF Thrown, Functional, HasModel
        <2>3. online' = Thrown(online)
            BY <1>1, <2>1, <2>2 DEF Finalized, Then
        <2>4. UNCHANGED <<config, stage, fault, tick, queue, trace, release, jobs, resource, ready,
                          messages, todo, batch>>
            BY <1>2, <2>2, <2>3 DEF Finishing
        <2>. QED  BY <1>2, <1>4, <2>3, <2>4, RefusedBeforeStart
    <1>5. CASE HasModel
        <2>1. InStep(online) /\ online.runtime.tick = tick /\ Known(online) = Len(trace)
            BY <1>2, <1>5, ModelReady
        <2>2. Len(trace) \in Nat /\ \A k \in 1 .. Len(trace) : trace[k].tick \in Nat
                                                               /\ trace[k].tick <= tick
            BY <1>3, TraceTicks DEF ClockInv
        <2>3. /\ RowsComplete(online') /\ RowsCount(online', trace)
              /\ \/ online'.thrown /\ online'.runtime.status = "active"
                 \/ /\ ~ online'.thrown /\ online'.runtime.tick = config.stop
                    /\ online'.runtime.status = "finalized" /\ online'.model.status = "finalized"
            BY <1>1, <1>3, <2>1, <2>2, FinalizedOutcome DEF FunctionalInv
        <2>. QED  BY <1>2, <2>1, <2>3, FinishingFunctional DEF InStep
    <1>. QED  BY <1>4, <1>5

\* At the end of a tick its events reach the model.
LEMMA EndTickFunctional ==
    ASSUME FunctionalInv, coupled, EndTickWithModel
    PROVE  FunctionalInv'
    <1>. DEFINE told(a) == ApplyActions(online, tick, ActionTicks, a)
    <1>1. PICK a \in Answer, b \in Answer, c \in Answer :
              online' = IF NothingInHorizon /\ ~ told(a).thrown THEN Finalized(told(a), b, c)
                                                               ELSE told(a)
        BY DEF EndTickWithModel, Then
    <1>2. /\ stage = "act" /\ ReplayUnchanged /\ UNCHANGED begin
          /\ IF NothingInHorizon \/ online'.thrown THEN Finishing(online') ELSE EndTick
        BY DEF EndTickWithModel
    <1>3. /\ online \in Functional /\ tick \in Nat /\ config.stop \in Nat /\ tick <= config.stop
          /\ StateInv /\ ClockInv /\ ReplayInv /\ begin \in Nat
          /\ RowsComplete(online) /\ RowsCount(online, trace)
        BY ConfigType DEF FunctionalInv, RowsComplete, StateInv, TypeOK, ClockInv
    <1>4. /\ InStep(online) /\ online.runtime.tick = tick /\ begin <= Len(trace)
          /\ ~ online.runtime.applied => online.model.state = begin
        BY <1>2 DEF FunctionalInv, ModelInv, ModelInTick, Processing
    <1>5. Len(trace) \in Nat /\ \A k \in 1 .. Len(trace) : trace[k].tick \in Nat
                                                           /\ trace[k].tick <= tick
        BY <1>3, TraceTicks DEF ClockInv
    <1>6. Len(ActionTicks) = Len(trace) - begin /\ Len(ActionTicks) \in Nat
        BY <1>3, <1>4, <1>5 DEF ActionTicks
    <1>. DEFINE g == told(a)
    <1>7. /\ g \in Functional
          /\ \/ g.thrown /\ g.runtime = online.runtime
             \/ /\ InStep(g) /\ g.runtime.applied /\ ~ online.runtime.applied
                /\ g.runtime.tick = tick /\ g.runtime.rows = online.runtime.rows
                /\ g.model.state = online.model.state /\ g.model.pending = Len(ActionTicks)
        <2>. HIDE DEF told
        <2>2. LET y == ApplyActions(online, tick, ActionTicks, a)
              IN  /\ y \in Functional
                  /\ \/ y.thrown /\ y.runtime = online.runtime
                     \/ /\ InStep(y) /\ y.runtime.applied /\ ~ online.runtime.applied
                        /\ y.runtime.tick = online.runtime.tick
                        /\ y.runtime.rows = online.runtime.rows
                        /\ y.model.state = online.model.state
                        /\ y.model.pending = Len(ActionTicks)
            <3>1. PICK ticks : ticks = ActionTicks
                OBVIOUS
            <3>2. Len(ticks) \in Nat
                BY <1>6, <3>1
            <3>3. LET y == ApplyActions(online, tick, ticks, a)
                  IN  /\ y \in Functional
                      /\ \/ y.thrown /\ y.runtime = online.runtime
                         \/ /\ InStep(y) /\ y.runtime.applied /\ ~ online.runtime.applied
                            /\ y.runtime.tick = online.runtime.tick
                            /\ y.runtime.rows = online.runtime.rows
                            /\ y.model.state = online.model.state
                            /\ y.model.pending = Len(ticks)
                BY <1>3, <1>4, <3>2, ApplyOutcome
            <3>. QED  BY <3>1, <3>3
        <2>. QED  BY <1>4, <2>2 DEF told
    <1>8. online' = IF NothingInHorizon /\ ~ g.thrown THEN Finalized(g, b, c) ELSE g
        BY <1>1
    <1>. HIDE DEF g
    <1>9. online.runtime.status = "active"
        BY <1>4 DEF InStep
    <1>10. CASE g.thrown
        <2>1. online' = g /\ g.runtime = online.runtime /\ Finishing(online')
            BY <1>2, <1>7, <1>8, <1>10 DEF InStep
        <2>2. RowsComplete(online') /\ RowsCount(online', trace)
            BY <1>3, <1>7, <2>1, RowsKept
        <2>. QED  BY <1>2, <1>9, <1>10, <2>1, <2>2, FinishingFunctional DEF Processing
    <1>11. CASE ~ g.thrown
        <2>1. /\ InStep(g) /\ g.runtime.applied /\ g.runtime.tick = tick
              /\ g.runtime.rows = online.runtime.rows /\ Known(g) = Len(trace)
            BY <1>3, <1>4, <1>5, <1>6, <1>7, <1>11 DEF Known
        <2>2. RowsComplete(g) /\ RowsCount(g, trace)
            BY <1>3, <1>4, <1>7, <1>9, <2>1, RowsKept DEF InStep
        <2>3. CASE NothingInHorizon
            <3>1. online' = Finalized(g, b, c) /\ Finishing(online')
                BY <1>2, <1>8, <1>11, <2>3
            <3>2. /\ RowsComplete(online') /\ RowsCount(online', trace)
                  /\ \/ online'.thrown /\ online'.runtime.status = "active"
                     \/ /\ ~ online'.thrown /\ online'.runtime.tick = config.stop
                        /\ online'.runtime.status = "finalized"
                        /\ online'.model.status = "finalized"
                BY <1>3, <1>5, <2>1, <2>2, <3>1, FinalizedOutcome
            <3>. QED  BY <1>2, <1>9, <3>1, <3>2, FinishingFunctional DEF Processing
        <2>4. CASE ~ NothingInHorizon
            <3>1. online' = g /\ EndTick
                BY <1>2, <1>8, <1>11, <2>4
            <3>2. stage' = "between" /\ UNCHANGED <<config, tick, trace, jobs, batch>>
                BY <2>4, <3>1 DEF EndTick
            <3>3. StateInv'
                BY <1>3, <3>1, MoveStep
            <3>4. ClockInv'
                BY <1>3, <3>2 DEF ClockInv
            <3>5. ModelInv'
                BY <2>1, <3>1, <3>2 DEF ModelInv, ModelInTick, ModelBetweenTicks, Processing,
                   HasModel, InStep
            <3>6. UNCHANGED <<coupled, begin, replay, replayed>>
                BY <1>2 DEF ReplayUnchanged
            <3>7. ReplayInv' /\ RowsComplete(replay') /\ RowsCount(replay', trace')
                BY <1>2, <1>3, <3>2, <3>6, ReplayUntouched DEF FunctionalInv
            <3>. QED  BY <1>3, <2>2, <3>1, <3>2, <3>3, <3>4, <3>5, <3>6, <3>7 DEF FunctionalInv
        <2>. QED  BY <2>3, <2>4
    <1>. QED  BY <1>10, <1>11

-----------------------------------------------------------------------------
(* The replay. *)

\* The events of the next tick of the trace end somewhere.
LEMMA BatchEnds ==
    ASSUME StateInv, NEW first \in 1 .. Len(trace)
    PROVE  /\ BatchEnd(first) \in first .. Len(trace)
           /\ \A k \in first .. BatchEnd(first) : trace[k].tick = trace[first].tick
           /\ \/ BatchEnd(first) = Len(trace)
              \/ trace[BatchEnd(first) + 1].tick # trace[first].tick
    <1>. DEFINE P(j) == /\ \A k \in first .. j : trace[k].tick = trace[first].tick
                        /\ j = Len(trace) \/ trace[j + 1].tick # trace[first].tick
                others == {k \in first .. Len(trace) : trace[k].tick # trace[first].tick}
    <1>1. Len(trace) \in Nat /\ first \in Nat /\ first <= Len(trace)
        BY TraceTicks
    <1>2. \E j \in first .. Len(trace) : P(j)
        <2>1. CASE others = {}
            <3>1. P(Len(trace)) /\ Len(trace) \in first .. Len(trace)
                BY <1>1, <2>1
            <3>. QED  BY <3>1
        <2>2. CASE others # {}
            <3>1. others \in SUBSET Nat
                BY <1>1
            <3>2. PICK n \in others : \A k \in others : n <= k
                BY <2>2, <3>1, LeastNumber
            <3>3. n \in first .. Len(trace) /\ trace[n].tick # trace[first].tick
                OBVIOUS
            <3>4. n - 1 \in first .. Len(trace)
                BY <1>1, <3>3
            <3>5. \A k \in first .. n - 1 : trace[k].tick = trace[first].tick
                BY <1>1, <3>2, <3>3
            <3>6. trace[(n - 1) + 1].tick # trace[first].tick
                BY <1>1, <3>3
            <3>7. P(n - 1)
                BY <3>5, <3>6
            <3>. QED  BY <3>4, <3>7
        <2>. QED  BY <2>1, <2>2
    <1>3. BatchEnd(first) = CHOOSE j \in first .. Len(trace) : P(j)
        BY DEF BatchEnd
    <1>. HIDE DEF P
    <1>4. BatchEnd(first) \in first .. Len(trace) /\ P(BatchEnd(first))
        BY <1>2, <1>3
    <1>. QED  BY <1>4 DEF P

\* A step of the replay touches the replay only.
LEMMA ReplayStep ==
    ASSUME FunctionalInv, coupled, UNCHANGED vars, UNCHANGED <<coupled, online, begin>>,
           replayed' \in Nat, RowsComplete(replay'), RowsCount(replay', trace), ReplayInv'
    PROVE  FunctionalInv'
    <1>1. StateInv'
        BY NextStateInv DEF FunctionalInv
    <1>2. UNCHANGED <<config, stage, tick, trace, jobs, batch>>
        BY DEF vars
    <1>. QED  BY <1>1, <1>2 DEF FunctionalInv, ClockInv, ModelInv, ModelInTick, ModelBetweenTicks,
            HasModel, Unstarted

\* A fresh model is started.
LEMMA ReplayStartFunctional ==
    ASSUME FunctionalInv, coupled, ReplayStart
    PROVE  FunctionalInv'
    <1>1. /\ stage = "finished" /\ replay' = Initialize(replay, "ok") /\ UNCHANGED vars
          /\ UNCHANGED <<coupled, online, begin, replayed>>
          /\ replay.runtime.status = "created"
        BY DEF ReplayStart, EngineUnchanged
    <1>2. replay = NewFunctional /\ replayed = 0 /\ StateInv
        BY <1>1 DEF FunctionalInv, ReplayInv
    <1>3. /\ replay' \in Functional /\ InStep(replay') /\ replay'.runtime.tick = 0
          /\ ~ replay'.runtime.applied /\ Untold(replay')
          /\ replay'.runtime.rows = <<[tick |-> 0, value |-> 0]>>
        BY <1>1, <1>2, InitializeOutcome DEF Answer
    <1>4. Len(trace) \in Nat /\ (\A k \in 1 .. Len(trace) : trace[k].tick >= 0)
          /\ config.stop \in Nat
        BY <1>2, TraceTicks, ConfigType DEF StateInv
    <1>5. CountsBefore(trace, 0, 0)
        BY <1>4 DEF CountsBefore
    <1>6. RowsComplete(replay') /\ RowsCount(replay', trace)
        BY <1>3, <1>5 DEF RowsComplete, RowsCount, InStep
    <1>7. UNCHANGED <<config, stage, trace>>
        BY <1>1 DEF vars
    <1>8. ReplayInv'
        BY <1>1, <1>2, <1>3, <1>4, <1>7 DEF ReplayInv, InStep, Untold, Known
    <1>. QED  BY <1>1, <1>2, <1>6, <1>8, ReplayStep

\* The replay is active: what it knows and what is left of the trace.
LEMMA ReplayReady ==
    ASSUME FunctionalInv, coupled, replay.runtime.status = "active"
    PROVE  /\ stage = "finished" /\ StateInv /\ config.stop \in Nat
           /\ RowsComplete(replay) /\ RowsCount(replay, trace) /\ replay \in Functional
           /\ replay.runtime.tick \in Nat /\ replay.model.pending \in Nat
           /\ InStep(replay) /\ replay.runtime.tick <= config.stop
           /\ replayed \in Nat /\ replayed <= Len(trace) /\ Known(replay) = replayed
           /\ Len(trace) \in Nat
           /\ \A k \in 1 .. Len(trace) : trace[k].tick \in Nat /\ trace[k].tick <= config.stop
           /\ \A i, k \in 1 .. Len(trace) : i <= k => trace[i].tick <= trace[k].tick
           /\ \A k \in 1 .. replayed : trace[k].tick <= replay.runtime.tick
           /\ IF replay.runtime.applied
              THEN \A k \in replayed + 1 .. Len(trace) : trace[k].tick > replay.runtime.tick
              ELSE replayed = 0 /\ replay.runtime.tick = 0 /\ Untold(replay)
    <1>1. StateInv /\ ClockInv /\ ReplayInv /\ config.stop \in Nat /\ tick \in Nat
          /\ RowsComplete(replay) /\ RowsCount(replay, trace) /\ replayed \in Nat
        BY ConfigType DEF FunctionalInv, StateInv, TypeOK
    <1>2. replay \in Functional /\ replay.runtime.tick \in Nat /\ replay.model.pending \in Nat
        BY <1>1, FunctionalFields DEF RowsComplete
    <1>3. Len(trace) \in Nat /\ DOMAIN trace = 1 .. Len(trace)
          /\ \A k \in 1 .. Len(trace) : trace[k].tick \in Nat
        BY <1>1, TraceTicks
    <1>4. \A k \in 1 .. Len(trace) : trace[k].tick <= config.stop
        BY <1>1, <1>3 DEF ClockInv
    <1>. QED  BY <1>1, <1>2, <1>3, <1>4 DEF ClockInv, ReplayInv

\* One batch: the model is advanced to its tick, over ticks without events, and told it.
LEMMA ReplayBatchFunctional ==
    ASSUME FunctionalInv, coupled, ReplayBatch
    PROVE  FunctionalInv'
    <1>. DEFINE first == replayed + 1
                last == BatchEnd(first)
                t == trace[first].tick
                ticks == [i \in 1 .. last - replayed |-> trace[replayed + i].tick]
                moved == AdvanceTo(replay, t, config.stop, "ok")
    <1>1. /\ replay.runtime.status = "active" /\ replayed < Len(trace) /\ replayed' = last
          /\ replay' = IF moved.thrown THEN moved ELSE ApplyActions(moved, t, ticks, "ok")
          /\ UNCHANGED vars /\ UNCHANGED <<coupled, online, begin>>
        BY DEF ReplayBatch, Then, EngineUnchanged
    <1>2. /\ stage = "finished" /\ StateInv /\ config.stop \in Nat
          /\ RowsComplete(replay) /\ RowsCount(replay, trace) /\ replay \in Functional
          /\ replay.runtime.tick \in Nat
          /\ InStep(replay) /\ replay.runtime.tick <= config.stop
          /\ replayed \in Nat /\ Known(replay) = replayed /\ Len(trace) \in Nat
        BY <1>1, ReplayReady
    <1>3. /\ \A k \in 1 .. Len(trace) : trace[k].tick \in Nat /\ trace[k].tick <= config.stop
          /\ \A i, k \in 1 .. Len(trace) : i <= k => trace[i].tick <= trace[k].tick
          /\ \A k \in 1 .. replayed : trace[k].tick <= replay.runtime.tick
        BY <1>1, ReplayReady
    <1>4. IF replay.runtime.applied
          THEN \A k \in replayed + 1 .. Len(trace) : trace[k].tick > replay.runtime.tick
          ELSE replayed = 0 /\ replay.runtime.tick = 0 /\ Untold(replay)
        BY <1>1, ReplayReady
    <1>5. first \in 1 .. Len(trace)
        BY <1>1, <1>2
    <1>6. t \in Nat /\ t <= config.stop /\ replay.runtime.tick <= t
        BY <1>2, <1>3, <1>4, <1>5
    <1>7. /\ last \in first .. Len(trace)
          /\ \A k \in first .. last : trace[k].tick = t
          /\ last = Len(trace) \/ trace[last + 1].tick # t
        BY <1>2, <1>5, BatchEnds
    <1>. HIDE DEF last, moved, t
    <1>8. Len(ticks) = last - replayed /\ Len(ticks) \in Nat /\ \A i \in DOMAIN ticks : ticks[i] = t
        BY <1>2, <1>7
    <1>9. \A k \in first .. Len(trace) : trace[k].tick >= t
        BY <1>3, <1>5 DEF t
    <1>10. /\ moved \in Functional /\ RowsComplete(moved) /\ RowsCount(moved, trace)
           /\ InStep(moved) /\ moved.runtime.tick = t /\ ~ moved.runtime.applied
           /\ moved.model.state = replayed
        <2>1. CASE t = replay.runtime.tick
            <3>1. ~ replay.runtime.applied /\ replayed = 0 /\ Untold(replay)
                BY <1>4, <1>5, <1>6, <2>1 DEF t
            <3>2. moved = replay
                BY <1>2, <2>1, AdvanceNowhere DEF moved
            <3>. QED  BY <1>2, <2>1, <3>1, <3>2 DEF Untold
        <2>2. CASE replay.runtime.tick < t
            <3>1. IsAdvanced(replay, moved, t)
                BY <1>2, <1>6, <2>2, AdvanceLater DEF moved, Answer
            <3>2. moved \in Functional
                BY <1>2, <1>6, AdvanceType DEF moved, Answer, InStep
            <3>4. /\ Known(replay) <= Len(trace)
                  /\ \A k \in 1 .. Known(replay) : trace[k].tick <= replay.runtime.tick
                  /\ \A k \in Known(replay) + 1 .. Len(trace) : trace[k].tick >= t
                BY <1>1, <1>2, <1>3, <1>9
            <3>5. Len(trace) \in Nat /\ \A k \in 1 .. Len(trace) : trace[k].tick \in Nat
                BY <1>2, <1>3
            <3>3. RowsComplete(moved) /\ RowsCount(moved, trace)
                BY <1>2, <1>6, <2>2, <3>1, <3>2, <3>4, <3>5, AdvancedRows
            <3>. QED  BY <1>2, <3>1, <3>2, <3>3 DEF IsAdvanced
        <2>. QED  BY <1>2, <1>6, <2>1, <2>2
    <1>. HIDE DEF ticks
    <1>11. replay' = ApplyActions(moved, t, ticks, "ok")
        BY <1>1, <1>10 DEF InStep
    <1>12. /\ replay' \in Functional /\ InStep(replay') /\ replay'.runtime.applied
           /\ replay'.runtime.tick = t /\ replay'.runtime.rows = moved.runtime.rows
           /\ replay'.model.state = replayed /\ replay'.model.pending = last - replayed
        <2>1. "ok" \in Answer
            BY DEF Answer
        <2>2. ~ ApplyActions(moved, t, ticks, "ok").thrown
            BY <1>8, <1>10, <2>1, ApplyOutcome
        <2>. QED  BY <1>8, <1>10, <1>11, <2>1, <2>2, ApplyOutcome
    <1>13. RowsComplete(replay') /\ RowsCount(replay', trace)
        BY <1>10, <1>12, RowsKept DEF InStep
    <1>14. UNCHANGED <<config, stage, trace>>
        BY <1>1 DEF vars
    <1>15. ReplayInv'
        <2>1. last \in Nat /\ last <= Len(trace) /\ Known(replay') = last
            BY <1>2, <1>7, <1>12 DEF Known
        <2>2. \A k \in 1 .. last : trace[k].tick <= t
            BY <1>2, <1>3, <1>6, <1>7
        <2>3. \A k \in last + 1 .. Len(trace) : trace[k].tick > t
            <3>. TAKE k \in last + 1 .. Len(trace)
            <3>1. last + 1 \in 1 .. Len(trace) /\ k \in 1 .. Len(trace) /\ last + 1 <= k
                  /\ last + 1 \in first .. Len(trace) /\ last # Len(trace)
                BY <1>2, <1>5, <1>7, <2>1
            <3>2. trace[last + 1].tick # t /\ trace[last + 1].tick >= t
                  /\ trace[last + 1].tick \in Nat
                BY <1>3, <1>7, <1>9, <3>1
            <3>3. trace[last + 1].tick <= trace[k].tick /\ trace[k].tick \in Nat
                BY <1>3, <3>1
            <3>. QED  BY <1>6, <3>2, <3>3
        <2>. QED  BY <1>1, <1>2, <1>6, <1>12, <1>14, <2>1, <2>2, <2>3 DEF ReplayInv, InStep
    <1>16. replayed' \in Nat
        BY <1>1, <1>2, <1>7
    <1>. QED  BY <1>1, <1>13, <1>15, <1>16, ReplayStep

\* The last row is that of the horizon, and the model is closed.
LEMMA ReplayFinishFunctional ==
    ASSUME FunctionalInv, coupled, ReplayFinish
    PROVE  FunctionalInv'
    <1>1. /\ replay.runtime.status = "active" /\ replayed = Len(trace) /\ UNCHANGED vars
          /\ replay' = Finalized(replay, "ok", "ok") /\ UNCHANGED <<coupled, online, begin, replayed>>
        BY DEF ReplayFinish, EngineUnchanged
    <1>2. /\ stage = "finished" /\ config.stop \in Nat
          /\ RowsComplete(replay) /\ RowsCount(replay, trace)
          /\ InStep(replay) /\ replay.runtime.tick <= config.stop
          /\ replayed \in Nat /\ Known(replay) = replayed /\ Len(trace) \in Nat
          /\ \A k \in 1 .. Len(trace) : trace[k].tick \in Nat
          /\ \A k \in 1 .. replayed : trace[k].tick <= replay.runtime.tick
        BY <1>1, ReplayReady
    <1>3. /\ RowsComplete(replay') /\ RowsCount(replay', trace)
          /\ ~ replay'.thrown /\ replay'.runtime.tick = config.stop
          /\ replay'.runtime.status = "finalized"
        <2>1. "ok" \in Answer
            BY DEF Answer
        <2>2. \A k \in Known(replay) + 1 .. Len(trace) : trace[k].tick >= config.stop
            BY <1>1, <1>2
        <2>. QED  BY <1>1, <1>2, <2>1, <2>2, FinalizedOutcome
    <1>4. UNCHANGED <<config, stage, trace>>
        BY <1>1 DEF vars
    <1>5. ReplayInv'
        BY <1>2, <1>3, <1>4 DEF ReplayInv
    <1>. QED  BY <1>1, <1>2, <1>3, <1>5, ReplayStep

-----------------------------------------------------------------------------
\* Every step of the engine with its model and of the replay preserves the invariant.
LEMMA NextFunctionalInv == FunctionalInv /\ [FunctionalNext]_allVars => FunctionalInv'
    <1>. SUFFICES ASSUME FunctionalInv, [FunctionalNext]_allVars PROVE FunctionalInv'
        OBVIOUS
    <1>1. ASSUME Next PROVE StateInv'
        BY <1>1, NextStateInv DEF FunctionalInv
    <1>2. CASE UncoupledNext
        BY <1>1, <1>2, UncoupledFunctional DEF UncoupledNext
    <1>3. CASE WithoutCall(\E t \in TaskIds : QueueFirstRelease(t))
        BY <1>1, <1>3, QueueFirstReleaseFunctional DEF WithoutCall, Next
    <1>4. CASE coupled /\ StartModel
        <2>1. StateInv'
            BY <1>1, <1>4 DEF StartModel, Next
        <2>. QED  BY <1>4, <2>1, StartModelFunctional
    <1>5. CASE coupled /\ \E e \in queue.events : BeginTickWithModel(e)
        BY <1>5, BeginTickFunctional
    <1>6. CASE coupled /\ FinishEmptyWithModel
        BY <1>6, FinishEmptyFunctional
    <1>7. CASE \/ WithoutCall(Settle) \/ WithoutCall(\E d \in TaskIds : PublishRoute(d))
               \/ WithoutCall(ProcessReleases) \/ WithoutCall(Schedule)
               \/ WithoutCall(\E e \in queue.events : RecordDecision(e) \/ SendMessage(e))
        <2>1. coupled /\ TickWork /\ ModelUnchanged
            BY <1>7 DEF WithoutCall, TickWork
        <2>2. Next
            BY <2>1 DEF TickWork, Next, Act
        <2>. QED  BY <1>1, <2>1, <2>2, TickWorkFunctional
    <1>8. CASE coupled /\ EndTickWithModel
        BY <1>8, EndTickFunctional
    <1>9. CASE WithoutCall(StepAfterEnd) \/ UNCHANGED allVars
        <2>1. UNCHANGED allVars
            BY <1>9 DEF WithoutCall, StepAfterEnd, ModelUnchanged, allVars, vars, functionalVars
        <2>. QED  BY <2>1, IdleFunctional
    <1>10. CASE coupled /\ (ReplayStart \/ ReplayBatch \/ ReplayFinish)
        BY <1>10, ReplayStartFunctional, ReplayBatchFunctional, ReplayFinishFunctional
    <1>. QED  BY <1>2, <1>3, <1>4, <1>5, <1>6, <1>7, <1>8, <1>9, <1>10
              DEF FunctionalNext, CoupledNext

\* The invariant holds in every reachable state of a run and its replay.
LEMMA FunctionalInvariance == FunctionalSpec => []FunctionalInv
    BY InitFunctionalInv, NextFunctionalInv, PTL DEF FunctionalSpec

\* Whatever an adapter answers, the engine records one row per tick from zero on and, once the
\* run is finished, all of them (advance_to() and finalize(), functional_runtime.cpp:22-121).
THEOREM EveryTickIsObserved == FunctionalSpec => []ObservationsSound
    <1>1. FunctionalInv => ObservationsSound
        <2>. SUFFICES ASSUME FunctionalInv PROVE ObservationsSound
            OBVIOUS
        <2>1. FunctionalTypeOK
            BY DEF FunctionalInv, FunctionalTypeOK, RowsComplete
        <2>2. RowsConsecutive
            BY DEF FunctionalInv, RowsConsecutive, RowsComplete
        <2>3. FinishedRunIsObserved
            BY DEF FunctionalInv, FinishedRunIsObserved, ModelInv, RowsComplete
        <2>. QED  BY <2>1, <2>2, <2>3 DEF ObservationsSound
    <1>. QED  BY <1>1, FunctionalInvariance, PTL

\* A model that failed to start keeps the run from ever beginning (initialize() and
\* process_event_tick(), simulation_engine.cpp).
THEOREM NoTickWithoutModel == FunctionalSpec => []NothingRunsWithoutModel
    <1>1. FunctionalInv => NothingRunsWithoutModel
        BY DEF FunctionalInv, ModelInv, NothingRunsWithoutModel, Unstarted
    <1>. QED  BY <1>1, FunctionalInvariance, PTL

\* The number of events before a tick is what CountsBefore says.
LEMMA CountedEvents ==
    ASSUME StateInv, NEW t \in Nat, NEW n \in Nat, CountsBefore(trace, t, n)
    PROVE  EventsBefore(t) = n
    <1>1. Len(trace) \in Nat /\ DOMAIN trace = 1 .. Len(trace)
          /\ \A k \in 1 .. Len(trace) : trace[k].tick \in Nat
        BY TraceTicks
    <1>2. {k \in DOMAIN trace : trace[k].tick < t} = 1 .. n
        <2>1. ASSUME NEW k \in 1 .. n PROVE k \in DOMAIN trace /\ trace[k].tick < t
            BY <1>1 DEF CountsBefore
        <2>2. ASSUME NEW k \in DOMAIN trace, trace[k].tick < t PROVE k \in 1 .. n
            <3>1. k \in n + 1 .. Len(trace) \/ k \in 1 .. n
                BY <1>1
            <3>2. k \in n + 1 .. Len(trace) => trace[k].tick >= t /\ trace[k].tick \in Nat
                BY <1>1 DEF CountsBefore
            <3>. QED  BY <2>2, <3>1, <3>2
        <2>. QED  BY <2>1, <2>2
    <1>3. Cardinality(1 .. n) = n
        BY FS_Interval
    <1>. QED  BY <1>2, <1>3 DEF EventsBefore

\* An action is seen in the observation of the next tick, never earlier and never later: each
\* row's value is the number of events of earlier ticks, with the clocks of engine, runtime and
\* model together while a tick is processed (process_event_tick(), simulation_engine.cpp).
THEOREM ActionsAreSeenNextTick == FunctionalSpec => []ActionsSeenNextTick
    <1>1. FunctionalInv => ActionsSeenNextTick
        <2>. SUFFICES ASSUME FunctionalInv PROVE ActionsSeenNextTick
            OBVIOUS
        <2>1. ClocksAgree
            BY DEF FunctionalInv, ClocksAgree, ModelInv, ModelInTick, Processing, InStep
        <2>2. ASSUME NEW i \in DOMAIN online.runtime.rows
              PROVE  online.runtime.rows[i].value = EventsBefore(online.runtime.rows[i].tick)
            <3>1. StateInv /\ online \in Functional /\ RowsCount(online, trace)
                BY DEF FunctionalInv, RowsComplete
            <3>2. online.runtime.rows[i] \in Row
                BY <3>1, FunctionalFields
            <3>3. online.runtime.rows[i].tick \in Nat /\ online.runtime.rows[i].value \in Nat
                BY <3>2 DEF Row
            <3>. QED  BY <3>1, <3>3, CountedEvents DEF RowsCount
        <2>. QED  BY <2>1, <2>2 DEF ActionsSeenNextTick
    <1>. QED  BY <1>1, FunctionalInvariance, PTL

\* Two runtimes explained by the same trace agree wherever both have a row.
LEMMA RowsAgree ==
    ASSUME NEW f, NEW g, NEW s, Len(s) \in Nat, \A k \in 1 .. Len(s) : s[k].tick \in Nat,
           RowsComplete(f), RowsCount(f, s), RowsComplete(g), RowsCount(g, s),
           NEW i \in DOMAIN f.runtime.rows, i \in DOMAIN g.runtime.rows
    PROVE  f.runtime.rows[i] = g.runtime.rows[i]
    <1>. DEFINE a == f.runtime.rows[i]
                b == g.runtime.rows[i]
    <1>1. f.runtime.rows \in Seq(Row) /\ g.runtime.rows \in Seq(Row)
        BY FunctionalFields DEF RowsComplete
    <1>2. a \in Row /\ b \in Row
        BY <1>1
    <1>3. a.tick = b.tick /\ CountsBefore(s, a.tick, a.value) /\ CountsBefore(s, b.tick, b.value)
        BY DEF RowsComplete, RowsCount
    <1>. HIDE DEF a, b
    <1>4. a.tick \in Nat /\ a.value \in Nat /\ b.value \in Nat
        BY <1>2 DEF Row
    <1>5. a.value = b.value
        <2>1. \A m, n \in Nat : ~ (m < n /\ CountsBefore(s, a.tick, m) /\ CountsBefore(s, a.tick, n))
            <3>. SUFFICES ASSUME NEW m \in Nat, NEW n \in Nat, m < n,
                                 CountsBefore(s, a.tick, m), CountsBefore(s, a.tick, n)
                          PROVE  FALSE
                OBVIOUS
            <3>1. m + 1 \in 1 .. n /\ m + 1 \in m + 1 .. Len(s) /\ m + 1 \in 1 .. Len(s)
                BY DEF CountsBefore
            <3>2. s[m + 1].tick < a.tick /\ s[m + 1].tick >= a.tick /\ s[m + 1].tick \in Nat
                BY <3>1 DEF CountsBefore
            <3>. QED  BY <1>4, <3>2
        <2>. QED  BY <1>3, <1>4, <2>1
    <1>6. a = b
        BY <1>2, <1>3, <1>5 DEF Row
    <1>. QED  BY <1>6 DEF a, b

\* Replaying the trace of a finished run through a fresh model succeeds and gives the rows the
\* run recorded, although the replay skips the ticks in which nothing was accepted
\* (replay_functional_trace(), functional_runtime.cpp).
THEOREM ReplayGivesTheRun == FunctionalSpec => []ReplayReproducesRun
    <1>1. FunctionalInv => ReplayReproducesRun
        <2>. SUFFICES ASSUME FunctionalInv PROVE ReplayReproducesRun
            OBVIOUS
        <2>. DEFINE r == replay.runtime.rows
                    o == online.runtime.rows
        <2>1. /\ r \in Seq(Row) /\ o \in Seq(Row)
              /\ Len(trace) \in Nat /\ \A k \in 1 .. Len(trace) : trace[k].tick \in Nat
            BY FunctionalFields, TraceTicks DEF FunctionalInv, RowsComplete
        <2>2. ~ replay.thrown
            BY DEF FunctionalInv, ReplayInv, NewFunctional
        <2>3. /\ Len(r) <= Len(o)
              /\ replay.runtime.status = "finalized" => Len(r) = Len(o)
            <3>1. CASE replay.runtime.status = "created"
                BY <2>1, <3>1 DEF FunctionalInv, RowsComplete, NewFunctional
            <3>2. CASE replay.runtime.status # "created"
                <4>1. coupled /\ stage = "finished"
                    BY <3>2 DEF FunctionalInv, ReplayInv, NewFunctional
                <4>2. online.runtime.status = "finalized" /\ online.runtime.tick = config.stop
                    BY <4>1 DEF FunctionalInv, ModelInv
                <4>3. Len(o) = config.stop + 1 /\ Len(r) = replay.runtime.tick + 1
                    BY <3>2, <4>2 DEF FunctionalInv, RowsComplete
                <4>4. /\ replay \in Functional /\ replay.runtime.status \in Lifecycle
                      /\ replay.runtime.tick \in Nat /\ config.stop \in Nat
                    BY FunctionalFields, ConfigType DEF FunctionalInv, RowsComplete, StateInv
                <4>5. /\ replay.runtime.tick <= config.stop
                      /\ replay.runtime.status = "finalized" => replay.runtime.tick = config.stop
                    BY <3>2, <4>1, <4>4 DEF FunctionalInv, ReplayInv, Lifecycle
                <4>. QED  BY <4>3, <4>4, <4>5
            <3>. QED  BY <3>1, <3>2
        <2>4. \A i \in 1 .. Len(r) : r[i] = o[i]
            <3>. TAKE i \in 1 .. Len(r)
            <3>1. i \in DOMAIN r /\ i \in DOMAIN o
                BY <2>1, <2>3
            <3>. QED  BY <2>1, <3>1, RowsAgree DEF FunctionalInv
        <2>. HIDE DEF r, o
        <2>5. SubSeq(r, 1, Len(r)) = SubSeq(o, 1, Len(r))
            <3>1. Len(r) \in Nat /\ SubSeq(r, 1, Len(r)) = [i \in 1 .. Len(r) |-> r[i]]
                  /\ SubSeq(o, 1, Len(r)) = [i \in 1 .. Len(r) |-> o[i]]
                BY <2>1, <2>3
            <3>. QED  BY <2>4, <3>1
        <2>6. IsPrefix(r, o)
            BY <2>3, <2>5 DEF IsPrefix
        <2>7. Len(r) = Len(o) => r = o
            BY <2>1, <2>4
        <2>. QED  BY <2>2, <2>3, <2>6, <2>7 DEF ReplayReproducesRun, r, o
    <1>. QED  BY <1>1, FunctionalInvariance, PTL
=============================================================================
