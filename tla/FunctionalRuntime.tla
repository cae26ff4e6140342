-------------------------- MODULE FunctionalRuntime --------------------------
(***************************************************************************)
(* The functional runtime and the model it drives, as one value that each  *)
(* call maps to its successor.  The model is the repository's deterministic*)
(* mock: its state grows by the size of the last action batch, one tick    *)
(* after the batch.  An adapter is code of others: it may throw, return    *)
(* too few rows or rows of other ticks; Answer enumerates that.            *)
(***************************************************************************)
EXTENDS Naturals, Sequences

Lifecycle == {"created", "active", "finalized"}

Row == [tick : Nat, value : Nat]

\* A model that answers "ok" returns what the mock returns.
Answer == {"ok", "throws", "short", "shifted"}

Model == [status : Lifecycle, tick : Nat, state : Nat, pending : Nat]

Runtime == [status : Lifecycle, tick : Nat, applied : BOOLEAN, rows : Seq(Row)]

\* thrown: the last call left the runtime with an exception.
Functional == [runtime : Runtime, model : Model, thrown : BOOLEAN]

NewFunctional ==
    [runtime |-> [status |-> "created", tick |-> 0, applied |-> FALSE, rows |-> <<>>],
     model |-> [status |-> "created", tick |-> 0, state |-> 0, pending |-> 0],
     thrown |-> FALSE]

Thrown(f) == [f EXCEPT !.thrown = TRUE]

\* The caller of a sequence of calls stops at the first exception.
Then(f, next(_)) == IF f.thrown THEN f ELSE next(f)

Malformed(rows, answer) ==
    CASE answer = "short" -> IF rows = <<>> THEN rows ELSE Tail(rows)
      [] answer = "shifted" -> [i \in DOMAIN rows |-> [rows[i] EXCEPT !.tick = @ + 1]]
      [] OTHER -> rows

-----------------------------------------------------------------------------
(* MockFunctionalModel *)

ModelStarted(m) == [m EXCEPT !.status = "active"]

ModelRefuses(m, target, stop) == m.status # "active" \/ target < m.tick \/ target > stop

\* Faulty variant of ModelRows: the batch shows one row late.
ModelRowsLate(m, target) ==
    [i \in 1 .. target - m.tick |->
        [tick |-> m.tick + i, value |-> IF i = 1 THEN m.state ELSE m.state + m.pending]]

\* The pending batch counts once, in the first of the ticks.
ModelRows(m, target) ==
    [i \in 1 .. target - m.tick |-> [tick |-> m.tick + i, value |-> m.state + m.pending]]

ModelAdvanced(m, target) ==
    IF target = m.tick THEN m
    ELSE [m EXCEPT !.tick = target, !.state = @ + m.pending, !.pending = 0]

ModelTold(m, actions) == [m EXCEPT !.pending = actions]

-----------------------------------------------------------------------------
(* FunctionalRuntime *)

\* Faulty variant of ValidRows: the ticks of the rows are not looked at.
CountedRows(rt, target, rows) == Len(rows) = target - rt.tick

ValidRows(rt, target, rows) ==
    /\ Len(rows) = target - rt.tick
    /\ \A i \in DOMAIN rows : rows[i].tick = rt.tick + i

\* The row of tick zero; nothing is recorded unless the model delivered it.
Initialize(f, answer) ==
    LET row == Malformed(<<[tick |-> 0, value |-> f.model.state]>>, answer)
    IN  IF f.runtime.status # "created" \/ f.model.status # "created" \/ answer = "throws"
        THEN Thrown(f)
        ELSE IF row = <<>> \/ row[1].tick # 0
             THEN [f EXCEPT !.model = ModelStarted(@), !.thrown = TRUE]
             ELSE [f EXCEPT !.model = ModelStarted(@),
                            !.runtime = [@ EXCEPT !.status = "active", !.rows = row]]

\* The complete batch is validated before any of it is recorded; the model has moved anyway.
AdvanceTo(f, target, stop, answer) ==
    LET rt == f.runtime
        rows == Malformed(ModelRows(f.model, target), answer)
        moved == [f EXCEPT !.model = ModelAdvanced(@, target)]
    IN  CASE rt.status # "active" \/ target < rt.tick \/ target > stop -> Thrown(f)
          [] rt.status = "active" /\ target = rt.tick -> f
          [] OTHER ->
               IF ModelRefuses(f.model, target, stop) \/ answer = "throws" THEN Thrown(f)
               ELSE IF ~ ValidRows(rt, target, rows) THEN Thrown(moved)
               ELSE [moved EXCEPT !.runtime = [rt EXCEPT !.rows = @ \o rows, !.tick = target,
                                                         !.applied = FALSE]]

\* At most one batch per tick, all of it of that tick.
ApplyActions(f, tick, ticks, answer) ==
    LET rt == f.runtime
    IN  IF \/ rt.status # "active" \/ tick # rt.tick \/ rt.applied
           \/ \E i \in DOMAIN ticks : ticks[i] # tick
           \/ f.model.status # "active" \/ tick # f.model.tick \/ answer = "throws"
        THEN Thrown(f)
        ELSE [f EXCEPT !.model = ModelTold(@, Len(ticks)), !.runtime.applied = TRUE]

FinalizeModel(f, stop, answer) ==
    IF \/ f.runtime.status # "active" \/ f.runtime.tick # stop
       \/ f.model.status # "active" \/ f.model.tick # stop \/ answer = "throws"
    THEN Thrown(f)
    ELSE [f EXCEPT !.runtime.status = "finalized", !.model.status = "finalized"]
=============================================================================
