------------------------------ MODULE Drawings ------------------------------
(***************************************************************************)
(* What the models page and the charts make of an answer. Shares are in    *)
(* per mille.                                                              *)
(***************************************************************************)
EXTENDS Integers, Sequences, FiniteSets

\* A model: [metric, kind, at, mape]; a mape that is null is Null.
Null == -1
NoModel == [kind |-> "none"]

-----------------------------------------------------------------------------
(* app/models/page.tsx                                                     *)
\* mutant: the last one listed is taken for the newest
PickLater(a, b) == b
PickNewer(a, b) == IF a = NoModel \/ b.at > a.at THEN b ELSE a

NewestOf(models, metric, kind) ==
    LET after[n \in 0..Len(models)] ==
          IF n = 0 THEN NoModel
          ELSE IF models[n].metric = metric /\ models[n].kind = kind
          THEN PickNewer(after[n - 1], models[n])
          ELSE after[n - 1]
    IN  after[Len(models)]

Rollup(models) ==
    {[metric |-> x, prophet |-> NewestOf(models, x, "prophet"), arima |-> NewestOf(models, x, "arima")] :
       x \in {models[n].metric : n \in 1..Len(models)}}

Mape(model) == IF model = NoModel THEN Null ELSE model.mape
Winner(row) ==
    LET p == Mape(row.prophet) a == Mape(row.arima) IN
    CASE p = Null /\ a = Null -> "none"
      [] p = Null /\ a # Null -> "arima"
      [] p # Null /\ a = Null -> "prophet"
      [] OTHER -> IF p <= a THEN "prophet" ELSE "arima"

-----------------------------------------------------------------------------
(* components/widgets                                                      *)
\* A forecast answer: [history, forecast], sequences of [ds, y, lower, upper].
Combine(answer) ==
    LET past(p) == [ds |-> p.ds, actual |-> p.y, yhat |-> Null, band |-> <<>>]
        next(p) == [ds |-> p.ds, actual |-> Null, yhat |-> p.y, band |-> <<p.lower, p.upper>>]
    IN  [n \in 1..Len(answer.history) |-> past(answer.history[n])]
        \o [n \in 1..Len(answer.forecast) |-> next(answer.forecast[n])]

\* A funnel answer: the users who reached each step.
Bars(reached) ==
    LET max == IF reached = <<>> THEN 0 ELSE reached[1] IN
    [i \in 1..Len(reached) |->
       [width |-> IF max > 0 THEN (1000 * reached[i]) \div max ELSE 0,
        drop |-> IF i > 1 /\ reached[i - 1] > 0
                 THEN (1000 * (reached[i - 1] - reached[i])) \div reached[i - 1] ELSE 0]]

\* A cohort answer: a sequence of [size, weeks], weeks 0 to 12.
MaxCount(cohorts) ==
    LET later == {cohorts[n].weeks[i] : n \in 1..Len(cohorts), i \in 1..12} \cup {0}
    IN  CHOOSE m \in later : \A v \in later : v <= m
Shade(value, max) == IF max <= 0 THEN "none"
                     ELSE IF value >= max THEN "full" ELSE IF value > 0 THEN "part" ELSE "faint"
Percent(part, whole) == (200 * part + whole) \div (2 * whole)     \* Math.round
Cell(row, i, mode, max) ==
    LET value == row.weeks[i] IN
    [shade |-> Shade(value, IF mode = "retention" THEN row.size ELSE max),
     text |-> IF mode = "retention" /\ row.size > 0 THEN <<Percent(value, row.size), "%">>
              ELSE IF value > 0 THEN <<value>> ELSE <<>>]
=============================================================================
