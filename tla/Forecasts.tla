----------------------------- MODULE Forecasts ------------------------------
(***************************************************************************)
(* What POST /forecast answers with (forecast.py): the series a model was  *)
(* fitted on and the days it predicts after it (forecast_from_artifact of  *)
(* the two runners). What Prophet and pmdarima predict is external: any    *)
(* numbers, the band around the point.                                     *)
(***************************************************************************)
EXTENDS DailySeries

CONSTANTS
    MinRows,        \* MIN_TRAINING_ROWS
    Horizon,        \* horizon_days
    Predicted       \* [yhat, lower, upper]: what may be predicted of a day

ASSUME ForecastAssumption ==
    /\ MinRows \in Nat \ {0} /\ Horizon \in Nat
    /\ \A p \in Predicted : /\ p.yhat \in Int /\ p.lower \in Int /\ p.upper \in Int
                            /\ p.lower <= p.yhat /\ p.yhat <= p.upper

ModelKinds == {"prophet", "arima"}

\* The model that is kept is fitted on the whole series, and keeps it: its
\* history. With too few rows fit_and_persist raises.
FitAndPersist(k, t) == LET df == Fetched(k, t) IN IF Len(df) < MinRows THEN <<>> ELSE df

Clip(x) == IF x < 0 THEN 0 ELSE x
\* Prophet's upper edge is left as it is.
Band(kind, p) == [yhat |-> Clip(p.yhat), lower |-> Clip(p.lower),
                  upper |-> IF kind = "arima" THEN Clip(p.upper) ELSE p.upper]

HistoryPoints(df) ==
    [i \in 1..Len(df) |-> [ds |-> df[i].ds, yhat |-> df[i].y, lower |-> df[i].y, upper |-> df[i].y]]
\* mutant: the last day of the history is predicted too
WithLast(df, i) == df[Len(df)].ds + i - 1
DayAfter(df, i) == df[Len(df)].ds + i
ForecastPoints(kind, df, raw) ==
    [i \in 1..Horizon |-> LET b == Band(kind, raw[i]) IN
       [ds |-> DayAfter(df, i), yhat |-> b.yhat, lower |-> b.lower, upper |-> b.upper]]

PostForecast(kind, df, raw) ==
    [history |-> HistoryPoints(df), forecast |-> ForecastPoints(kind, df, raw)]

-----------------------------------------------------------------------------
AsStored(k, d) == IF k[d] = None THEN 0 ELSE k[d]

\* The answer of a model of this kind, on day t with table k.
Continues(kind, answer, k, t) ==
    LET rows == answer.history \o answer.forecast n == Len(answer.history) IN
    /\ \A i \in 2..Len(rows) : rows[i].ds = rows[i - 1].ds + 1
    /\ \A i \in 1..n : LET p == rows[i] IN
         /\ p.ds < t /\ p.yhat <= AsStored(k, p.ds)
         /\ p.lower = p.yhat /\ p.upper = p.yhat
    /\ \A i \in n + 1..Len(rows) : LET p == rows[i] IN
         /\ 0 <= p.lower /\ p.lower <= p.yhat
         /\ p.yhat <= p.upper \/ (kind = "prophet" /\ p.upper < 0 /\ p.yhat = 0)

(* An answer says what was and what may be, and where one ends: its rows   *)
(* are the days one after the other, the past up to the model's last day   *)
(* as lines without a band, and the future from the next day, not below    *)
(* zero and with the band around the point - except Prophet's when the     *)
(* whole band is below zero, whose point is zero then. A model is asked    *)
(* after it was fitted, when a day has passed or an event come late: its   *)
(* history is never more than is stored then.                              *)
AnswerContinues ==
    [][\A kind \in ModelKinds, raw \in [1..Horizon -> Predicted] :
         LET df == FitAndPersist(kpi, today) IN
         df # <<>> => Continues(kind, PostForecast(kind, df, raw), kpi', today')]_seriesVars
=============================================================================
