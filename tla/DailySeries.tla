---------------------------- MODULE DailySeries -----------------------------
(***************************************************************************)
(* The daily series of one metric of one workspace in the forecast service *)
(* (series.py): kpi_hourly summed by day, the days between them filled in, *)
(* and the split of a series into what a model is fitted on and what it is *)
(* scored on.                                                              *)
(* Days are numbered; an event belongs to the day it occurred on and may   *)
(* be stored later.                                                        *)
(***************************************************************************)
EXTENDS Integers, Sequences, FiniteSets, FiniteSetsExt

CONSTANTS
    TrainWindow,    \* train_window_days
    HoldoutDays,    \* HOLDOUT_DAYS
    Margin,         \* the 7 days a series must have beside the holdout
    MaxDay,         \* bound: the last day of a behaviour
    MaxAmount,      \* bound: what a day may amount to
    MaxLate         \* bound: events stored after their day

ASSUME SeriesAssumption ==
    /\ TrainWindow \in Nat \ {0} /\ HoldoutDays \in Nat \ {0} /\ Margin \in Nat
    /\ MaxDay \in Nat /\ MaxAmount \in Nat /\ MaxLate \in Nat

None == -1                      \* no row: amounts are not negative

VARIABLES
    kpi,            \* kpi_hourly: day -> what its rows add up to, or None
    today,          \* the day it is in UTC
    late            \* events stored after their day

seriesVars == <<kpi, today, late>>

SeriesInit == kpi = [d \in 1..MaxDay |-> None] /\ today = 1 /\ late = 0

\* An insert of the consumer reaches mv_kpi_hourly: a count or a revenue
\* grows, a revenue of 0 or a user seen before leaves a row all the same.
Record(d, amount) ==
    LET sum == IF kpi[d] = None THEN amount ELSE kpi[d] + amount IN
    /\ sum <= MaxAmount
    /\ kpi' = [kpi EXCEPT ![d] = sum]
    /\ late' = IF d < today THEN late + 1 ELSE late
    /\ late' <= MaxLate
    /\ UNCHANGED today

NextDay == today < MaxDay /\ today' = today + 1 /\ UNCHANGED <<kpi, late>>

SeriesNext == NextDay \/ \E d \in 1..today, amount \in 0..MaxAmount : Record(d, amount)
SeriesSpec == SeriesInit /\ [][SeriesNext]_seriesVars

-----------------------------------------------------------------------------
(* fetch_daily, of what is stored in table k on day t.                     *)
\* The window ends with the midnight that has passed: today is not in it.
EndsNow(t) == t + 1                         \* mutant: end is not cut to midnight
End(t) == t
Selected(k, t) == {d \in 1..MaxDay : End(t) - TrainWindow <= d /\ d < End(t) /\ k[d] # None}

\* One point a day from the first row to the last, 0 where there is no row.
Fetched(k, t) ==
    LET days == Selected(k, t)
        day(d) == [ds |-> d, y |-> IF k[d] = None THEN 0 ELSE k[d]]
        upTo[d \in 0..MaxDay] == IF d < Min(days) THEN <<>> ELSE Append(upTo[d - 1], day(d))
    IN  IF days = {} THEN <<>> ELSE upTo[Max(days)]

-----------------------------------------------------------------------------
(* The split of evaluation.py and of the two runners.                      *)
SplitHoldout(values) ==
    LET n == Len(values) IN
    IF n <= HoldoutDays + Margin THEN <<values, <<>>>>
    ELSE <<SubSeq(values, 1, n - HoldoutDays), SubSeq(values, n - HoldoutDays + 1, n)>>

\* mutant: [:-holdout] without the condition, which is [:0] for a holdout of 0
TrainSliced(df, holdout) == SubSeq(df, 1, IF holdout = 0 THEN 0 ELSE Len(df) - holdout)
TrainPart(df, holdout) == IF holdout = 0 THEN df ELSE SubSeq(df, 1, Len(df) - holdout)
RunnerSplit(df) ==
    LET holdout == IF Len(df) > HoldoutDays + Margin THEN HoldoutDays ELSE 0
    IN  <<TrainPart(df, holdout),
          IF holdout = 0 THEN <<>> ELSE SubSeq(df, Len(df) - holdout + 1, Len(df))>>

\* The days mape() averages over: none, and it is NaN.
Scored(test) == {i \in 1..Len(test) : test[i].y # 0}

-----------------------------------------------------------------------------
(* What is fitted and what is scored: the days are all there, in order and *)
(* once, up to the last that has data and never into the day that is still *)
(* going on; a model is scored on the days right after those it was fitted *)
(* on, and the helper the tests check cuts where the runners do.           *)
SeriesIsWhole ==
    LET df == Fetched(kpi, today) cut == RunnerSplit(df) IN
    /\ \A i \in 1..Len(df) :
         /\ df[i].ds < today /\ today - df[i].ds <= TrainWindow
         /\ i > 1 => df[i].ds = df[i - 1].ds + 1
         /\ df[i].y = (IF kpi[df[i].ds] = None THEN 0 ELSE kpi[df[i].ds])
    /\ \A d \in 1..MaxDay : (kpi[d] # None /\ d < today /\ today - d <= TrainWindow) =>
         \E i \in 1..Len(df) : df[i] = [ds |-> d, y |-> kpi[d]]
    /\ cut[1] \o cut[2] = df
    /\ cut = SplitHoldout(df)
    /\ cut[2] # <<>> => Len(cut[1]) > Margin
    /\ (cut[2] # <<>> /\ kpi[df[Len(df)].ds] > 0) => Scored(cut[2]) # {}
=============================================================================
