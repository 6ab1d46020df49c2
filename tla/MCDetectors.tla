---------------------------- MODULE MCDetectors -----------------------------
EXTENDS Detectors, Forecasts, TLC

MCAsked == {[method |-> "zscore", window_days |-> 2, threshold |-> <<3, 1>>],
               [method |-> "zscore", window_days |-> 3, threshold |-> <<3, 2>>],
               [method |-> "iqr", window_days |-> 3, threshold |-> <<3, 2>>]}

\* A band around zero and one below it.
MCPredicted == {[yhat |-> 1, lower |-> -1, upper |-> 2], [yhat |-> -2, lower |-> -3, upper |-> -1]}

\* Sorted is what sorting gives, for every window of up to four amounts.
ASSUME SortedAsSortSeq ==
    \A n \in 1..4 : \A values \in [1..n -> 0..3] :
        Sorted([j \in 1..n |-> [ds |-> j, y |-> values[j]]]) = SortSeq(values, <)
=============================================================================
