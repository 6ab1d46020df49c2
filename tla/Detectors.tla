----------------------------- MODULE Detectors ------------------------------
(***************************************************************************)
(* POST /anomaly (anomaly.py): the two rolling detectors over a series.    *)
(* An answer is computed from what is stored as it is asked for. Numbers   *)
(* are exact: a mean is a sum over n days, a quantile is in quarters, a    *)
(* threshold a fraction <<num, den>>.                                      *)
(***************************************************************************)
EXTENDS DailySeries

CONSTANT Asked      \* [method, window_days, threshold]: what alerts ask for

ASSUME AskedAssumption ==
    \A q \in Asked : /\ q.method \in {"zscore", "iqr"} /\ q.window_days \in Nat \ {0, 1}
                        /\ q.threshold[1] \in Nat \ {0} /\ q.threshold[2] \in Nat \ {0}

\* The n points before the i-th: closed="left", min_periods=n.
Everything(df, i, n) == SubSeq(df, 1, i - 1)                \* mutant: expanding
WithItself(df, i, n) == SubSeq(df, i - n + 1, i)            \* mutant: closed="right"
Preceding(df, i, n) == SubSeq(df, i - n, i - 1)
Baseline(df, i, n) == IF i <= n THEN <<>> ELSE Preceding(df, i, n)

-----------------------------------------------------------------------------
(* zscore_detect. The variance is n * squares - sum^2, over n^2.           *)
Square(x) == x * x
Total(f, n) ==
    LET upTo[j \in 0..n] == IF j = 0 THEN 0 ELSE upTo[j - 1] + f[j] IN upTo[n]
Values(w) == [j \in 1..Len(w) |-> w[j].y]
Amount(w) == Total(Values(w), Len(w))
Squares(w) == Total([j \in 1..Len(w) |-> Square(w[j].y)], Len(w))
Variance(w) == Len(w) * Squares(w) - Square(Amount(w))

\* mutant: no case of its own for a window without variance
ZAlways(y, w, t) == Square(t[2] * (Len(w) * y - Amount(w))) >= Square(t[1]) * Variance(w)
ZFlags(y, w, t) ==
    LET off == Len(w) * y - Amount(w) IN
    IF Variance(w) = 0 THEN off # 0 ELSE Square(t[2] * off) >= Square(t[1]) * Variance(w)

-----------------------------------------------------------------------------
(* iqr_detect. numpy's quantile: linear between the two nearest values.    *)
\* In order, the k-th is the least that k of them are not above.
Sorted(w) ==
    [k \in 1..Len(w) |->
       Min({v \in Range(Values(w)) : Cardinality({j \in 1..Len(w) : w[j].y <= v}) >= k})]
Quantile(w, quarters) ==                    \* times 4
    LET s == Sorted(w) pos == quarters * (Len(w) - 1) i == pos \div 4 + 1
    IN  4 * s[i] + (IF pos % 4 = 0 THEN 0 ELSE (pos % 4) * (s[i + 1] - s[i]))

\* mutant: the fences themselves are outside
FencesFlag(y, w, t) ==
    LET iqr == Quantile(w, 3) - Quantile(w, 1) IN
    \/ t[2] * 4 * y <= t[2] * Quantile(w, 1) - t[1] * iqr
    \/ t[2] * 4 * y >= t[2] * Quantile(w, 3) + t[1] * iqr
IqrFlags(y, w, t) ==
    LET iqr == Quantile(w, 3) - Quantile(w, 1) IN
    \/ t[2] * 4 * y < t[2] * Quantile(w, 1) - t[1] * iqr
    \/ t[2] * 4 * y > t[2] * Quantile(w, 3) + t[1] * iqr

-----------------------------------------------------------------------------
(* post_anomaly. expected is a fraction, <<0, 0>> for None.                *)
Point(df, i, q) ==
    LET w == Baseline(df, i, q.window_days) y == df[i].y IN
    [ds |-> df[i].ds, value |-> y,
     expected |-> CASE w = <<>> -> <<0, 0>>
                    [] w # <<>> /\ q.method = "zscore" -> <<Amount(w), Len(w)>>
                    [] OTHER -> <<Quantile(w, 2), 4>>,
     is_anomaly |-> /\ w # <<>>
                    /\ IF q.method = "zscore" THEN ZFlags(y, w, q.threshold)
                       ELSE IqrFlags(y, w, q.threshold)]
Answer(k, t, q) == LET df == Fetched(k, t) IN [i \in 1..Len(df) |-> Point(df, i, q)]

-----------------------------------------------------------------------------
Judged(k, t, q) == {p \in Range(Answer(k, t, q)) : p.expected # <<0, 0>>}
DaysBefore(d, n) == (d - n)..(d - 1)
Stored(d) == IF kpi[d] = None THEN 0 ELSE kpi[d]
Steady(d, n) == \A e \in DaysBefore(d, n) : Stored(e) = Stored(d - 1)

(* A flag is a deviation, and the plainest deviation is flagged: no day is *)
(* flagged that is what was expected of it; after days that were all alike *)
(* - a sparse metric's days of nothing too - exactly a day that differs    *)
(* is; and what was expected lies within the days it was expected from.    *)
FlagsAreDeviations ==
    \A q \in Asked : \A p \in Judged(kpi, today, q) :
        LET past == {Stored(e) : e \in DaysBefore(p.ds, q.window_days)} IN
        /\ p.is_anomaly => p.expected[2] * p.value # p.expected[1]
        /\ Steady(p.ds, q.window_days) => (p.is_anomaly <=> p.value # Stored(p.ds - 1))
        /\ p.expected[2] * Min(past) <= p.expected[1] /\ p.expected[1] <= p.expected[2] * Max(past)

(* A day once judged is judged the same for as long as it is answered for, *)
(* whatever the days after it bring, unless an event of the day itself or  *)
(* of its window is stored late: this is what the alerts, which are told   *)
(* of every flagged day again at each pass, and their history rely on.     *)
AnswersAreLocal ==
    [][\A q \in Asked :
         LET before == Judged(kpi, today, q) after == Judged(kpi', today', q) IN
         \A p \in before, r \in after :
           (p.ds = r.ds /\ \A e \in DaysBefore(p.ds, q.window_days) \cup {p.ds} : kpi'[e] = kpi[e])
             => p = r]_seriesVars
=============================================================================
