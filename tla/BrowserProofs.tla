--------------------------- MODULE BrowserProofs ---------------------------
(***************************************************************************)
(* Theorems about Browser, for any workspaces, answers, calls in flight and*)
(* mixes of user actions: what the cache holds was on the server, a form   *)
(* has one submission at a time, the card is dismissed by who earned it, a *)
(* page shows what its user has just changed, and what it draws is true to *)
(* the answer.                                                             *)
(***************************************************************************)
EXTENDS Browser, FiniteSetTheorems, SequenceTheorems, WellFoundedInduction, TLAPS

-----------------------------------------------------------------------------
(* What is drawn.                                                          *)

\* What holds of 0 and, with j - 1, of j holds up to n.
LEMMA Onwards ==
    ASSUME NEW n \in Nat, NEW S \in SUBSET (0 .. n), 0 \in S,
           \A j \in 1 .. n : j - 1 \in S => j \in S
    PROVE  S = 0 .. n
<1> DEFINE T == (0 .. n) \ S
           R == OpToRel(<, Nat)
<1>1. T = {}
  <2> SUFFICES ASSUME T # {} PROVE FALSE
    OBVIOUS
  <2>1. T \subseteq Nat
    OBVIOUS
  <2>2. PICK m \in T : \A x \in T : ~(<<x, m>> \in R)
    <3>1. IsWellFoundedOn(R, Nat)
      BY NatLessThanWellFounded
    <3> HIDE DEF T, R
    <3> QED BY <2>1, <3>1, WFMin
  <2>3. ASSUME NEW x \in T PROVE ~(x < m)
    <3>1. x \in Nat /\ m \in Nat /\ ~(<<x, m>> \in R)
      <4> HIDE DEF R, T
      <4> QED BY <2>1, <2>2
    <3> QED BY <3>1 DEF OpToRel
  <2> HIDE DEF R
  <2>4. m \in 1 .. n /\ m - 1 \in 0 .. n
    OBVIOUS
  <2>5. m - 1 \notin T
    BY <2>3, <2>4
  <2> QED BY <2>4, <2>5
<1> QED BY <1>1

\* Going over a list leaves the newest model of the kind.
LEMMA NewestIs ==
    ASSUME NEW val \in Seq(Answers["models"]), NEW x, NEW kind \in {"prophet", "arima"}
    PROVE  LET newest == NewestOf(val, x, kind)
               fits(i) == val[i].metric = x /\ val[i].kind = kind
           IN  \/ newest = NoModel /\ \A i \in 1 .. Len(val) : ~fits(i)
               \/ \E i \in 1 .. Len(val) :
                    /\ fits(i) /\ newest = val[i]
                    /\ \A j \in 1 .. Len(val) : fits(j) => val[j].at <= newest.at
<1> DEFINE n == Len(val)
           Fits1(i) == val[i].metric = x /\ val[i].kind = kind
           Next1(a, j) == IF Fits1(j) THEN PickNewer(a, val[j]) ELSE a
           Goes(m, g) == /\ g = [j \in 0 .. m |-> IF j = 0 THEN NoModel ELSE Next1(g[j - 1], j)]
           Far == {m \in 0 .. n : \E g : Goes(m, g)}
<1>0. n \in Nat /\ \A i \in 1 .. n : val[i] \in Answers["models"]
  OBVIOUS
<1>1. Far = 0 .. n
  <2>1. 0 \in Far
    <3> DEFINE g == [j \in 0 .. 0 |-> NoModel]
    <3>1. Goes(0, g)
      OBVIOUS
    <3> HIDE DEF Goes, g
    <3> QED BY <1>0, <3>1
  <2>2. ASSUME NEW m \in 1 .. n, m - 1 \in Far PROVE m \in Far
    <3>1. PICK g : Goes(m - 1, g)
      BY <2>2
    <3> DEFINE h == [j \in 0 .. m |-> IF j = m THEN Next1(g[m - 1], m) ELSE g[j]]
    <3> HIDE DEF Next1
    <3>2. ASSUME NEW j \in 0 .. m
          PROVE  h[j] = IF j = 0 THEN NoModel ELSE Next1(h[j - 1], j)
      <4>1. CASE j = m
        BY <4>1, <2>2
      <4>2. CASE j # m /\ j # 0
        <5>1. j \in 0 .. m - 1 /\ j - 1 \in 0 .. m /\ j - 1 # m
          BY <4>2
        <5>2. g[j] = Next1(g[j - 1], j)
          BY <5>1, <4>2, <3>1
        <5> QED BY <5>1, <5>2, <4>2
      <4>3. CASE j # m /\ j = 0
        BY <4>3, <3>1, <2>2
      <4> QED BY <4>1, <4>2, <4>3
    <3>3. Goes(m, h)
      BY <3>2
    <3> HIDE DEF h, Goes
    <3> QED BY <3>3
  <2>3. Far \in SUBSET (0 .. n)
    OBVIOUS
  <2>4. \A j \in 1 .. n : j - 1 \in Far => j \in Far
    <3> HIDE DEF Far
    <3> QED BY <2>2
  <2> HIDE DEF Far, n
  <2> QED BY <1>0, <2>1, <2>3, <2>4, Onwards
<1> DEFINE v == CHOOSE g : g = [j \in 0 .. n |-> IF j = 0 THEN NoModel ELSE Next1(g[j - 1], j)]
<1>2. NewestOf(val, x, kind) = v[n]
  BY DEF NewestOf
<1>3. Goes(n, v)
  <2>1. n \in Far
    <3> HIDE DEF Far
    <3> QED BY <1>0, <1>1
  <2> HIDE DEF Next1, n
  <2> QED BY <2>1
<1> HIDE DEF v
<1>4. /\ v[0] = NoModel
      /\ \A j \in 1 .. n : v[j] = IF Fits1(j) THEN PickNewer(v[j - 1], val[j]) ELSE v[j - 1]
  <2> HIDE DEF Next1, n
  <2>1. v = [j \in 0 .. n |-> IF j = 0 THEN NoModel ELSE Next1(v[j - 1], j)]
    BY <1>3
  <2>2. v[0] = NoModel /\ \A j \in 1 .. n : v[j] = Next1(v[j - 1], j)
    <3>1. \A j \in 0 .. n : v[j] = IF j = 0 THEN NoModel ELSE Next1(v[j - 1], j)
      BY <2>1
    <3>2. 0 \in 0 .. n /\ \A j \in 1 .. n : j \in 0 .. n /\ j # 0
      BY <1>0
    <3> QED BY <3>1, <3>2
  <2> QED BY <2>2 DEF Next1
<1> HIDE DEF Goes, Far
<1> DEFINE Is(j) == \/ v[j] = NoModel /\ \A i \in 1 .. j : ~Fits1(i)
                    \/ \E i \in 1 .. j : /\ Fits1(i) /\ v[j] = val[i]
                                         /\ \A l \in 1 .. j : Fits1(l) => val[l].at <= v[j].at
           Good == {j \in 0 .. n : Is(j)}
<1>5. ASSUME NEW j \in 1 .. n, Is(j - 1) PROVE Is(j)
  <2>1. j \in 1 .. j /\ \A i \in 1 .. j : i = j \/ i \in 1 .. j - 1
    OBVIOUS
  <2>2. \A i \in 1 .. j : val[i].at \in Nat /\ (Fits1(i) => val[i] # NoModel)
    <3>1. ASSUME NEW i \in 1 .. j PROVE val[i].at \in Nat /\ val[i].kind \in {"prophet", "arima"}
      <4>1. val[i] \in Answers["models"]
        BY <1>0
      <4> QED BY <4>1, AnswersAssumption
    <3> QED BY <3>1 DEF NoModel
  <2>3. CASE ~Fits1(j)
    <3>1. v[j] = v[j - 1]
      BY <2>3, <1>4
    <3> QED BY <2>1, <2>3, <3>1, <1>5
  <2>4. CASE Fits1(j) /\ v[j - 1] = NoModel
    <3>1. v[j] = val[j]
      BY <2>4, <1>4 DEF PickNewer
    <3>2. \A i \in 1 .. j - 1 : ~Fits1(i)
      BY <2>2, <2>4, <1>5
    <3>3. \A l \in 1 .. j : Fits1(l) => l = j
      BY Zenon, <2>1, <3>2
    <3>4. val[j].at <= val[j].at
      BY <2>1, <2>2
    <3>5. \A l \in 1 .. j : Fits1(l) => val[l].at <= v[j].at
      BY Zenon, <3>1, <3>3, <3>4
    <3> QED BY Zenon, <2>1, <2>4, <3>1, <3>5
  <2>5. CASE Fits1(j) /\ v[j - 1] # NoModel
    <3>1. PICK i \in 1 .. j - 1 : /\ Fits1(i) /\ v[j - 1] = val[i]
                                  /\ \A l \in 1 .. j - 1 : Fits1(l) => val[l].at <= v[j - 1].at
      BY <2>5, <1>5
    <3>2. v[j] = IF val[j].at > val[i].at THEN val[j] ELSE val[i]
      BY <2>5, <3>1, <1>4 DEF PickNewer
    <3>3. i \in 1 .. j /\ val[i].at \in Nat /\ val[j].at \in Nat
      BY <2>2
    <3>4. ASSUME NEW l \in 1 .. j, Fits1(l) PROVE val[l].at <= v[j].at
      <4>1. val[l].at \in Nat
        BY <2>2
      <4>2. CASE l = j
        BY <4>2, <3>2, <3>3
      <4>3. CASE l # j
        BY <4>1, <4>3, <2>1, <3>1, <3>2, <3>3, <3>4
      <4> QED BY <4>2, <4>3
    <3>5. v[j] = val[i] \/ v[j] = val[j]
      BY <3>2
    <3> QED BY <2>1, <2>5, <3>1, <3>3, <3>4, <3>5
  <2> QED BY <2>3, <2>4, <2>5
<1>6. Good = 0 .. n
  <2>1. 0 \in Good
    BY <1>0, <1>4
  <2>2. \A j \in 1 .. n : j - 1 \in Good => j \in Good
    <3> HIDE DEF Is
    <3> QED BY <1>5
  <2>3. Good \in SUBSET (0 .. n)
    OBVIOUS
  <2> HIDE DEF Good, n
  <2> QED BY <1>0, <2>1, <2>2, <2>3, Onwards
<1>7. Is(n)
  <2> HIDE DEF Is
  <2>1. n \in Good
    BY <1>0, <1>6
  <2> QED BY <2>1
<1> QED BY <1>2, <1>7

\* A finite set of numbers has a greatest one.
LEMMA SomeGreatest ==
    ASSUME NEW S \in SUBSET Nat, IsFiniteSet(S), S # {}
    PROVE  \E m \in S : \A v \in S : v <= m
<1>1. PICK n \in Nat : ExistsSurjection(1 .. n, S)
  BY FS_NatSurjection
<1>2. PICK f \in [1 .. n -> S] : \A v \in S : \E i \in 1 .. n : f[i] = v
  BY <1>1 DEF ExistsSurjection, Surjection
<1>3. n # 0
  <2>1. PICK v \in S : TRUE
    OBVIOUS
  <2>2. PICK i \in 1 .. n : f[i] = v
    BY <1>2, <2>1
  <2> QED BY <2>2
<1> DEFINE Top(j) == j = 0 \/ \E i \in 1 .. j : \A l \in 1 .. j : f[l] <= f[i]
           Good == {j \in 0 .. n : Top(j)}
<1>4. ASSUME NEW j \in 1 .. n, Top(j - 1) PROVE Top(j)
  <2>1. \A i \in 1 .. j : f[i] \in Nat /\ (i = j \/ i \in 1 .. j - 1)
    <3>1. \A i \in 1 .. j : i \in 1 .. n /\ (i = j \/ i \in 1 .. j - 1)
      OBVIOUS
    <3>2. \A i \in 1 .. n : f[i] \in S
      BY <1>2
    <3> QED BY <3>1, <3>2
  <2>2. j \in 1 .. j
    OBVIOUS
  <2>3. CASE j - 1 = 0
    BY <2>1, <2>2, <2>3
  <2>4. CASE \E i \in 1 .. j - 1 : \A l \in 1 .. j - 1 : f[l] <= f[i]
    <3>1. PICK i \in 1 .. j - 1 : \A l \in 1 .. j - 1 : f[l] <= f[i]
      BY <2>4
    <3>2. i \in 1 .. j
      OBVIOUS
    <3>3. CASE f[j] <= f[i]
      BY <2>1, <3>1, <3>2, <3>3
    <3>4. CASE f[i] <= f[j]
      <4>1. \A l \in 1 .. j : f[l] <= f[j]
        BY <2>1, <2>2, <3>1, <3>2, <3>4
      <4> QED BY <2>2, <4>1
    <3> QED BY <2>1, <2>2, <3>2, <3>3, <3>4
  <2> QED BY <1>4, <2>3, <2>4
<1>5. Good = 0 .. n
  <2>1. 0 \in Good /\ \A j \in 1 .. n : j - 1 \in Good => j \in Good
    <3>1. Top(0)
      OBVIOUS
    <3> HIDE DEF Top
    <3> QED BY <1>4, <3>1
  <2>2. Good \in SUBSET (0 .. n)
    OBVIOUS
  <2> HIDE DEF Good
  <2> QED BY <2>1, <2>2, Onwards
<1>6. Top(n)
  <2> HIDE DEF Top
  <2>1. n \in Good
    BY <1>5
  <2> QED BY <2>1
<1> QED BY <1>2, <1>3, <1>6

\* Whole parts: of one number by the same divisor, and of a multiple.
LEMMA Quotient ==
    ASSUME NEW a \in Nat, NEW b \in Nat \ {0}
    PROVE  /\ a \div b \in Nat
           /\ b * (a \div b) <= a /\ a < b * (a \div b) + b
<1> DEFINE c == a \div b
           r == a % b
<1>1. c \in Int /\ r \in 0 .. b - 1 /\ a = b * c + r
  OBVIOUS
<1>2. c >= 0
  <2> SUFFICES ASSUME c <= -1 PROVE FALSE
    BY <1>1
  <2>1. b * (-1 - c) >= 0
    BY <1>1
  <2>2. b * (-1 - c) = -b - b * c
    BY <1>1
  <2> QED BY <1>1, <2>1, <2>2
<1> QED BY <1>1, <1>2

LEMMA QuotientIs ==
    ASSUME NEW a \in Nat, NEW b \in Nat \ {0}, NEW q \in Nat, b * q <= a, a < b * q + b
    PROVE  a \div b = q
<1> DEFINE c == a \div b
<1>1. c \in Nat /\ b * c <= a /\ a < b * c + b
  BY Quotient
<1> HIDE DEF c
<1>2. ~(c <= q - 1)
  <2> SUFFICES ASSUME c <= q - 1 PROVE FALSE
    OBVIOUS
  <2>1. b * (q - 1 - c) >= 0
    BY <1>1
  <2>2. b * (q - 1 - c) = b * q - b - b * c
    BY <1>1
  <2>3. b * q \in Int /\ b * c \in Int
    BY <1>1
  <2> QED BY <1>1, <2>1, <2>2, <2>3
<1>3. ~(q <= c - 1)
  <2> SUFFICES ASSUME q <= c - 1 PROVE FALSE
    OBVIOUS
  <2>1. b * (c - 1 - q) >= 0
    BY <1>1
  <2>2. b * (c - 1 - q) = b * c - b - b * q
    BY <1>1
  <2>3. b * q \in Int /\ b * c \in Int
    BY <1>1
  <2> QED BY <1>1, <2>1, <2>2, <2>3
<1>4. c = q
  BY <1>1, <1>2, <1>3
<1> QED BY <1>4 DEF c

LEMMA QuotientGrows ==
    ASSUME NEW a \in Nat, NEW d \in Nat, NEW b \in Nat \ {0}, a <= d
    PROVE  a \div b <= d \div b
<1> DEFINE c == a \div b
           e == d \div b
<1>1. /\ c \in Nat /\ b * c <= a
      /\ e \in Nat /\ d < b * e + b
  BY Quotient
<1> HIDE DEF c, e
<1> SUFFICES ASSUME e <= c - 1 PROVE FALSE
  BY <1>1 DEF c, e
<1>2. b * (c - 1 - e) >= 0
  BY <1>1
<1>3. b * (c - 1 - e) = b * c - b - b * e
  BY <1>1
<1>4. b * e \in Int /\ b * c \in Int
  BY <1>1
<1> QED BY <1>1, <1>2, <1>3, <1>4

LEMMA FunnelIsDrawn ==
    ASSUME NEW reached \in Seq(Nat), \A i \in 2 .. Len(reached) : reached[i] <= reached[i - 1]
    PROVE  FunnelDrawn(reached)
<1> DEFINE n == Len(reached)
           max == reached[1]
           bars == Bars(reached)
<1> SUFFICES ASSUME NEW i \in 2 .. n
             PROVE  /\ bars[i].width <= bars[i - 1].width /\ bars[i - 1].width <= 1000
                    /\ bars[i].drop = 1000 <=> (reached[i] = 0 /\ reached[i - 1] > 0)
  BY DEF FunnelDrawn
<1>1. /\ n \in Nat /\ \A j \in 1 .. n : reached[j] \in Nat
      /\ 1 \in 1 .. n /\ i \in 1 .. n /\ i - 1 \in 1 .. n /\ i > 1 /\ reached # <<>>
  OBVIOUS
<1>2. \A j \in 1 .. n : reached[j] <= max
  <2> DEFINE Good == {j \in 0 .. n : j = 0 \/ reached[j] <= max}
  <2>1. Good = 0 .. n
    <3>1. ASSUME NEW j \in 1 .. n, j - 1 \in Good PROVE j \in Good
      <4>1. CASE j = 1
        BY <4>1, <1>1
      <4>2. CASE j # 1
        <5>1. j \in 2 .. n /\ j - 1 \in 1 .. n
          BY <4>2
        <5> QED BY <5>1, <3>1, <1>1
      <4> QED BY <4>1, <4>2
    <3>2. 0 \in Good /\ Good \in SUBSET (0 .. n) /\ \A j \in 1 .. n : j - 1 \in Good => j \in Good
      BY <1>1, <3>1
    <3> HIDE DEF Good, n
    <3> QED BY <1>1, <3>2, Onwards
  <2>2. ASSUME NEW j \in 1 .. n PROVE reached[j] <= max
    <3>1. j \in Good /\ j # 0
      <4> HIDE DEF Good
      <4> QED BY <2>1
    <3> QED BY <3>1
  <2> QED BY <2>2
<1>3. /\ bars[i].width = IF max > 0 THEN (1000 * reached[i]) \div max ELSE 0
      /\ bars[i - 1].width = IF max > 0 THEN (1000 * reached[i - 1]) \div max ELSE 0
      /\ bars[i].drop = IF reached[i - 1] > 0
                        THEN (1000 * (reached[i - 1] - reached[i])) \div reached[i - 1] ELSE 0
  BY <1>1 DEF Bars
<1> DEFINE a == reached[i - 1]
           b == reached[i]
<1>4. a \in Nat /\ b \in Nat /\ max \in Nat /\ b <= a /\ a <= max
  BY <1>1, <1>2
<1> HIDE DEF a, b, max, bars, n
<1>5. /\ bars[i].width <= bars[i - 1].width /\ bars[i - 1].width <= 1000
  <2>1. CASE max > 0
    <3>1. 1000 * b \in Nat /\ 1000 * a \in Nat /\ 1000 * max \in Nat /\ max \in Nat \ {0}
          /\ 1000 * b <= 1000 * a /\ 1000 * a <= 1000 * max
      BY <1>4, <2>1
    <3>2. (1000 * b) \div max <= (1000 * a) \div max
      BY <3>1, QuotientGrows
    <3>3. (1000 * a) \div max <= (1000 * max) \div max
      <4> DEFINE c == 1000 * a
                 d == 1000 * max
      <4>1. c \in Nat /\ d \in Nat /\ max \in Nat \ {0} /\ c <= d
        BY <3>1
      <4> HIDE DEF c, d
      <4>2. c \div max <= d \div max
        BY ONLY <4>1, QuotientGrows, Zenon
      <4> QED BY <4>2 DEF c, d
    <3>4. (1000 * max) \div max = 1000
      <4>1. max * 1000 = 1000 * max
        BY <1>4
      <4>2. max * 1000 <= 1000 * max /\ 1000 * max < max * 1000 + max
        BY <4>1, <3>1
      <4> QED BY <4>2, <3>1, QuotientIs
    <3> QED BY <1>3, <2>1, <3>2, <3>3, <3>4 DEF a, b
  <2>2. CASE ~(max > 0)
    BY <1>3, <2>2
  <2> QED BY <2>1, <2>2
<1>6. bars[i].drop = 1000 <=> (b = 0 /\ a > 0)
  <2> DEFINE lost == 1000 * (a - b)
             q == lost \div a
  <2>1. CASE ~(a > 0)
    BY <1>3, <2>1 DEF a
  <2>2. CASE a > 0
    <3>0. bars[i].drop = q
      BY <1>3, <2>2 DEF a, b
    <3>1. lost \in Nat /\ a \in Nat \ {0} /\ a * 1000 = 1000 * a /\ bars[i].drop = q
      <4> HIDE DEF q
      <4> QED BY <3>0, <1>4, <2>2
    <3>2. CASE b = 0
      <4>1. a * 1000 <= lost /\ lost < a * 1000 + a
        BY <3>1, <3>2, <1>4
      <4>2. q = 1000
        <5> HIDE DEF lost
        <5> QED BY <3>1, <4>1, QuotientIs
      <4> QED BY <2>2, <3>1, <3>2, <4>2
    <3>3. CASE b # 0
      <4>1. lost < 1000 * a
        BY <1>4, <3>3
      <4>2. a * q <= lost
        <5> HIDE DEF lost
        <5> QED BY <3>1, Quotient
      <4>3. q # 1000
        <5> HIDE DEF lost
        <5>1. q = 1000 => a * 1000 <= lost
          BY <4>2
        <5> HIDE DEF q
        <5> QED BY <3>1, <4>1, <5>1
      <4> QED BY <3>1, <3>3, <4>3
    <3> QED BY <3>2, <3>3
  <2> QED BY <2>1, <2>2, <1>4
<1> QED BY <1>5, <1>6 DEF a, b

LEMMA ModelsAreDrawn ==
    ASSUME NEW val \in Seq(Answers["models"])
    PROVE  ModelsDrawn(val)
<1> DEFINE of(x, kind) == {val[n] : n \in {i \in 1 .. Len(val) : val[i].metric = x /\ val[i].kind = kind}}
           Row(x) == [metric |-> x, prophet |-> NewestOf(val, x, "prophet"), arima |-> NewestOf(val, x, "arima")]
           metrics == {val[n].metric : n \in 1 .. Len(val)}
<1>1. \A i \in 1 .. Len(val) :
        /\ val[i].kind \in {"prophet", "arima"} /\ val[i].at \in Nat /\ val[i].mape \in Nat \cup {Null}
        /\ val[i] # NoModel
  <2>1. ASSUME NEW i \in 1 .. Len(val)
        PROVE  val[i].kind \in {"prophet", "arima"} /\ val[i].at \in Nat /\ val[i].mape \in Nat \cup {Null}
    <3>1. val[i] \in Answers["models"]
      OBVIOUS
    <3> QED BY <3>1, AnswersAssumption
  <2> QED BY <2>1 DEF NoModel
<1>2. Rollup(val) = {Row(x) : x \in metrics}
  BY DEF Rollup
<1>3. {r.metric : r \in Rollup(val)} = metrics
  <2>1. \A x : Row(x).metric = x
    OBVIOUS
  <2> HIDE DEF metrics, Row
  <2>2. \A r \in Rollup(val) : r.metric \in metrics
    BY <1>2, <2>1
  <2>3. \A x \in metrics : \E r \in Rollup(val) : x = r.metric
    BY <1>2, <2>1
  <2> QED BY <2>2, <2>3
<1>4. ASSUME NEW x
      PROVE  LET r == Row(x)
                 kept == [kind \in {"prophet", "arima"} |-> IF kind = "prophet" THEN r.prophet ELSE r.arima]
                 pick == Winner(r)
             IN  /\ \A kind \in {"prophet", "arima"} :
                      IF of(r.metric, kind) = {} THEN kept[kind] = NoModel
                      ELSE /\ kept[kind] \in of(r.metric, kind)
                           /\ \A m \in of(r.metric, kind) : m.at <= kept[kind].at
                 /\ IF pick = "none" THEN Mape(r.prophet) = Null /\ Mape(r.arima) = Null
                    ELSE /\ Mape(kept[pick]) # Null
                         /\ \A kind \in {"prophet", "arima"} :
                              Mape(kept[kind]) = Null \/ Mape(kept[pick]) <= Mape(kept[kind])
  <2> DEFINE r == Row(x)
             kept == [kind \in {"prophet", "arima"} |-> IF kind = "prophet" THEN r.prophet ELSE r.arima]
             pick == Winner(r)
  <2>1. r.metric = x /\ kept["prophet"] = r.prophet /\ kept["arima"] = r.arima
        /\ \A kind \in {"prophet", "arima"} : kept[kind] = NewestOf(val, x, kind)
    OBVIOUS
  <2>2. ASSUME NEW kind \in {"prophet", "arima"}
        PROVE  /\ IF of(x, kind) = {} THEN kept[kind] = NoModel
                  ELSE /\ kept[kind] \in of(x, kind)
                       /\ \A m \in of(x, kind) : m.at <= kept[kind].at
               /\ Mape(kept[kind]) \in Nat \cup {Null}
    <3> DEFINE fits(i) == val[i].metric = x /\ val[i].kind = kind
               newest == NewestOf(val, x, kind)
    <3>1. \/ newest = NoModel /\ \A i \in 1 .. Len(val) : ~fits(i)
          \/ \E i \in 1 .. Len(val) :
               /\ fits(i) /\ newest = val[i]
               /\ \A j \in 1 .. Len(val) : fits(j) => val[j].at <= newest.at
      BY NewestIs
    <3>2. kept[kind] = newest
      BY <2>1
    <3>3. \A m : m \in of(x, kind) <=> \E i \in 1 .. Len(val) : fits(i) /\ m = val[i]
      OBVIOUS
    <3> HIDE DEF newest, kept, of
    <3>4. CASE newest = NoModel /\ \A i \in 1 .. Len(val) : ~fits(i)
      <4>1. of(x, kind) = {} /\ Mape(newest) = Null
        BY <3>3, <3>4 DEF Mape
      <4> QED BY <3>2, <3>4, <4>1
    <3>5. ASSUME NEW i \in 1 .. Len(val), fits(i), newest = val[i],
                 \A j \in 1 .. Len(val) : fits(j) => val[j].at <= newest.at
          PROVE  /\ of(x, kind) # {} /\ newest \in of(x, kind)
                 /\ \A m \in of(x, kind) : m.at <= newest.at
                 /\ Mape(newest) \in Nat \cup {Null}
      <4>1. newest \in of(x, kind)
        BY <3>3, <3>5
      <4>2. \A m \in of(x, kind) : m.at <= newest.at
        BY <3>3, <3>5
      <4>3. Mape(newest) \in Nat \cup {Null}
        BY <3>5, <1>1 DEF Mape
      <4> QED BY <4>1, <4>2, <4>3
    <3> QED BY <3>1, <3>2, <3>4, <3>5
  <2>3. IF pick = "none" THEN Mape(r.prophet) = Null /\ Mape(r.arima) = Null
        ELSE /\ Mape(kept[pick]) # Null
             /\ \A kind \in {"prophet", "arima"} :
                  Mape(kept[kind]) = Null \/ Mape(kept[pick]) <= Mape(kept[kind])
    <3> DEFINE p == Mape(r.prophet)
               a == Mape(r.arima)
    <3>1. p \in Nat \cup {Null} /\ a \in Nat \cup {Null}
          /\ Mape(kept["prophet"]) = p /\ Mape(kept["arima"]) = a
      BY <2>1, <2>2
    <3>2. pick = CASE p = Null /\ a = Null -> "none"
                   [] p = Null /\ a # Null -> "arima"
                   [] p # Null /\ a = Null -> "prophet"
                   [] OTHER -> IF p <= a THEN "prophet" ELSE "arima"
      BY DEF Winner
    <3> HIDE DEF p, a, pick, kept, r
    <3>3. CASE p = Null /\ a = Null
      BY <3>2, <3>3 DEF p, a
    <3>4. CASE p = Null /\ a # Null
      <4>1. pick = "arima"
        BY <3>2, <3>4
      <4> QED BY <3>1, <3>4, <4>1
    <3>5. CASE p # Null /\ a = Null
      <4>1. pick = "prophet"
        BY <3>2, <3>5
      <4> QED BY <3>1, <3>5, <4>1
    <3>6. CASE p # Null /\ a # Null
      <4>1. pick = IF p <= a THEN "prophet" ELSE "arima"
        BY <3>2, <3>6
      <4> QED BY <3>1, <3>6, <4>1
    <3> QED BY <3>3, <3>4, <3>5, <3>6
  <2> HIDE DEF of, kept, pick, r
  <2>4. \A kind \in {"prophet", "arima"} :
          IF of(r.metric, kind) = {} THEN kept[kind] = NoModel
          ELSE /\ kept[kind] \in of(r.metric, kind)
               /\ \A m \in of(r.metric, kind) : m.at <= kept[kind].at
    BY <2>1, <2>2
  <2> QED BY <2>3, <2>4 DEF kept, pick, r
<1> HIDE DEF of, Row, metrics
<1>5. \A r \in Rollup(val) :
        LET kept == [kind \in {"prophet", "arima"} |-> IF kind = "prophet" THEN r.prophet ELSE r.arima]
            pick == Winner(r)
        IN  /\ \A kind \in {"prophet", "arima"} :
                 IF of(r.metric, kind) = {} THEN kept[kind] = NoModel
                 ELSE /\ kept[kind] \in of(r.metric, kind)
                      /\ \A m \in of(r.metric, kind) : m.at <= kept[kind].at
            /\ IF pick = "none" THEN Mape(r.prophet) = Null /\ Mape(r.arima) = Null
               ELSE /\ Mape(kept[pick]) # Null
                    /\ \A kind \in {"prophet", "arima"} :
                         Mape(kept[kind]) = Null \/ Mape(kept[pick]) <= Mape(kept[kind])
  BY <1>2, <1>4
<1> QED BY <1>3, <1>5 DEF ModelsDrawn, of, metrics

\* The places of two lists laid one after the other.
LEMMA Joined ==
    ASSUME NEW S, NEW s \in Seq(S), NEW t \in Seq(S)
    PROVE  /\ Len(s \o t) = Len(s) + Len(t)
           /\ \A i \in 1 .. Len(s) : (s \o t)[i] = s[i]
           /\ \A i \in Len(s) + 1 .. Len(s) + Len(t) : (s \o t)[i] = t[i - Len(s)]
<1>1. Len(s) \in Nat /\ Len(t) \in Nat /\ Len(s \o t) = Len(s) + Len(t)
  OBVIOUS
<1>2. \A i \in 1 .. Len(s) + Len(t) : (s \o t)[i] = IF i <= Len(s) THEN s[i] ELSE t[i - Len(s)]
  BY ConcatProperties
<1> QED BY <1>1, <1>2

LEMMA ForecastIsDrawn ==
    ASSUME NEW answer \in Answers["forecast"]
    PROVE  ForecastDrawn(answer)
<1> DEFINE past == answer.history
           next == answer.forecast
           h == Len(past)
           f == Len(next)
           Point == [ds : Int, y : Nat, lower : Nat, upper : Int]
           given == past \o next
           rows == Combine(answer)
           pastRows == [n \in 1 .. h |-> [ds |-> past[n].ds, actual |-> past[n].y, yhat |-> Null, band |-> <<>>]]
           nextRows == [n \in 1 .. f |-> [ds |-> next[n].ds, actual |-> Null, yhat |-> next[n].y,
                                          band |-> <<next[n].lower, next[n].upper>>]]
<1>1. /\ past \in Seq(Point) /\ next \in Seq(Point)
      /\ \A i \in 2 .. Len(given) : given[i].ds = given[i - 1].ds + 1
      /\ \A i \in 1 .. f : next[i].lower <= next[i].y /\ (next[i].y <= next[i].upper \/ next[i].upper < 0)
  BY AnswersAssumption
<1>2. h \in Nat /\ f \in Nat
  BY <1>1
<1>3. /\ \A i \in 1 .. h : past[i].ds \in Int /\ past[i].y \in Nat
      /\ \A i \in 1 .. f : next[i].ds \in Int /\ next[i].y \in Nat /\ next[i].lower \in Nat /\ next[i].upper \in Int
  <2>1. (\A i \in 1 .. h : past[i] \in Point) /\ \A i \in 1 .. f : next[i] \in Point
    <3> HIDE DEF Point
    <3> QED BY <1>1
  <2> QED BY <2>1
<1> HIDE DEF past, next, h, f
<1>4. rows = pastRows \o nextRows
  BY DEF Combine, past, next, h, f
<1> DEFINE S == {pastRows[i] : i \in 1 .. h} \cup {nextRows[i] : i \in 1 .. f}
<1>5. pastRows \in Seq(S) /\ nextRows \in Seq(S) /\ Len(pastRows) = h /\ Len(nextRows) = f
  <2>1. (\A i \in 1 .. h : pastRows[i] \in S) /\ \A i \in 1 .. f : nextRows[i] \in S
    OBVIOUS
  <2>2. DOMAIN pastRows = 1 .. h /\ DOMAIN nextRows = 1 .. f
        /\ pastRows = [i \in 1 .. h |-> pastRows[i]] /\ nextRows = [i \in 1 .. f |-> nextRows[i]]
    OBVIOUS
  <2> HIDE DEF pastRows, nextRows, S
  <2>3. pastRows \in [1 .. h -> S] /\ nextRows \in [1 .. f -> S]
    BY <2>1, <2>2
  <2> QED BY <2>3, <1>2
<1>6. /\ Len(rows) = h + f
      /\ \A i \in 1 .. h : rows[i] = pastRows[i]
      /\ \A i \in h + 1 .. h + f : rows[i] = nextRows[i - h]
  <2> HIDE DEF pastRows, nextRows, S, rows
  <2>1. /\ Len(pastRows \o nextRows) = Len(pastRows) + Len(nextRows)
        /\ \A i \in 1 .. Len(pastRows) : (pastRows \o nextRows)[i] = pastRows[i]
        /\ \A i \in Len(pastRows) + 1 .. Len(pastRows) + Len(nextRows) :
             (pastRows \o nextRows)[i] = nextRows[i - Len(pastRows)]
    BY <1>5, Joined
  <2> QED BY <1>4, <1>5, <2>1
<1>7. /\ Len(given) = h + f
      /\ \A i \in 1 .. h : given[i] = past[i]
      /\ \A i \in h + 1 .. h + f : given[i] = next[i - h]
  <2> HIDE DEF Point
  <2> QED BY <1>1, <1>2 DEF h, f
<1>a. \A i \in 1 .. h : /\ pastRows[i].ds = past[i].ds /\ pastRows[i].actual = past[i].y
                        /\ pastRows[i].band = <<>>
  OBVIOUS
<1>b. \A i \in 1 .. f : /\ nextRows[i].ds = next[i].ds /\ nextRows[i].actual = Null /\ nextRows[i].yhat = next[i].y
                        /\ nextRows[i].band[1] = next[i].lower /\ nextRows[i].band[2] = next[i].upper
  OBVIOUS
<1> HIDE DEF rows, given, pastRows, nextRows
<1>8. \A i \in 1 .. h + f : rows[i].ds = given[i].ds /\ rows[i].ds \in Int
  <2>1. ASSUME NEW i \in 1 .. h PROVE rows[i].ds = given[i].ds /\ rows[i].ds \in Int
    <3>1. rows[i].ds = past[i].ds
      BY <1>6, <1>a
    <3> QED BY <3>1, <1>3, <1>7
  <2>2. ASSUME NEW i \in h + 1 .. h + f PROVE rows[i].ds = given[i].ds /\ rows[i].ds \in Int
    <3>1. i - h \in 1 .. f
      BY <1>2
    <3>2. rows[i].ds = next[i - h].ds
      BY <3>1, <1>6, <1>b
    <3> QED BY <3>1, <3>2, <1>3, <1>7
  <2>3. \A i \in 1 .. h + f : i \in 1 .. h \/ i \in h + 1 .. h + f
    BY <1>2
  <2> QED BY <2>1, <2>2, <2>3
<1> DEFINE d(i) == rows[i].ds
           N == h + f
<1>9. N \in Nat /\ Len(rows) = N /\ (\A i \in 1 .. N : d(i) \in Int)
      /\ \A i \in 2 .. N : d(i) = d(i - 1) + 1
  <2>1. \A i \in 2 .. N : i \in 1 .. N /\ i - 1 \in 1 .. N
    BY <1>2
  <2>2. N \in Nat /\ Len(rows) = N /\ \A i \in 1 .. N : d(i) \in Int /\ d(i) = given[i].ds
    BY <1>2, <1>6, <1>8
  <2>3. \A i \in 2 .. N : given[i].ds = given[i - 1].ds + 1
    BY <1>1, <1>7
  <2> HIDE DEF d, N
  <2> QED BY <2>1, <2>2, <2>3
<1>10. ASSUME NEW m \in 1 .. N, NEW n \in 1 .. N, m < n PROVE d(m) < d(n)
  <2> DEFINE Good == {j \in 0 .. N : m < j => d(m) < d(j)}
  <2> HIDE DEF d, N
  <2>1. ASSUME NEW j \in 1 .. N, j - 1 \in Good PROVE j \in Good
    <3>1. CASE m < j
      <4>1. j \in 2 .. N /\ j - 1 \in 1 .. N
        BY <3>1, <1>9
      <4>2. d(j) = d(j - 1) + 1 /\ d(j - 1) \in Int /\ d(m) \in Int
        BY <4>1, <1>9
      <4>3. CASE m = j - 1
        BY <4>2, <4>3
      <4>4. CASE m < j - 1
        BY <4>2, <4>4, <2>1
      <4> QED BY <3>1, <4>3, <4>4, <4>1
    <3> QED BY <3>1
  <2>2. 0 \in Good /\ Good \in SUBSET (0 .. N) /\ \A j \in 1 .. N : j - 1 \in Good => j \in Good
    BY <1>9, <2>1
  <2>3. n \in Good
    <3> HIDE DEF Good
    <3>1. Good = 0 .. N
      BY <1>9, <2>2, Onwards
    <3> QED BY <3>1
  <2> QED BY <2>3, <1>10
<1>11. ASSUME NEW n \in 1 .. N
       PROVE  IF n <= h THEN rows[n].band = <<>> /\ rows[n].actual # Null
              ELSE /\ rows[n].actual = Null /\ rows[n].band[1] <= rows[n].yhat
                   /\ rows[n].yhat <= rows[n].band[2] \/ rows[n].band[2] < 0
  <2>1. CASE n <= h
    <3>1. n \in 1 .. h
      BY <2>1, <1>2
    <3>2. rows[n].band = <<>> /\ rows[n].actual = past[n].y
      BY <3>1, <1>6, <1>a
    <3> QED BY <2>1, <3>1, <3>2, <1>3 DEF Null
  <2>2. CASE ~(n <= h)
    <3>1. n \in h + 1 .. h + f /\ n - h \in 1 .. f
      BY <2>2, <1>2
    <3>2. /\ rows[n].actual = Null /\ rows[n].yhat = next[n - h].y
          /\ rows[n].band[1] = next[n - h].lower /\ rows[n].band[2] = next[n - h].upper
      BY <3>1, <1>6, <1>b
    <3> QED BY <2>2, <3>1, <3>2, <1>1
  <2> QED BY <2>1, <2>2
<1> QED BY <1>9, <1>10, <1>11 DEF ForecastDrawn, rows, h, past

LEMMA CohortsAreDrawn ==
    ASSUME NEW cohorts \in Answers["cohort"]
    PROVE  CohortDrawn(cohorts)
<1> DEFINE N == Len(cohorts)
           later == {cohorts[n].weeks[i] : n \in 1 .. N, i \in 1 .. 12} \cup {0}
           max == MaxCount(cohorts)
<1>1. N \in Nat /\ \A n \in 1 .. N : /\ cohorts[n].size \in Nat /\ cohorts[n].size = cohorts[n].weeks[0]
                                     /\ \A i \in 0 .. 12 : cohorts[n].weeks[i] \in Nat
  <2>1. /\ cohorts \in Seq([size : Nat, weeks : [0 .. 12 -> Nat]])
        /\ \A n \in 1 .. N : cohorts[n].size = cohorts[n].weeks[0]
    BY AnswersAssumption
  <2>2. N \in Nat /\ \A n \in 1 .. N : cohorts[n] \in [size : Nat, weeks : [0 .. 12 -> Nat]]
    <3> DEFINE Cohort == [size : Nat, weeks : [0 .. 12 -> Nat]]
    <3>1. cohorts \in Seq(Cohort)
      BY <2>1
    <3> HIDE DEF Cohort
    <3>2. N \in Nat /\ \A n \in 1 .. N : cohorts[n] \in Cohort
      BY <3>1
    <3> QED BY <3>2 DEF Cohort
  <2>3. ASSUME NEW n \in 1 .. N
        PROVE  cohorts[n].size \in Nat /\ \A i \in 0 .. 12 : cohorts[n].weeks[i] \in Nat
    <3>1. cohorts[n].size \in Nat /\ cohorts[n].weeks \in [0 .. 12 -> Nat]
      BY <2>2
    <3> QED BY <3>1
  <2> QED BY <2>1, <2>2, <2>3
<1>2. max \in Nat /\ \A n \in 1 .. N, i \in 1 .. 12 : cohorts[n].weeks[i] <= max
  <2>1. later \in SUBSET Nat /\ later # {} /\ \A n \in 1 .. N, i \in 1 .. 12 : cohorts[n].weeks[i] \in later
    <3> DEFINE C(n, i) == cohorts[n].weeks[i]
    <3>1. ASSUME NEW n \in 1 .. N, NEW i \in 1 .. 12 PROVE C(n, i) \in Nat
      <4>1. i \in 0 .. 12
        OBVIOUS
      <4> QED BY <1>1, <4>1
    <3>2. later = {C(n, i) : n \in 1 .. N, i \in 1 .. 12} \cup {0}
      OBVIOUS
    <3> HIDE DEF C, N, later
    <3>3. later \in SUBSET Nat /\ 0 \in later
      BY <3>1, <3>2
    <3>4. \A n \in 1 .. N, i \in 1 .. 12 : C(n, i) \in later
      BY <3>2
    <3> QED BY <3>3, <3>4 DEF C
  <2>2. IsFiniteSet(later)
    <3> DEFINE places == (1 .. N) \X (1 .. 12)
               at == [p \in places |-> cohorts[p[1]].weeks[p[2]]]
               counts == {at[p] : p \in places}
    <3>1. IsFiniteSet(places)
      <4>1. IsFiniteSet(1 .. N) /\ IsFiniteSet(1 .. 12)
        <5>1. N \in Int /\ 1 \in Int /\ 12 \in Int
          BY <1>1
        <5> HIDE DEF N
        <5> QED BY <5>1, FS_Interval
      <4> QED BY <4>1, FS_Product
    <3>2. \A p \in places : at[p] = cohorts[p[1]].weeks[p[2]]
      <4> HIDE DEF places
      <4> QED BY ONLY DEF at
    <3>3. at = [p \in places |-> at[p]]
      <4> HIDE DEF places
      <4> QED BY ONLY DEF at
    <3>4. \A n \in 1 .. N, i \in 1 .. 12 : cohorts[n].weeks[i] \in counts
      <4> HIDE DEF N, at
      <4> SUFFICES ASSUME NEW n \in 1 .. N, NEW i \in 1 .. 12
                   PROVE  cohorts[n].weeks[i] \in counts
        OBVIOUS
      <4> DEFINE p == <<n, i>>
      <4>1. p \in places /\ p[1] = n /\ p[2] = i
        OBVIOUS
      <4> HIDE DEF places, p
      <4>2. at[p] = cohorts[n].weeks[i]
        BY <3>2, <4>1, Zenon
      <4> QED BY <4>1, <4>2, Zenon DEF counts
    <3> HIDE DEF at, places
    <3>5. at \in Surjection(places, counts)
      BY ONLY <3>3 DEF Surjection, counts
    <3> HIDE DEF counts
    <3>6. IsFiniteSet(counts)
      BY ONLY <3>1, <3>5, FS_Surjection
    <3>7. IsFiniteSet(counts \cup {0})
      BY ONLY <3>6, FS_AddElement
    <3>8. later \subseteq counts \cup {0}
      <4> HIDE DEF N
      <4> QED BY <3>4
    <3> HIDE DEF later
    <3> QED BY ONLY <3>7, <3>8, FS_Subset
  <2>3. max = CHOOSE m \in later : \A v \in later : v <= m
    BY DEF MaxCount
  <2> HIDE DEF later, max
  <2>4. \E m \in later : \A v \in later : v <= m
    BY <2>1, <2>2, SomeGreatest
  <2>5. max \in later /\ \A v \in later : v <= max
    BY <2>3, <2>4
  <2> QED BY <2>1, <2>5
<1> HIDE DEF max, N
<1> SUFFICES ASSUME NEW n \in 1 .. N, NEW i \in 0 .. 12, NEW mode \in {"retention", "count"}
             PROVE  LET row == cohorts[n] cell == Cell(row, i, mode, max) IN
                    /\ (mode = "count" /\ i > 0 /\ cell.shade = "none") => cell.text = <<>>
                    /\ (mode = "count" /\ i > 0 /\ cell.shade = "full") => row.weeks[i] = max
                    /\ (mode = "retention" /\ i = 0 /\ row.size > 0) =>
                         cell = [shade |-> "full", text |-> <<100, "%">>]
  BY DEF CohortDrawn, max, N
<1> DEFINE value == cohorts[n].weeks[i]
           cell == Cell(cohorts[n], i, mode, max)
<1>3. value \in Nat /\ cohorts[n].size \in Nat
  BY <1>1
<1>4. ASSUME mode = "count", i > 0
      PROVE  /\ cell.shade = "none" => cell.text = <<>>
             /\ cell.shade = "full" => value = max
  <2>1. value <= max
    BY <1>2, <1>4
  <2>2. cell.shade = Shade(value, max) /\ cell.text = IF value > 0 THEN <<value>> ELSE <<>>
    BY <1>4 DEF Cell
  <2> HIDE DEF value, cell
  <2>3. Shade(value, max) = "none" => max <= 0
    BY <1>2, <1>3 DEF Shade
  <2>4. Shade(value, max) = "full" => value >= max
    BY <1>2, <1>3 DEF Shade
  <2> QED BY <2>1, <2>2, <2>3, <2>4, <1>2, <1>3
<1>5. ASSUME mode = "retention", i = 0, cohorts[n].size > 0
      PROVE  cell = [shade |-> "full", text |-> <<100, "%">>]
  <2> DEFINE s == cohorts[n].size
  <2>1. value = s
    BY <1>1, <1>5
  <2>2. cell = [shade |-> Shade(value, s), text |-> <<Percent(value, s), "%">>]
    BY <1>5 DEF Cell
  <2> HIDE DEF value, cell, s
  <2>3. s \in Nat /\ s > 0
    BY <1>3, <1>5 DEF s
  <2>4. Shade(s, s) = "full"
    BY <2>3 DEF Shade
  <2>5. Percent(s, s) = 100
    <3> DEFINE a == 200 * s + s
               b == 2 * s
    <3>1. a \in Nat /\ b \in Nat \ {0} /\ b * 100 <= a /\ a < b * 100 + b
      BY <2>3
    <3>2. Percent(s, s) = a \div b
      BY DEF Percent
    <3> HIDE DEF a, b
    <3> QED BY <3>1, <3>2, QuotientIs
  <2> QED BY <2>1, <2>2, <2>4, <2>5
<1> QED BY <1>4, <1>5

-----------------------------------------------------------------------------
USE CacheAssumption, PagesAssumption

(* Keys.                                                                   *)

LEMMA KeyFacts ==
  /\ \A name \in Lists \cup Reports : List(name) \in Keys /\ List(name)[1] = name
  /\ \A name : List(name) \notin Boards
  /\ Boards \subseteq Keys
  /\ \A w \in Workspaces, n \in 1 .. MaxItems : Board(w, n) \in Boards /\ Board(w, n)[2] = w
  /\ \A k \in Boards : k[1] = "dashboard" /\ k[2] \in Workspaces
<1>1. \A name \in Lists \cup Reports : List(name) \in Keys /\ List(name)[1] = name
  BY DEF Keys, List
<1>2. ASSUME NEW name, List(name) \in Boards PROVE FALSE
  <2>1. PICK w \in Workspaces, n \in 1 .. MaxItems : List(name) = Board(w, n)
    BY <1>2 DEF Boards
  <2>2. Len(List(name)) = 1 /\ Len(Board(w, n)) = 3
    BY DEF List, Board
  <2> QED
    BY <2>1, <2>2
<1>3. Boards \subseteq Keys
  BY DEF Keys
<1>4. \A w \in Workspaces, n \in 1 .. MaxItems : Board(w, n) \in Boards /\ Board(w, n)[2] = w
  BY DEF Boards, Board
<1>5. \A k \in Boards : k[1] = "dashboard" /\ k[2] \in Workspaces
  BY DEF Boards, Board
<1> QED
  BY <1>1, <1>2, <1>3, <1>4, <1>5

-----------------------------------------------------------------------------
(* An entry of the cache, beside what is stored and owed under its key.    *)

Was(k, answer, st) ==
  /\ Readable(k, answer.ws)
  /\ Len(answer.val) <= Len(st[answer.ws])
  /\ answer.val = SubSeq(st[answer.ws], 1, Len(answer.val))

Shown(answer, o) == answer.ws = o.ws => Len(answer.val) >= o.len

Fits(k, e, st, o) ==
  /\ e \in EntriesOf(k)
  /\ Loaded(e) => Was(k, e.data, st)
  /\ e.fetch.pc = "read" => Was(k, e.fetch, st)
  /\ Loaded(e) /\ ~e.invalid => Shown(e.data, o)
  /\ e.fetch.pc = "read" => Shown(e.fetch, o)

Shelf(k) == {st \in [Workspaces -> Seq(Items(k))] : \A w \in Workspaces : Len(st[w]) <= MaxItems}
Debt == [ws : Workspaces \cup {NONE}, len : Nat]

EntriesFit == DOMAIN entry = Keys /\ \A k \in Keys : Fits(k, entry[k], stored[k], owed[k])

\* The parts of an entry.
LEMMA EntryParts ==
  ASSUME NEW k, NEW e \in EntriesOf(k)
  PROVE  /\ DOMAIN e = {"data", "fetch", "failed", "invalid"}
         /\ e.data = NoData \/ e.data \in [ws : Workspaces, val : Seq(Items(k))]
         /\ e.fetch \in FetchesOf(k)
         /\ e.failed \in BOOLEAN /\ e.invalid \in BOOLEAN
         /\ Loaded(e) => e.data.ws \in Workspaces /\ e.data.val \in Seq(Items(k))
         /\ ~Loaded(e) => e.data.val = <<>>
         /\ Fetching(e) => e.fetch.tries \in Nat
         /\ e.fetch.pc \in {"idle", "sent", "read"}
         /\ e.fetch.pc = "sent" => e.fetch.ws \in Workspaces \cup {NONE}
         /\ e.fetch.pc = "read" => e.fetch.ws \in Workspaces /\ e.fetch.val \in Seq(Items(k))
<1>1. e.data \in {NoData} \cup [ws : Workspaces, val : Seq(Items(k))] /\ e.fetch \in FetchesOf(k)
  BY DEF EntriesOf
<1>2. /\ Loaded(e) => e.data.ws \in Workspaces /\ e.data.val \in Seq(Items(k))
      /\ ~Loaded(e) => e.data.val = <<>>
  BY <1>1 DEF NoData, Loaded
<1>3. e.fetch = NoFetch \/ e.fetch \in [pc : {"sent"}, ws : Workspaces \cup {NONE}, tries : Nat]
      \/ e.fetch \in [pc : {"read"}, ws : Workspaces, tries : Nat, val : Seq(Items(k))]
  BY <1>1 DEF FetchesOf
<1>4. /\ Fetching(e) => e.fetch.tries \in Nat
      /\ e.fetch.pc \in {"idle", "sent", "read"}
      /\ e.fetch.pc = "sent" => e.fetch.ws \in Workspaces \cup {NONE}
      /\ e.fetch.pc = "read" => e.fetch.ws \in Workspaces /\ e.fetch.val \in Seq(Items(k))
  BY <1>3 DEF NoFetch, Fetching
<1>5. DOMAIN e = {"data", "fetch", "failed", "invalid"} /\ e.failed \in BOOLEAN /\ e.invalid \in BOOLEAN
  BY DEF EntriesOf
<1> QED
  BY <1>1, <1>2, <1>4, <1>5

LEMMA AbsentFits ==
  ASSUME NEW k, NEW st, NEW o
  PROVE  Fits(k, Absent, st, o)
<1>1. Absent \in EntriesOf(k) /\ ~Loaded(Absent) /\ Absent.fetch.pc = "idle"
  BY DEF Absent, EntriesOf, FetchesOf, NoFetch, NoData, Loaded
<1> QED
  BY <1>1 DEF Fits

LEMMA SentFits ==
  ASSUME NEW k, NEW st, NEW o, NEW e, Fits(k, e, st, o),
         NEW ws \in Workspaces \cup {NONE}, NEW n \in Nat
  PROVE  /\ Fits(k, Sent(e, ws, n), st, o)
         /\ Sent(e, ws, n).data = e.data /\ Fetching(Sent(e, ws, n))
<1> DEFINE x == Sent(e, ws, n)
<1>0. e \in EntriesOf(k)
  BY DEF Fits
<1>1. x.data = e.data /\ x.invalid = e.invalid /\ x.failed = (e.failed /\ Loaded(e))
      /\ x.fetch = [pc |-> "sent", ws |-> ws, tries |-> n]
  BY <1>0, EntryParts DEF Sent
<1>2. x.fetch \in FetchesOf(k)
  BY <1>1 DEF FetchesOf
<1>3. x \in EntriesOf(k)
  <2>1. x = [e EXCEPT !.fetch = [pc |-> "sent", ws |-> ws, tries |-> n],
                      !.failed = e.failed /\ Loaded(e)]
    BY DEF Sent
  <2>2. (e.failed /\ Loaded(e)) \in BOOLEAN
    OBVIOUS
  <2> HIDE DEF x
  <2> QED
    BY <1>0, <1>1, <1>2, <2>1, <2>2 DEF EntriesOf
<1>4. Loaded(x) <=> Loaded(e)
  BY <1>1 DEF Loaded
<1>5. x.fetch.pc = "sent"
  BY <1>1
<1> HIDE DEF x
<1>6. Fits(k, x, st, o)
  BY <1>1, <1>3, <1>4, <1>5 DEF Fits
<1> QED
  BY <1>1, <1>5, <1>6 DEF x, Fetching

LEMMA MountedFits ==
  ASSUME NEW k, NEW st, NEW o, NEW e, Fits(k, e, st, o),
         NEW ws \in Workspaces \cup {NONE}, NEW old
  PROVE  LET x == Mounted(e, ws, k \in old) IN
         /\ Fits(k, x, st, o) /\ x.data = e.data
         /\ Loaded(x) /\ x.invalid => Fetching(x)
<1>1. CASE Fetching(e) \/ (Loaded(e) /\ ~e.invalid /\ k \notin old)
  BY <1>1 DEF Mounted
<1>2. CASE ~(Fetching(e) \/ (Loaded(e) /\ ~e.invalid /\ k \notin old))
  BY <1>2, SentFits DEF Mounted, Start
<1> QED
  BY <1>1, <1>2

\* What a change does to the entry of its key: the change may then be owed,
\* unless a fetch goes on that may have missed it.
LEMMA InvalidatedFits ==
  ASSUME NEW k, NEW st, NEW o, NEW e, Fits(k, e, st, o),
         session \in Workspaces \cup {NONE}, NEW shown
  PROVE  LET x == Invalidated(e, k \in shown) IN
         /\ Fits(k, x, st, o) /\ x.data = e.data
         /\ k \in shown /\ Loaded(x) /\ x.invalid => Fetching(x)
         /\ ~Fetching(e) \/ (Loaded(e) /\ k \in shown) => \A p : Fits(k, x, st, p)
<1> DEFINE x == Invalidated(e, k \in shown)
           marked == [e EXCEPT !.invalid = TRUE]
<1>0. e \in EntriesOf(k)
  BY DEF Fits
<1>1. /\ marked.data = e.data /\ marked.fetch = e.fetch /\ marked.invalid = TRUE
      /\ marked \in EntriesOf(k)
  BY <1>0, EntryParts DEF EntriesOf
<1>2. (Loaded(marked) <=> Loaded(e)) /\ (Fetching(marked) <=> Fetching(e))
  BY <1>1 DEF Loaded, Fetching
<1>3. Fits(k, marked, st, o)
  <2> HIDE DEF marked
  <2> QED
    BY <1>1, <1>2 DEF Fits
<1>4. \A p : ~Fetching(e) => Fits(k, marked, st, p)
  <2> HIDE DEF marked
  <2> QED
    BY <1>1, <1>2, <1>3 DEF Fits, Fetching
<1>5. CASE ~Loaded(e) /\ ~Fetching(e)
  <2>1. x = e
    BY <1>5 DEF Invalidated
  <2>2. e.fetch.pc = "idle"
    BY <1>5 DEF Fetching
  <2>3. \A p : Fits(k, e, st, p)
    BY <1>5, <2>2 DEF Fits
  <2> QED
    BY <1>5, <2>1, <2>3
<1>6. CASE ~(~Loaded(e) /\ ~Fetching(e)) /\ k \in shown /\ ~IsLoading(e)
  <2>1. x = Sent(marked, session, 1) /\ Loaded(e)
    BY <1>6 DEF Invalidated, Start, IsLoading
  <2> HIDE DEF marked
  <2>2. /\ Fits(k, Sent(marked, session, 1), st, o)
        /\ Sent(marked, session, 1).data = e.data /\ Fetching(Sent(marked, session, 1))
    BY <1>1, <1>3, SentFits
  <2>3. Sent(marked, session, 1).invalid /\ Sent(marked, session, 1).fetch.pc = "sent"
    BY <1>1, EntryParts DEF Sent
  <2>4. \A p : Fits(k, Sent(marked, session, 1), st, p)
    BY <2>2, <2>3 DEF Fits
  <2> QED
    BY <2>1, <2>2, <2>4
<1>7. CASE ~(~Loaded(e) /\ ~Fetching(e)) /\ ~(k \in shown /\ ~IsLoading(e))
  <2>1. x = marked
    BY <1>7 DEF Invalidated
  <2>2. k \in shown => Fetching(e) /\ ~Loaded(e)
    BY <1>7 DEF IsLoading
  <2> HIDE DEF marked, x
  <2> QED
    BY <1>1, <1>2, <1>3, <1>4, <2>1, <2>2 DEF x
<1> QED
  BY <1>5, <1>6, <1>7

LEMMA LandedFits ==
  ASSUME NEW k, NEW st, NEW o, NEW e, Fits(k, e, st, o), e.fetch.pc = "read"
  PROVE  Fits(k, Landed(e), st, o) /\ Landed(e).invalid = FALSE
<1> DEFINE x == Landed(e)
<1>0. e \in EntriesOf(k) /\ e.fetch.ws \in Workspaces /\ e.fetch.val \in Seq(Items(k))
  BY EntryParts DEF Fits
<1>1. /\ x.data = [ws |-> e.fetch.ws, val |-> e.fetch.val] /\ x.fetch = NoFetch
      /\ x.failed = FALSE /\ x.invalid = FALSE /\ x \in EntriesOf(k)
  BY <1>0 DEF Landed, EntriesOf, FetchesOf
<1>2. x.fetch.pc = "idle" /\ x.data.ws = e.fetch.ws /\ x.data.val = e.fetch.val
  BY <1>1 DEF NoFetch
<1> HIDE DEF x
<1>3. Was(k, x.data, st) /\ Shown(x.data, o)
  BY <1>2 DEF Fits, Was, Shown
<1>4. Fits(k, x, st, o)
  BY <1>1, <1>2, <1>3 DEF Fits
<1> QED
  BY <1>1, <1>4 DEF x

\* The server answers with what is stored, and what is owed is stored.
LEMMA ReadFits ==
  ASSUME NEW k, NEW st \in Shelf(k), NEW o \in Debt, NEW e, Fits(k, e, st, o),
         e.fetch.pc = "sent", Readable(k, e.fetch.ws),
         o.ws # NONE => o.len <= Len(st[o.ws])
  PROVE  LET x == [e EXCEPT !.fetch = [pc |-> "read", ws |-> e.fetch.ws, tries |-> e.fetch.tries,
                                       val |-> st[e.fetch.ws]]] IN
         Fits(k, x, st, o) /\ x.data = e.data /\ Fetching(x)
<1> DEFINE w == e.fetch.ws
           f == [pc |-> "read", ws |-> w, tries |-> e.fetch.tries, val |-> st[w]]
           x == [e EXCEPT !.fetch = f]
<1>0. e \in EntriesOf(k) /\ w \in Workspaces \cup {NONE} /\ w # NONE
  BY EntryParts DEF Fits, Readable
<1>1. w \in Workspaces /\ st[w] \in Seq(Items(k)) /\ e.fetch.tries \in Nat
  BY <1>0, EntryParts DEF Shelf, Fetching
<1>2. f \in FetchesOf(k) /\ f.pc = "read" /\ f.ws = w /\ f.val = st[w]
  BY <1>1 DEF FetchesOf
<1>3. Was(k, f, st)
  <2>1. SubSeq(st[w], 1, Len(st[w])) = st[w] /\ Len(st[w]) \in Nat
    BY <1>1
  <2> HIDE DEF f, w
  <2> QED
    BY <1>2, <2>1 DEF Was, w
<1>4. Shown(f, o)
  <2> HIDE DEF f
  <2>1. o.len \in Nat /\ Len(st[w]) \in Nat
    BY <1>1 DEF Debt
  <2>2. w = o.ws => o.len <= Len(st[w])
    BY <1>1, CacheAssumption
  <2> QED
    BY <1>2, <2>1, <2>2 DEF Shown
<1> HIDE DEF f, w
<1>5. x.data = e.data /\ x.fetch = f /\ x.invalid = e.invalid /\ x \in EntriesOf(k)
  BY <1>0, <1>2, EntryParts DEF EntriesOf
<1>6. Loaded(x) <=> Loaded(e)
  BY <1>5 DEF Loaded
<1> HIDE DEF x
<1>7. Fits(k, x, st, o)
  BY <1>2, <1>3, <1>4, <1>5, <1>6 DEF Fits
<1>8. Fetching(x)
  BY <1>2, <1>5 DEF Fetching
<1> QED
  BY <1>5, <1>7, <1>8 DEF x, f, w

LEMMA FailedFits ==
  ASSUME NEW k, NEW st, NEW o, NEW e, Fits(k, e, st, o)
  PROVE  LET x == [e EXCEPT !.fetch = NoFetch, !.failed = TRUE] IN
         Fits(k, x, st, o) /\ x.data = e.data /\ x.failed = TRUE
<1> DEFINE x == [e EXCEPT !.fetch = NoFetch, !.failed = TRUE]
<1>1. e \in EntriesOf(k)
  BY DEF Fits
<1>2. /\ x.data = e.data /\ x.fetch = NoFetch /\ x.invalid = e.invalid /\ x.failed = TRUE
      /\ x \in EntriesOf(k)
  BY <1>1, EntryParts DEF EntriesOf, FetchesOf
<1>3. (Loaded(x) <=> Loaded(e)) /\ x.fetch.pc = "idle"
  BY <1>2 DEF Loaded, NoFetch
<1> HIDE DEF x
<1>4. Fits(k, x, st, o)
  BY <1>2, <1>3 DEF Fits
<1> QED
  BY <1>2, <1>4 DEF x

\* A write leaves what was answered a beginning of what is stored.
LEMMA GrownFits ==
  ASSUME NEW k, NEW st \in Shelf(k), NEW o, NEW e, Fits(k, e, st, o),
         NEW w \in Workspaces, NEW item \in Items(k)
  PROVE  Fits(k, e, [st EXCEPT ![w] = Append(@, item)], o)
<1> DEFINE up == [st EXCEPT ![w] = Append(@, item)]
<1>1. ASSUME NEW answer, answer.ws \in Workspaces, answer.val \in Seq(Items(k)), Was(k, answer, st)
      PROVE  Was(k, answer, up)
  <2> DEFINE s == st[answer.ws]
             n == Len(answer.val)
  <2>1. s \in Seq(Items(k)) /\ n \in Nat /\ n <= Len(s) /\ answer.val = SubSeq(s, 1, n)
    BY <1>1 DEF Was, Shelf
  <2>2. up[answer.ws] = s \/ up[answer.ws] = Append(s, item)
    BY <1>1 DEF Shelf
  <2> HIDE DEF s, n, up
  <2>3. n <= Len(Append(s, item)) /\ SubSeq(Append(s, item), 1, n) = SubSeq(s, 1, n)
    <3>1. Len(Append(s, item)) = Len(s) + 1 /\ \A i \in 1 .. n : Append(s, item)[i] = s[i]
      BY <2>1
    <3> QED
      BY <2>1, <3>1
  <2> QED
    BY <1>1, <2>1, <2>2, <2>3 DEF Was, n
<1>2. /\ e \in EntriesOf(k)
      /\ Loaded(e) => e.data.ws \in Workspaces /\ e.data.val \in Seq(Items(k))
      /\ e.fetch.pc = "read" => e.fetch.ws \in Workspaces /\ e.fetch.val \in Seq(Items(k))
  BY EntryParts DEF Fits
<1> HIDE DEF up
<1>3. Fits(k, e, up, o)
  BY <1>1, <1>2 DEF Fits
<1> QED
  BY <1>3 DEF up

-----------------------------------------------------------------------------
(* The cache, and the queries a page observes.                             *)

CacheFits(cache, st, o) == DOMAIN cache = Keys /\ \A k \in Keys : Fits(k, cache[k], st[k], o[k])
ShelvesFit(st) == DOMAIN st = Keys /\ \A k \in Keys : st[k] \in Shelf(k)
PageOK(pg) == pg.at = "board" => pg.id \in Boards

\* What is invalidated is fetched, unless that failed.
Rests(e) == Loaded(e) /\ e.invalid => Fetching(e) \/ e.failed
Settled(pg, mounted, cache) == mounted => \A k \in Observed(pg, cache) : Rests(cache[k])

LEMMA ListFacts ==
  /\ List("dashboards") \in Keys /\ List("api-keys") \in Keys /\ List("models") \in Keys
  /\ List("alerts") \in Keys /\ List("alert-history") \in Keys
  BY KeyFacts DEF Lists

\* The boards the list of dashboards leads to.
LEMMA BoardsListed ==
  ASSUME NEW cache, NEW st, NEW o, CacheFits(cache, st, o), ShelvesFit(st)
  PROVE  LET d == cache[List("dashboards")].data IN
         /\ Len(d.val) \in Nat
         /\ \A n \in 1 .. Len(d.val) : Board(d.ws, n) \in Boards
         /\ FirstBoard(cache) \subseteq Boards
<1> DEFINE k == List("dashboards")
           d == cache[k].data
<1>1. k \in Keys /\ Fits(k, cache[k], st[k], o[k]) /\ st[k] \in Shelf(k)
  BY ListFacts DEF CacheFits, ShelvesFit
<1> HIDE DEF k
<1>2. CASE Loaded(cache[k])
  <2>1. d.ws \in Workspaces /\ d.val \in Seq(Items(k)) /\ Len(d.val) <= Len(st[k][d.ws])
    BY <1>1, <1>2, EntryParts DEF Fits, Was
  <2>2. Len(st[k][d.ws]) \in Nat /\ Len(st[k][d.ws]) <= MaxItems /\ Len(d.val) \in Nat
    BY <1>1, <2>1 DEF Shelf
  <2>3. \A n \in 1 .. Len(d.val) : n \in 1 .. MaxItems
    BY <2>1, <2>2
  <2>4. \A n \in 1 .. Len(d.val) : Board(d.ws, n) \in Boards
    BY <2>1, <2>3, KeyFacts
  <2>5. d.val # <<>> => Len(d.val) \in 1 .. Len(d.val)
    BY <2>1
  <2> QED
    BY <2>2, <2>4, <2>5 DEF FirstBoard, k
<1>3. CASE ~Loaded(cache[k])
  <2>1. d.val = <<>>
    BY <1>1, <1>3, EntryParts DEF Fits
  <2>2. Len(d.val) = 0
    BY <2>1
  <2>3. 1 .. Len(d.val) = {}
    BY <2>2
  <2> QED
    BY <2>1, <2>2, <2>3 DEF FirstBoard, k
<1> QED
  BY <1>2, <1>3

LEMMA ObservedKeys ==
  ASSUME NEW cache, NEW st, NEW o, CacheFits(cache, st, o), ShelvesFit(st),
         NEW pg, PageOK(pg)
  PROVE  Observed(pg, cache) \subseteq Keys
<1>1. CardKeys(cache) \subseteq Keys
  BY BoardsListed, KeyFacts, ListFacts DEF CardKeys
<1>2. pg.at = "board" => BoardKeys(pg, cache) \subseteq Keys
  BY KeyFacts DEF BoardKeys, PageOK
<1> QED
  BY <1>1, <1>2, ListFacts DEF Observed

\* What a page observes depends on the answers only.
LEMMA ObservedSame ==
  ASSUME NEW c1, NEW c2, \A k \in Keys : c2[k].data = c1[k].data, NEW pg, PageOK(pg)
  PROVE  Observed(pg, c2) = Observed(pg, c1)
<1>1. CardKeys(c2) = CardKeys(c1)
  BY ListFacts DEF CardKeys, FirstBoard
<1>2. pg.at = "board" => BoardKeys(pg, c2) = BoardKeys(pg, c1)
  BY KeyFacts DEF BoardKeys, WidgetsOf, PageOK
<1> QED
  BY <1>1, <1>2 DEF Observed

LEMMA AppearSettles ==
  ASSUME NEW cache, NEW st, NEW o, CacheFits(cache, st, o), ShelvesFit(st),
         NEW pg, PageOK(pg), NEW ws \in Workspaces \cup {NONE}, NEW seen,
         Appear(pg, cache, ws, seen),
         \A k \in seen \cap Observed(pg, cache) : Rests(cache[k])
  PROVE  CacheFits(entry', st, o) /\ Settled(pg, TRUE, entry')
<1> DEFINE new == Observed(pg, cache) \ seen
<1>1. PICK old : entry' = MountAll(cache, ws, new, old)
  BY DEF Appear
<1>2. DOMAIN entry' = Keys
      /\ \A k \in Keys : entry'[k] = IF k \in new THEN Mounted(cache[k], ws, k \in old) ELSE cache[k]
  BY <1>1 DEF MountAll
<1> HIDE DEF new
<1>3. ASSUME NEW k \in Keys
      PROVE  /\ Fits(k, entry'[k], st[k], o[k]) /\ entry'[k].data = cache[k].data
             /\ k \in new => Rests(entry'[k])
  <2>1. Fits(k, cache[k], st[k], o[k])
    BY DEF CacheFits
  <2> DEFINE x == Mounted(cache[k], ws, k \in old)
  <2>2. Fits(k, x, st[k], o[k]) /\ x.data = cache[k].data /\ (Loaded(x) /\ x.invalid => Fetching(x))
    BY <2>1, MountedFits
  <2> HIDE DEF x
  <2>3. entry'[k] = IF k \in new THEN x ELSE cache[k]
    BY <1>2 DEF x
  <2> QED
    BY <2>1, <2>2, <2>3 DEF Rests
<1>4. Observed(pg, entry') = Observed(pg, cache) /\ Observed(pg, cache) \subseteq Keys
  BY <1>3, ObservedSame, ObservedKeys
<1>5. ASSUME NEW k \in Observed(pg, entry') PROVE Rests(entry'[k])
  <2>1. CASE k \in seen
    <3>1. Rests(cache[k]) /\ k \in Keys /\ k \notin new
      BY <1>4, <2>1 DEF new
    <3> QED
      BY <1>2, <3>1
  <2>2. CASE k \notin seen
    BY <1>3, <1>4, <2>2 DEF new
  <2> QED
    BY <2>1, <2>2
<1> QED
  BY <1>2, <1>3, <1>5 DEF CacheFits, Settled

LEMMA GoSettles ==
  ASSUME CacheFits(entry, stored, owed), ShelvesFit(stored), NEW at, NEW id, at = "board" => id \in Boards,
         NEW ws \in Workspaces \cup {NONE}, NEW going, Go(at, id, ws, going)
  PROVE  CacheFits(entry', stored, owed) /\ PageOK(page') /\ Settled(page', ready', entry')
<1>1. PageOK(page') /\ page'.at = at
  BY DEF Go, PageOK
<1>2. CASE Section(at) = Section(page.at) /\ ready
  <2>1. Appear(page', entry, ws, {})
    BY <1>2 DEF Go
  <2>2. CacheFits(entry', stored, owed) /\ Settled(page', TRUE, entry')
    BY <1>1, <2>1, AppearSettles
  <2> QED
    BY <1>1, <2>2 DEF Settled
<1>3. CASE ~(Section(at) = Section(page.at) /\ ready)
  <2>1. entry' = entry /\ (ready' <=> at \in SignIns)
    BY <1>3 DEF Go
  <2>2. at \in SignIns => Observed(page', entry') = {}
    BY <1>1 DEF Observed, SignIns
  <2> QED
    BY <1>1, <2>1, <2>2 DEF Settled
<1> QED
  BY <1>2, <1>3

-----------------------------------------------------------------------------
(* The inductive invariant, in parts that follow the actions.              *)

SessionOK == session \in Workspaces \cup {NONE} /\ ready \in BOOLEAN
OwedOK == owed \in [Keys -> Debt]
FlagsOK == open \subseteq Forms \cup {"issued"} /\ flags \subseteq {"eventSent", "dismissed"}
CallsFit == DOMAIN calls = Slots /\ \A s \in Slots : CallOK(calls[s])

Posted(c, b) == c.what = b /\ c.here = "here"
ButtonsAgree ==
  /\ button \in [Buttons -> {"idle", "pending", "error"}]
  /\ \A b \in Buttons :
       /\ button[b] = "pending" <=> \E s \in Slots : Posted(calls[s], b)
       /\ \A s, t \in Slots : Posted(calls[s], b) /\ Posted(calls[t], b) => s = t
\* A sign-in whose form is mounted is on a page with such a form.
SignInsStay == \A s \in Slots, b \in SignIns : Posted(calls[s], b) => page.at \in SignIns

DataFits == /\ CacheFits(entry, stored, owed) /\ ShelvesFit(stored) /\ OwedOK
            /\ PageOK(page) /\ Settled(page, ready, entry)

Core == /\ SessionOK /\ FlagsOK /\ DataFits /\ CallsFit
        /\ ButtonsAgree /\ SignInsStay /\ OwedIsStored /\ DismissedIsEarned

\* Which actions change which variables.
LEMMA Frame ==
  ASSUME [Next]_vars
  PROVE  /\ UNCHANGED session \/ Logout \/ OtherTab \/ \E s \in Slots : SignedIn(s)
         /\ UNCHANGED stored \/ OthersWrite \/ \E s \in Slots : Executed(s)
         /\ UNCHANGED owed \/ \E s \in Slots : Succeeds(s)
         /\ UNCHANGED flags \/ MarkEvent \/ Dismiss
         /\ \/ UNCHANGED <<page, ready, entry, stored, owed>> \/ OthersWrite
            \/ Navigate \/ Logout \/ Reload \/ LayoutEffect
            \/ \E k \in Keys : ServerReads(k) /\ UNCHANGED <<session, stored, page, ready, owed>>
            \/ \E k \in Keys : FetchFails(k, Retries(k)) /\ UNCHANGED <<session, stored, page, ready, owed>>
            \/ \E k \in Keys : Lands(k)
            \/ \E s \in Slots : Executed(s) \/ SignedIn(s) \/ Succeeds(s)
         /\ \/ UNCHANGED calls \/ Navigate \/ Logout \/ Reload \/ ChangeAlert
            \/ \E b \in Buttons : Submit(b)
            \/ \E s \in Slots : Executed(s) \/ Fails(s) \/ SignedIn(s) \/ Succeeds(s)
         /\ \/ UNCHANGED <<button, calls, page>> \/ Navigate \/ Logout \/ Reload \/ ChangeAlert \/ Refused
            \/ LayoutEffect
            \/ \E b \in Buttons : Submit(b)
            \/ \E s \in Slots : Executed(s) \/ Fails(s) \/ SignedIn(s) \/ Succeeds(s)
         /\ \/ UNCHANGED open \/ Navigate \/ Logout \/ Reload
            \/ \E b \in Buttons : OpenOrClose(b)
            \/ \E s \in Slots : SignedIn(s) \/ Succeeds(s)
<1>1. CASE Fetches
  <2>1. PICK k \in Keys :
             \/ ServerReads(k) /\ UNCHANGED <<session, stored, ui, calls, flags, owed, env>>
             \/ FetchFails(k, Retries(k)) /\ UNCHANGED <<session, stored, ui, calls, flags, owed>>
             \/ Lands(k)
    BY <1>1 DEF Fetches
  <2> QED
    BY <2>1, Zenon DEF Lands, ui
<1>2. CASE Replies
  <2>1. PICK s \in Slots : Executed(s) \/ Fails(s) \/ SignedIn(s) \/ Succeeds(s)
    BY <1>2, Zenon DEF Replies
  <2>2. CASE Executed(s)
    BY <2>2, Zenon DEF Executed, ui
  <2>3. CASE Fails(s)
    BY <2>3, Zenon DEF Fails, ui
  <2>4. CASE SignedIn(s)
    BY <2>4, Zenon DEF SignedIn, ui
  <2>5. CASE Succeeds(s)
    BY <2>5, Zenon DEF Succeeds, ui
  <2> QED
    BY <2>1, <2>2, <2>3, <2>4, <2>5
<1>3. CASE LayoutEffect
  BY <1>3, Zenon DEF LayoutEffect
<1>4. CASE Navigate \/ Logout \/ OtherTab \/ Reload
  BY <1>4, Zenon DEF Navigate, Logout, OtherTab, Reload, ui
<1>5. CASE \E b \in Buttons : OpenOrClose(b)
  BY <1>5, Zenon DEF OpenOrClose
<1>6. CASE \E b \in Buttons : Submit(b)
  BY <1>6, Zenon DEF Submit
<1>7. CASE Refused \/ ChangeAlert
  BY <1>7, Zenon DEF Refused, ChangeAlert, ui
<1>8. CASE MarkEvent \/ Dismiss
  BY <1>8, Zenon DEF MarkEvent, Dismiss, ui
<1>9. CASE OthersWrite
  BY <1>9, Zenon DEF OthersWrite, ui
<1>10. CASE UNCHANGED vars
  BY <1>10, Zenon DEF vars, ui
<1> QED
  BY <1>1, <1>2, <1>3, <1>4, <1>5, <1>6, <1>7, <1>8, <1>9, <1>10, Zenon DEF Next, User

-----------------------------------------------------------------------------
(* The cache and the page, one lemma per action that touches them.         *)

\* A call of a slot that is not idle.
LEMMA CallParts ==
  ASSUME NEW c, CallOK(c)
  PROVE  /\ c.pc # "idle" => c # NoCall
         /\ c # NoCall =>
              /\ DOMAIN c = {"what", "pc", "here", "key", "ws", "of", "item", "len"}
              /\ c.what \in Buttons \cup {"changeAlert"} /\ c.pc \in {"sent", "done", "failed"}
              /\ c.here \in {"here", "left", "gone"}
              /\ c.ws \in Workspaces \cup {NONE} /\ c.len \in Nat
              /\ c.what \in SignIns => c.ws \in Workspaces
              /\ c.what \notin SignIns => c.key \in Keys /\ c.item \in Items(c.key)
  BY DEF CallOK, NoCall

LEMMA WriteKeeps ==
  ASSUME DataFits, NEW k \in Keys, NEW w \in Workspaces, NEW item \in Items(k), Write(k, w, item)
  PROVE  /\ CacheFits(entry, stored', owed) /\ ShelvesFit(stored')
         /\ \A j \in Keys, v \in Workspaces :
              /\ Len(stored[j][v]) \in Nat /\ Len(stored'[j][v]) \in Nat
              /\ Len(stored[j][v]) <= Len(stored'[j][v])
         /\ Len(stored'[k][w]) = Len(stored[k][w]) + 1
<1>1. /\ CacheFits(entry, stored, owed) /\ DOMAIN stored = Keys
      /\ \A j \in Keys : stored[j] \in [Workspaces -> Seq(Items(j))]
      /\ \A j \in Keys, v \in Workspaces : Len(stored[j][v]) <= MaxItems
      /\ Len(stored[k][w]) < MaxItems
      /\ stored' = [stored EXCEPT ![k][w] = Append(stored[k][w], item)]
  BY DEF DataFits, ShelvesFit, Shelf, Write
<1> DEFINE up == [stored[k] EXCEPT ![w] = Append(stored[k][w], item)]
<1>2. DOMAIN stored' = Keys /\ stored'[k] = up /\ \A j \in Keys \ {k} : stored'[j] = stored[j]
  BY <1>1
<1>3. /\ stored[k][w] \in Seq(Items(k)) /\ Append(stored[k][w], item) \in Seq(Items(k))
      /\ Len(Append(stored[k][w], item)) = Len(stored[k][w]) + 1
      /\ Len(stored[k][w]) \in Nat
  BY <1>1
<1>4. /\ up \in [Workspaces -> Seq(Items(k))] /\ up[w] = Append(stored[k][w], item)
      /\ \A v \in Workspaces \ {w} : up[v] = stored[k][v]
  BY <1>1, <1>3
<1>5. up \in Shelf(k)
  <2>1. \A v \in Workspaces : Len(up[v]) <= MaxItems
    BY <1>1, <1>3, <1>4
  <2> HIDE DEF up
  <2> QED
    BY <1>4, <2>1 DEF Shelf
<1>6. ShelvesFit(stored')
  <2> HIDE DEF up
  <2>1. \A j \in Keys : stored[j] \in Shelf(j)
    BY DEF DataFits, ShelvesFit
  <2> QED
    BY <1>2, <1>5, <2>1 DEF ShelvesFit
<1>7. CacheFits(entry, stored', owed)
  <2>1. Fits(k, entry[k], stored[k], owed[k]) /\ stored[k] \in Shelf(k)
    BY <1>1 DEF CacheFits, DataFits, ShelvesFit
  <2>2. Fits(k, entry[k], up, owed[k])
    BY <2>1, GrownFits
  <2> HIDE DEF up
  <2> QED
    BY <1>1, <1>2, <2>2 DEF CacheFits
<1>8. ASSUME NEW j \in Keys, NEW v \in Workspaces
      PROVE  /\ Len(stored[j][v]) \in Nat /\ Len(stored'[j][v]) \in Nat
             /\ Len(stored[j][v]) <= Len(stored'[j][v])
  <2>1. Len(stored[j][v]) \in Nat
    BY <1>1
  <2>2. stored'[j][v] = stored[j][v] \/ (j = k /\ v = w /\ stored'[j][v] = Append(stored[k][w], item))
    BY <1>2, <1>4
  <2> QED
    BY <1>3, <2>1, <2>2
<1>9. Len(stored'[k][w]) = Len(stored[k][w]) + 1
  BY <1>2, <1>3, <1>4
<1> QED
  BY <1>6, <1>7, <1>8, <1>9

\* Every write of the model is one of somebody to something.
LEMMA Writes ==
  ASSUME CallsFit, OthersWrite \/ \E s \in Slots : Executed(s)
  PROVE  /\ UNCHANGED <<entry, page, ready, owed>>
         /\ UNCHANGED stored \/ \E k \in Keys, w \in Workspaces : \E item \in Items(k) : Write(k, w, item)
<1>1. CASE OthersWrite
  BY <1>1, Zenon DEF OthersWrite, ui
<1>2. ASSUME NEW s \in Slots, Executed(s)
      PROVE  /\ UNCHANGED <<entry, page, ready, owed>>
             /\ UNCHANGED stored \/ \E k \in Keys, w \in Workspaces : \E item \in Items(k) : Write(k, w, item)
  <2> DEFINE c == calls[s]
  <2>1. /\ UNCHANGED <<entry, page, ready, owed>> /\ c.pc = "sent"
        /\ UNCHANGED stored \/ (c.what \notin SignIns /\ Served(c) /\ Write(c.key, c.ws, c.item))
    BY <1>2, Zenon DEF Executed, ui
  <2>2. CallOK(c)
    BY DEF CallsFit
  <2> HIDE DEF c
  <2>3. /\ c.ws \in Workspaces \cup {NONE}
        /\ c.what \notin SignIns => c.key \in Keys /\ c.item \in Items(c.key)
    BY <2>1, <2>2, CallParts
  <2>4. c.what \notin SignIns /\ Served(c) => c.ws # NONE
    BY DEF Served
  <2>5. CASE UNCHANGED stored
    BY <2>1, <2>5
  <2>6. CASE c.what \notin SignIns /\ Served(c) /\ Write(c.key, c.ws, c.item)
    <3>1. c.key \in Keys /\ c.ws \in Workspaces /\ c.item \in Items(c.key)
      BY <2>3, <2>4, <2>6
    <3> QED
      BY <2>1, <2>6, <3>1, Zenon
  <2> QED
    BY <2>1, <2>5, <2>6
<1> QED
  BY <1>1, <1>2

LEMMA WritesData ==
  ASSUME DataFits, CallsFit, OthersWrite \/ \E s \in Slots : Executed(s)
  PROVE  DataFits'
<1>1. UNCHANGED <<entry, page, ready, owed>> /\ CacheFits(entry, stored', owed) /\ ShelvesFit(stored')
  BY Writes, WriteKeeps DEF DataFits
<1> QED
  BY <1>1 DEF DataFits, OwedOK

LEMMA ReadsData ==
  ASSUME DataFits, OwedIsStored, NEW k \in Keys, ServerReads(k), UNCHANGED <<session, stored, page, ready, owed>>
  PROVE  DataFits'
<1> DEFINE e == entry[k]
           x == [e EXCEPT !.fetch = [pc |-> "read", ws |-> e.fetch.ws, tries |-> e.fetch.tries,
                                     val |-> stored[k][e.fetch.ws]]]
<1>1. /\ CacheFits(entry, stored, owed) /\ stored[k] \in Shelf(k) /\ owed[k] \in Debt
      /\ Fits(k, e, stored[k], owed[k]) /\ PageOK(page) /\ Settled(page, ready, entry)
  BY DEF DataFits, CacheFits, ShelvesFit, OwedOK
<1>2. e.fetch.pc = "sent" /\ Readable(k, e.fetch.ws)
      /\ entry' = [entry EXCEPT ![k].fetch = [pc |-> "read", ws |-> e.fetch.ws, tries |-> e.fetch.tries,
                                              val |-> stored[k][e.fetch.ws]]]
  BY DEF ServerReads
<1>3. owed[k].ws # NONE => owed[k].len <= Len(stored[k][owed[k].ws])
  BY DEF OwedIsStored
<1>4. Fits(k, x, stored[k], owed[k]) /\ x.data = e.data /\ Fetching(x)
  <2> HIDE DEF e
  <2> QED
    BY <1>1, <1>2, <1>3, ReadFits
<1>5. entry' = [entry EXCEPT ![k] = x] /\ DOMAIN entry = Keys
  BY <1>1, <1>2 DEF CacheFits
<1> HIDE DEF x
<1>6. CacheFits(entry', stored, owed) /\ entry'[k] = x /\ \A j \in Keys \ {k} : entry'[j] = entry[j]
  BY <1>1, <1>4, <1>5 DEF CacheFits
<1>7. Observed(page, entry') = Observed(page, entry)
  BY <1>1, <1>4, <1>6, ObservedSame
<1>8. Observed(page, entry) \subseteq Keys
  BY <1>1, ObservedKeys DEF DataFits
<1>9. Settled(page, ready, entry')
  BY <1>1, <1>4, <1>6, <1>7, <1>8 DEF Settled, Rests
<1> QED
  BY <1>6, <1>9 DEF DataFits, OwedOK

LEMMA FailsData ==
  ASSUME DataFits, SessionOK, NEW k \in Keys, FetchFails(k, Retries(k)),
         UNCHANGED <<session, stored, page, ready, owed>>
  PROVE  DataFits'
<1> DEFINE e == entry[k]
           f == [e EXCEPT !.fetch = NoFetch, !.failed = TRUE]
           r == Sent(e, session, e.fetch.tries + 1)
<1>1. /\ CacheFits(entry, stored, owed) /\ Fits(k, e, stored[k], owed[k]) /\ e \in EntriesOf(k)
      /\ PageOK(page) /\ Settled(page, ready, entry)
  BY DEF DataFits, CacheFits, Fits
<1>2. PICK x : (x = r \/ x = f) /\ entry' = [entry EXCEPT ![k] = x] /\ Fetching(e)
  BY DEF FetchFails
<1> HIDE DEF e
<1>3. e.fetch.tries + 1 \in Nat
  BY <1>1, <1>2, EntryParts
<1>4. Fits(k, r, stored[k], owed[k]) /\ r.data = e.data /\ Fetching(r)
  BY <1>1, <1>3, SentFits DEF SessionOK
<1>5. Fits(k, f, stored[k], owed[k]) /\ f.data = e.data /\ f.failed = TRUE
  BY <1>1, FailedFits
<1> HIDE DEF r, f
<1>6. Fits(k, x, stored[k], owed[k]) /\ x.data = e.data /\ Rests(x)
  BY <1>2, <1>4, <1>5 DEF Rests
<1>7. CacheFits(entry', stored, owed) /\ entry'[k] = x /\ \A j \in Keys \ {k} : entry'[j] = entry[j]
  BY <1>1, <1>2, <1>6 DEF CacheFits
<1>8. Observed(page, entry') = Observed(page, entry)
  BY <1>1, <1>6, <1>7, ObservedSame DEF e
<1>9. Observed(page, entry) \subseteq Keys
  BY <1>1, ObservedKeys DEF DataFits
<1>10. Settled(page, ready, entry')
  BY <1>1, <1>6, <1>7, <1>8, <1>9 DEF Settled
<1> QED
  BY <1>7, <1>10 DEF DataFits, OwedOK

LEMMA LandsData ==
  ASSUME DataFits, SessionOK, NEW k \in Keys, Lands(k)
  PROVE  DataFits'
<1> DEFINE x == Landed(entry[k])
           cache == [entry EXCEPT ![k] = x]
           seen == IF ready THEN Active ELSE Keys
<1>1. /\ CacheFits(entry, stored, owed) /\ Fits(k, entry[k], stored[k], owed[k]) /\ ShelvesFit(stored)
      /\ PageOK(page) /\ Settled(page, ready, entry)
  BY DEF DataFits, CacheFits
<1>2. entry[k].fetch.pc = "read" /\ Appear(page, cache, session, seen)
      /\ UNCHANGED <<session, stored, page, ready, owed>>
  BY DEF Lands, ui
<1>3. Fits(k, x, stored[k], owed[k]) /\ x.invalid = FALSE
  BY <1>1, <1>2, LandedFits
<1> HIDE DEF x
<1>4. CacheFits(cache, stored, owed) /\ cache[k] = x /\ \A j \in Keys \ {k} : cache[j] = entry[j]
  BY <1>1, <1>3 DEF CacheFits
<1> HIDE DEF cache
<1>5. Observed(page, cache) \subseteq Keys
  BY <1>1, <1>4, ObservedKeys
<1>6. CASE ready
  <2>1. seen = Observed(page, entry)
    BY <1>6 DEF Active
  <2>2. \A j \in seen \cap Observed(page, cache) : Rests(cache[j])
    BY <1>1, <1>3, <1>4, <1>5, <1>6, <2>1 DEF Settled, Rests
  <2> HIDE DEF seen
  <2>3. CacheFits(entry', stored, owed) /\ Settled(page, TRUE, entry')
    BY <1>1, <1>2, <1>4, <2>2, AppearSettles DEF SessionOK
  <2> QED
    BY <1>1, <1>2, <2>3 DEF DataFits, OwedOK, Settled
<1>7. CASE ~ready
  <2>1. Observed(page, cache) \ seen = {}
    BY <1>5, <1>7
  <2>2. PICK old : entry' = MountAll(cache, session, {}, old)
    BY <1>2, <2>1 DEF Appear
  <2>3. entry' = [j \in Keys |-> cache[j]]
    BY <2>2 DEF MountAll
  <2>4. CacheFits(entry', stored, owed) /\ Settled(page, ready, entry')
    BY <1>4, <1>7, <2>3 DEF CacheFits, Settled
  <2> QED
    BY <1>1, <1>2, <2>4 DEF DataFits, OwedOK
<1> QED
  BY <1>6, <1>7

LEMMA SucceedsData ==
  ASSUME DataFits, SessionOK, CallsFit, NEW s \in Slots, Succeeds(s)
  PROVE  DataFits'
<1> DEFINE c == calls[s]
           k == c.key
           e == entry[k]
           x == Invalidated(e, k \in Active)
<1>1. /\ c.pc = "done" /\ c.what \notin SignIns
      /\ entry' = InvalidateQueries(entry, {k}, Active)
      /\ owed' = IF Cancels(k) THEN [owed EXCEPT ![k] = [ws |-> c.ws, len |-> c.len]] ELSE owed
      /\ UNCHANGED <<session, stored, page, ready>>
  BY DEF Succeeds, Touched
<1>2. CallOK(c)
  BY DEF CallsFit
<1> HIDE DEF c
<1>3. k \in Keys /\ c.ws \in Workspaces \cup {NONE} /\ c.len \in Nat
  BY <1>1, <1>2, CallParts
<1>4. Cancels(k) <=> ~Fetching(e) \/ (Loaded(e) /\ k \in Active)
  BY DEF Cancels
<1> HIDE DEF k
<1>5. /\ CacheFits(entry, stored, owed) /\ Fits(k, e, stored[k], owed[k]) /\ ShelvesFit(stored)
      /\ PageOK(page) /\ Settled(page, ready, entry) /\ owed \in [Keys -> Debt]
  BY <1>3 DEF DataFits, CacheFits, OwedOK
<1>6. entry' = [j \in Keys |-> IF j = k THEN x ELSE entry[j]]
  BY <1>1 DEF InvalidateQueries
<1> HIDE DEF e
<1>7. /\ Fits(k, x, stored[k], owed[k]) /\ x.data = e.data
      /\ k \in Active /\ Loaded(x) /\ x.invalid => Fetching(x)
      /\ Cancels(k) => \A p : Fits(k, x, stored[k], p)
  <2>1. session \in Workspaces \cup {NONE}
    BY DEF SessionOK
  <2>2. /\ Fits(k, x, stored[k], owed[k]) /\ x.data = e.data
        /\ k \in Active /\ Loaded(x) /\ x.invalid => Fetching(x)
        /\ ~Fetching(e) \/ (Loaded(e) /\ k \in Active) => \A p : Fits(k, x, stored[k], p)
    BY ONLY <1>5, <2>1, InvalidatedFits
  <2> HIDE DEF x
  <2> QED BY ONLY <1>4, <2>2
<1> HIDE DEF x
<1>8. entry'[k] = x /\ (\A j \in Keys \ {k} : entry'[j] = entry[j]) /\ DOMAIN entry' = Keys
  BY <1>3, <1>6
<1>9. owed' \in [Keys -> Debt] /\ \A j \in Keys \ {k} : owed'[j] = owed[j]
  <2>1. [ws |-> c.ws, len |-> c.len] \in Debt
    BY <1>3 DEF Debt
  <2> QED
    BY <1>1, <1>3, <1>5, <2>1
<1>10. Fits(k, x, stored[k], owed'[k])
  BY <1>1, <1>7
<1>11. CacheFits(entry', stored, owed')
  BY <1>5, <1>8, <1>9, <1>10 DEF CacheFits
<1>12. Observed(page, entry') = Observed(page, entry) /\ Observed(page, entry) \subseteq Keys
  BY <1>5, <1>7, <1>8, ObservedSame, ObservedKeys DEF e
<1>13. Settled(page, ready, entry')
  BY <1>5, <1>7, <1>8, <1>12 DEF Settled, Rests, Active
<1> QED
  BY <1>1, <1>5, <1>9, <1>11, <1>13 DEF DataFits, OwedOK

LEMMA MovesData ==
  ASSUME DataFits, SessionOK, [Next]_vars,
         \/ Navigate \/ Logout \/ Reload \/ LayoutEffect
         \/ \E s \in Slots : CallOK(calls[s]) /\ SignedIn(s)
  PROVE  DataFits'
<1>1. /\ CacheFits(entry, stored, owed) /\ ShelvesFit(stored) /\ PageOK(page)
      /\ Settled(page, ready, entry) /\ session \in Workspaces \cup {NONE}
  BY DEF DataFits, SessionOK
<1>2. CASE Navigate
  <2>1. PICK at, id : Go(at, id, session, calls) /\ (at = "board" => id \in Boards)
    <3>1. ASSUME NEW at \in Links \ {page.at}, Go(at, <<>>, session, calls)
          PROVE  at # "board"
      BY <3>1 DEF Links, SignIns
    <3>2. BoardLinks \subseteq Boards
      BY <1>1, BoardsListed DEF BoardLinks
    <3> QED
      BY <1>2, <3>1, <3>2 DEF Navigate
  <2>2. CacheFits(entry', stored, owed) /\ PageOK(page') /\ Settled(page', ready', entry')
    BY <1>1, <2>1, GoSettles
  <2>3. UNCHANGED <<stored, owed>>
    BY <1>2 DEF Navigate
  <2> QED
    BY <1>1, <2>2, <2>3 DEF DataFits, OwedOK
<1>3. CASE Logout
  <2>1. Go("login", <<>>, NONE, calls) /\ UNCHANGED <<stored, owed>>
    BY <1>3 DEF Logout
  <2>2. CacheFits(entry', stored, owed) /\ PageOK(page') /\ Settled(page', ready', entry')
    BY <1>1, <2>1, GoSettles
  <2> QED
    BY <1>1, <2>1, <2>2 DEF DataFits, OwedOK
<1>4. CASE Reload
  <2>1. entry' = [k \in Keys |-> Absent] /\ ready' = FALSE /\ UNCHANGED <<page, stored, owed>>
    BY <1>4 DEF Reload
  <2>2. CacheFits(entry', stored, owed)
    BY <2>1, AbsentFits DEF CacheFits
  <2> QED
    BY <1>1, <2>1, <2>2 DEF DataFits, OwedOK, Settled
<1>5. CASE LayoutEffect
  <2>1. CASE session = NONE
    <3>1. page'.at = "login" /\ UNCHANGED <<entry, stored, owed>>
      BY <1>5, <2>1 DEF LayoutEffect
    <3>2. PageOK(page') /\ Observed(page', entry') = {}
      BY <3>1 DEF PageOK, Observed
    <3> QED
      BY <1>1, <3>1, <3>2 DEF DataFits, OwedOK, Settled
  <2>2. CASE session # NONE
    <3>1. Appear(page, entry, session, {}) /\ UNCHANGED <<page, stored, owed>>
      BY <1>5, <2>2 DEF LayoutEffect
    <3>2. CacheFits(entry', stored, owed) /\ Settled(page, TRUE, entry')
      BY <1>1, <3>1, AppearSettles
    <3> QED
      BY <1>1, <3>1, <3>2 DEF DataFits, OwedOK, Settled
  <2> QED
    BY <2>1, <2>2
<1>6. ASSUME NEW s \in Slots, CallOK(calls[s]), SignedIn(s) PROVE DataFits'
  <2> DEFINE going == [calls EXCEPT ![s] = NoCall]
  <2>1. /\ UNCHANGED <<stored, owed>>
        /\ calls[s].pc = "done" /\ calls[s].what \in SignIns /\ session' = calls[s].ws
        /\ UNCHANGED <<entry, page, ready>> \/ Go("dashboards", <<>>, session', going)
    BY <1>6 DEF SignedIn, ui
  <2>2. session' \in Workspaces \cup {NONE}
    BY <1>6, <2>1, CallParts
  <2>3. CASE UNCHANGED <<entry, page, ready>>
    BY <1>1, <2>1, <2>3 DEF DataFits, OwedOK
  <2>4. CASE Go("dashboards", <<>>, session', going)
    <3>1. PICK w \in Workspaces \cup {NONE} : Go("dashboards", <<>>, w, going)
      BY <2>2, <2>4
    <3>2. CacheFits(entry', stored, owed) /\ PageOK(page') /\ Settled(page', ready', entry')
      BY <1>1, <3>1, GoSettles
    <3> QED
      BY <1>1, <2>1, <3>2 DEF DataFits, OwedOK
  <2> QED
    BY <2>1, <2>3, <2>4
<1> QED
  BY <1>2, <1>3, <1>4, <1>5, <1>6

LEMMA DataStep ==
  ASSUME Core, [Next]_vars
  PROVE  DataFits'
<1>1. DataFits /\ SessionOK /\ CallsFit /\ OwedIsStored
  BY DEF Core
<1>2. CASE UNCHANGED <<page, ready, entry, stored, owed>>
  BY <1>1, <1>2 DEF DataFits, OwedOK
<1>3. CASE OthersWrite \/ \E s \in Slots : Executed(s)
  BY <1>1, <1>3, WritesData
<1>4. CASE Navigate \/ Logout \/ Reload \/ LayoutEffect
  BY <1>1, <1>4, MovesData
<1>5. CASE \E s \in Slots : SignedIn(s)
  BY <1>1, <1>5, MovesData DEF CallsFit
<1>6. CASE \E k \in Keys : ServerReads(k) /\ UNCHANGED <<session, stored, page, ready, owed>>
  BY <1>1, <1>6, ReadsData
<1>7. CASE \E k \in Keys : FetchFails(k, Retries(k)) /\ UNCHANGED <<session, stored, page, ready, owed>>
  BY <1>1, <1>7, FailsData
<1>8. CASE \E k \in Keys : Lands(k)
  BY <1>1, <1>8, LandsData
<1>9. CASE \E s \in Slots : Succeeds(s)
  BY <1>1, <1>9, SucceedsData
<1> QED
  BY <1>2, <1>3, <1>4, <1>5, <1>6, <1>7, <1>8, <1>9, Frame

LEMMA SessionStep ==
  ASSUME Core, [Next]_vars
  PROVE  SessionOK' /\ FlagsOK'
<1>1. SessionOK /\ FlagsOK /\ CallsFit
  BY DEF Core
<1>2. session' \in Workspaces \cup {NONE}
  <2>1. CASE \E s \in Slots : SignedIn(s)
    BY <1>1, <2>1, CallParts DEF CallsFit, SignedIn
  <2>2. CASE UNCHANGED session \/ Logout \/ OtherTab
    BY <1>1, <2>2 DEF SessionOK, Logout, OtherTab
  <2> QED
    BY <2>1, <2>2, Frame
<1>3. ready' \in BOOLEAN
  <2>1. ASSUME NEW at, NEW id, NEW ws, NEW going, Go(at, id, ws, going) PROVE ready' \in BOOLEAN
    BY <2>1 DEF Go
  <2>2. CASE Navigate \/ Logout \/ \E s \in Slots : SignedIn(s)
    BY <1>1, <2>1, <2>2 DEF Navigate, Logout, SignedIn, SessionOK, ui
  <2>3. CASE Reload \/ LayoutEffect
    BY <2>3 DEF Reload, LayoutEffect
  <2>4. CASE OthersWrite \/ (\E s \in Slots : Executed(s) \/ Succeeds(s)) \/ (\E k \in Keys : Lands(k))
    BY <1>1, <2>4 DEF OthersWrite, Executed, Succeeds, Lands, SessionOK, ui
  <2> QED
    BY <1>1, <2>2, <2>3, <2>4, Frame DEF SessionOK
<1>4. FlagsOK'
  <2>1. open' \subseteq Forms \cup {"issued"}
    <3>1. ASSUME NEW at, NEW id, NEW ws, NEW going, Go(at, id, ws, going) PROVE open' = {}
      BY <3>1 DEF Go
    <3>2. CASE Navigate \/ Logout \/ Reload \/ \E s \in Slots : SignedIn(s)
      BY <1>1, <3>1, <3>2 DEF Navigate, Logout, Reload, SignedIn, FlagsOK, ui
    <3>3. ASSUME NEW b \in Buttons, OpenOrClose(b) PROVE open' \subseteq Forms \cup {"issued"}
      BY <1>1, <3>3 DEF OpenOrClose, FlagsOK
    <3>4. ASSUME NEW s \in Slots, Succeeds(s) PROVE open' \subseteq Forms \cup {"issued"}
      BY <1>1, <3>4 DEF Succeeds, FlagsOK
    <3> QED
      BY <1>1, <3>2, <3>3, <3>4, Frame DEF FlagsOK
  <2>2. flags' \subseteq {"eventSent", "dismissed"}
    BY <1>1, Frame DEF FlagsOK, MarkEvent, Dismiss
  <2> QED
    BY <2>1, <2>2 DEF FlagsOK
<1> QED
  BY <1>2, <1>3, <1>4 DEF SessionOK

-----------------------------------------------------------------------------
(* The calls.                                                              *)

\* A change that was made is stored where the call said.
Placed(c, st) == c.pc = "done" /\ c.what \notin SignIns => c.ws # NONE /\ c.len <= Len(st[c.key][c.ws])

LEMMA CallLeft ==
  ASSUME NEW c, CallOK(c), NEW h \in {"left", "gone"}, c # NoCall \/ h = "gone"
  PROVE  LET x == [c EXCEPT !.here = h] IN
         /\ CallOK(x) /\ x.here = h /\ \A st : Placed(c, st) => Placed(x, st)
<1> DEFINE x == [c EXCEPT !.here = h]
<1>1. CASE c = NoCall
  <2>1. x = NoCall
    BY <1>1 DEF NoCall
  <2>2. x.here = h
    BY <1>1, <2>1 DEF NoCall
  <2> QED
    BY <1>1, <2>1, <2>2
<1>2. CASE c # NoCall
  <2>1. DOMAIN c = {"what", "pc", "here", "key", "ws", "of", "item", "len"}
    BY <1>2 DEF CallOK
  <2>2. /\ DOMAIN x = DOMAIN c /\ x.what = c.what /\ x.pc = c.pc /\ x.here = h /\ x.key = c.key
        /\ x.ws = c.ws /\ x.item = c.item /\ x.len = c.len
    BY <2>1
  <2> HIDE DEF x
  <2>3. CallOK(x)
    BY <1>2, <2>2 DEF CallOK
  <2> QED
    BY <2>2, <2>3 DEF Placed, x
<1> QED
  BY <1>1, <1>2

LEMMA CallDecided ==
  ASSUME NEW c, CallOK(c), c.pc = "sent", NEW p \in {"done", "failed"}
  PROVE  LET x == [c EXCEPT !.pc = p] IN
         /\ CallOK(x) /\ x.pc = p /\ x.what = c.what /\ x.here = c.here
         /\ x.key = c.key /\ x.ws = c.ws /\ DOMAIN x = DOMAIN c
<1> DEFINE x == [c EXCEPT !.pc = p]
<1>1. c # NoCall /\ DOMAIN c = {"what", "pc", "here", "key", "ws", "of", "item", "len"}
  BY CallParts
<1>2. /\ DOMAIN x = DOMAIN c /\ x.what = c.what /\ x.pc = p /\ x.here = c.here /\ x.key = c.key
      /\ x.ws = c.ws /\ x.item = c.item /\ x.len = c.len
  BY <1>1
<1> HIDE DEF x
<1>3. CallOK(x)
  BY <1>1, <1>2 DEF CallOK
<1> QED
  BY <1>2, <1>3 DEF x

LEMMA CallCounted ==
  ASSUME NEW c, CallOK(c), c.pc # "idle", NEW n \in Nat
  PROVE  LET x == [c EXCEPT !.len = n] IN
         /\ CallOK(x) /\ x.len = n /\ x.pc = c.pc /\ x.what = c.what /\ x.here = c.here
         /\ x.key = c.key /\ x.ws = c.ws
<1> DEFINE x == [c EXCEPT !.len = n]
<1>1. c # NoCall /\ DOMAIN c = {"what", "pc", "here", "key", "ws", "of", "item", "len"}
  BY CallParts
<1>2. /\ DOMAIN x = DOMAIN c /\ x.what = c.what /\ x.pc = c.pc /\ x.here = c.here /\ x.key = c.key
      /\ x.ws = c.ws /\ x.item = c.item /\ x.len = n
  BY <1>1
<1> HIDE DEF x
<1>3. CallOK(x)
  BY <1>1, <1>2 DEF CallOK
<1> QED
  BY <1>2, <1>3 DEF x

LEMMA NoCallOK == CallOK(NoCall) /\ NoCall.here = "gone" /\ NoCall.what = NONE /\ \A st : Placed(NoCall, st)
  BY DEF CallOK, NoCall, Placed

\* Nothing that is stored is lost.
LEMMA StoredGrows ==
  ASSUME Core, [Next]_vars
  PROVE  \A j \in Keys, v \in Workspaces :
           /\ Len(stored[j][v]) \in Nat /\ Len(stored'[j][v]) \in Nat
           /\ Len(stored[j][v]) <= Len(stored'[j][v])
<1>1. DataFits /\ CallsFit
  BY DEF Core
<1>2. CASE UNCHANGED stored
  <2>1. \A j \in Keys, v \in Workspaces : Len(stored[j][v]) \in Nat
    BY <1>1 DEF DataFits, ShelvesFit, Shelf
  <2> QED
    BY <1>2, <2>1
<1>3. CASE OthersWrite \/ \E s \in Slots : Executed(s)
  <2>1. UNCHANGED stored \/ \E k \in Keys, w \in Workspaces : \E item \in Items(k) : Write(k, w, item)
    BY <1>1, <1>3, Writes
  <2>2. ASSUME NEW k \in Keys, NEW w \in Workspaces, NEW item \in Items(k), Write(k, w, item)
        PROVE  \A j \in Keys, v \in Workspaces :
                 /\ Len(stored[j][v]) \in Nat /\ Len(stored'[j][v]) \in Nat
                 /\ Len(stored[j][v]) <= Len(stored'[j][v])
    BY <1>1, <2>2, WriteKeeps
  <2> QED
    BY <1>2, <2>1, <2>2
<1> QED
  BY <1>2, <1>3, Frame

\* A page that is left forgets its buttons, and its calls go on.
LEMMA GoCalls ==
  ASSUME NEW at, NEW id, NEW ws, NEW going, Go(at, id, ws, going), \A s \in Slots : CallOK(going[s])
  PROVE  /\ DOMAIN calls' = Slots /\ page'.at = at /\ button' = AllIdle
         /\ \A s \in Slots : /\ CallOK(calls'[s]) /\ calls'[s].here # "here"
                             /\ \A st : Placed(going[s], st) => Placed(calls'[s], st)
<1>1. /\ page'.at = at /\ button' = AllIdle
      /\ calls' = [s \in Slots |-> IF going[s].here = "here"
                                   THEN [going[s] EXCEPT !.here = "left"] ELSE going[s]]
  BY DEF Go
<1>2. ASSUME NEW s \in Slots
      PROVE  /\ CallOK(calls'[s]) /\ calls'[s].here # "here"
             /\ \A st : Placed(going[s], st) => Placed(calls'[s], st)
  <2>1. CASE going[s].here = "here"
    <3>1. calls'[s] = [going[s] EXCEPT !.here = "left"] /\ going[s] # NoCall
      BY <1>1, <2>1 DEF NoCall
    <3> QED
      BY <3>1, CallLeft
  <2>2. CASE going[s].here # "here"
    BY <1>1, <2>2
  <2> QED
    BY <2>1, <2>2
<1> QED
  BY <1>1, <1>2

LEMMA ItemFacts ==
  /\ \A k \in {List("dashboards"), List("api-keys"), List("alerts")} : Items(k) = {"item"}
<1>1. \A name \in {"dashboards", "api-keys", "alerts"} : Items(List(name)) = {"item"}
  <2>1. \A name \in {"dashboards", "api-keys", "alerts"} :
          List(name) \notin Boards /\ List(name)[1] = name /\ name \notin DOMAIN Answers
    BY KeyFacts DEF Lists, Reports, CacheAssumption
  <2> QED
    BY <2>1 DEF Items
<1> QED
  BY <1>1

\* A new call of the page.
LEMMA NewCall ==
  ASSUME SessionOK, CallsFit, NEW b \in Buttons \cup {"changeAlert"}, NEW k, NEW w \in Workspaces \cup {NONE},
         NEW of, NEW item, IF b \in SignIns THEN w # NONE ELSE k \in Keys /\ item \in Items(k),
         Call(b, k, w, of, item)
  PROVE  \E s \in Slots : \E c :
           /\ calls[s] = NoCall /\ calls' = [calls EXCEPT ![s] = c]
           /\ CallOK(c) /\ c.what = b /\ c.here = "here" /\ \A st : Placed(c, st)
<1>1. PICK s \in Slots :
        /\ calls[s] = NoCall
        /\ calls' = [calls EXCEPT ![s] = [what |-> b, pc |-> "sent", here |-> "here", key |-> k,
                                          ws |-> w, of |-> of, item |-> item, len |-> 0]]
  BY DEF Call
<1> DEFINE c == [what |-> b, pc |-> "sent", here |-> "here", key |-> k,
                 ws |-> w, of |-> of, item |-> item, len |-> 0]
<1>2. CallOK(c)
  <2>1. /\ DOMAIN c = {"what", "pc", "here", "key", "ws", "of", "item", "len"}
        /\ c.what = b /\ c.pc = "sent" /\ c.here = "here" /\ c.ws = w /\ c.len = 0 /\ c.key = k /\ c.item = item
    OBVIOUS
  <2> HIDE DEF c
  <2> QED
    BY <2>1 DEF CallOK
<1>3. c.what = b /\ c.here = "here" /\ \A st : Placed(c, st)
  BY DEF Placed
<1>4. calls[s] = NoCall /\ calls' = [calls EXCEPT ![s] = c]
  BY <1>1
<1> HIDE DEF c
<1> QED
  BY <1>2, <1>3, <1>4

\* What a form or a button asks for.
LEMMA Submits ==
  ASSUME Core, (\E b \in Buttons : Submit(b)) \/ ChangeAlert
  PROVE  \E s \in Slots : \E c :
           /\ calls[s] = NoCall /\ calls' = [calls EXCEPT ![s] = c]
           /\ CallOK(c) /\ (\A st : Placed(c, st)) /\ c.here = "here"
           /\ UNCHANGED page
           /\ \/ /\ c.what \in Buttons /\ button[c.what] # "pending"
                 /\ button' = [button EXCEPT ![c.what] = "pending"]
                 /\ c.what \in SignIns => page.at \in SignIns
              \/ c.what = "changeAlert" /\ UNCHANGED button
<1>1. SessionOK /\ CallsFit /\ PageOK(page)
  BY DEF Core, DataFits
<1>2. ASSUME NEW b \in Buttons, Submit(b), b \in SignIns
      PROVE  \E k, of, item : \E w \in Workspaces \cup {NONE} :
               (IF b \in SignIns THEN w # NONE ELSE k \in Keys /\ item \in Items(k)) /\ Call(b, k, w, of, item)
  <2>1. PICK w \in Workspaces : Call(b, <<>>, w, w, NONE)
    BY <1>2 DEF Submit
  <2>2. w # NONE
    BY DEF CacheAssumption
  <2> QED
    BY <1>2, <2>1, <2>2
<1>3. ASSUME NEW b \in Buttons, Submit(b), b \notin SignIns
      PROVE  \E k, of, item : \E w \in Workspaces \cup {NONE} :
               (IF b \in SignIns THEN w # NONE ELSE k \in Keys /\ item \in Items(k)) /\ Call(b, k, w, of, item)
  <2>1. PICK item \in Items(KeyOf(b)) :
          Call(b, KeyOf(b), session, IF b = "addWidget" THEN page.id[2] ELSE session, item)
    BY <1>3 DEF Submit
  <2>2. KeyOf(b) \in Keys
    <3>1. b = "addWidget" => page.at = "board"
      BY <1>3 DEF Submit, Offered, SignIns
    <3>2. page.at = "board" => page.id \in Keys
      BY <1>1, KeyFacts DEF PageOK
    <3> QED
      BY <3>1, <3>2, ListFacts DEF KeyOf
  <2> QED
    BY <1>1, <1>3, <2>1, <2>2 DEF SessionOK
<1>4. ASSUME NEW b \in Buttons, Submit(b)
      PROVE  /\ button[b] # "pending" /\ button' = [button EXCEPT ![b] = "pending"]
             /\ b \in SignIns => page.at \in SignIns
             /\ UNCHANGED page
  BY <1>4 DEF Submit, Enabled, Offered, SignIns
<1>5. CASE ChangeAlert
  <2>1. /\ Call("changeAlert", List("alerts"), session, entry[List("alerts")].data.ws, "item")
        /\ UNCHANGED <<page, button>>
    BY <1>5 DEF ChangeAlert, ui
  <2>2. List("alerts") \in Keys /\ "item" \in Items(List("alerts")) /\ "changeAlert" \notin SignIns
    BY ListFacts, ItemFacts DEF SignIns
  <2>3. \E s \in Slots : \E c :
          /\ calls[s] = NoCall /\ calls' = [calls EXCEPT ![s] = c]
          /\ CallOK(c) /\ c.what = "changeAlert" /\ c.here = "here" /\ \A st : Placed(c, st)
    BY <1>1, <2>1, <2>2, NewCall DEF SessionOK
  <2> QED
    BY <2>1, <2>3
<1>6. ASSUME NEW b \in Buttons, Submit(b)
      PROVE  \E s \in Slots : \E c :
               /\ calls[s] = NoCall /\ calls' = [calls EXCEPT ![s] = c]
               /\ CallOK(c) /\ (\A st : Placed(c, st)) /\ c.here = "here"
               /\ c.what = b
  <2>1. PICK k, of, item : \E w \in Workspaces \cup {NONE} :
          (IF b \in SignIns THEN w # NONE ELSE k \in Keys /\ item \in Items(k)) /\ Call(b, k, w, of, item)
    BY <1>2, <1>3, <1>6
  <2>2. PICK w \in Workspaces \cup {NONE} :
          (IF b \in SignIns THEN w # NONE ELSE k \in Keys /\ item \in Items(k)) /\ Call(b, k, w, of, item)
    BY <2>1
  <2> QED
    BY <1>1, <2>2, NewCall
<1> QED
  BY <1>4, <1>5, <1>6

LEMMA CallsStep ==
  ASSUME Core, [Next]_vars
  PROVE  CallsFit' /\ \A s \in Slots : Placed(calls'[s], stored')
<1>1. /\ CallsFit /\ DOMAIN calls = Slots
      /\ \A s \in Slots : CallOK(calls[s]) /\ Placed(calls[s], stored)
  BY DEF Core, CallsFit, OwedIsStored, Placed
\* What was placed stays so.
<1>2. ASSUME NEW c, CallOK(c), Placed(c, stored) PROVE Placed(c, stored')
  <2>1. CASE c.pc = "done" /\ c.what \notin SignIns
    <3>1. c.key \in Keys /\ c.ws \in Workspaces /\ c.len \in Nat /\ c.len <= Len(stored[c.key][c.ws])
      BY <1>2, <2>1, CallParts DEF Placed
    <3> DEFINE m == Len(stored[c.key][c.ws])
               n == Len(stored'[c.key][c.ws])
    <3>2. m \in Nat /\ n \in Nat /\ m <= n
      BY <3>1, StoredGrows
    <3>3. c.len <= n
      <4>1. c.len <= m
        BY <3>1
      <4> HIDE DEF m, n
      <4> QED
        BY <3>1, <3>2, <4>1
    <3> QED
      BY <1>2, <3>3 DEF Placed
  <2> QED
    BY <2>1 DEF Placed
<1>3. ASSUME DOMAIN calls' = Slots,
             \A s \in Slots : CallOK(calls'[s]) /\ (Placed(calls'[s], stored) \/ Placed(calls'[s], stored'))
      PROVE  CallsFit' /\ \A s \in Slots : Placed(calls'[s], stored')
  BY <1>2, <1>3 DEF CallsFit
<1>4. ASSUME NEW at, NEW id, NEW ws, NEW going, Go(at, id, ws, going),
             \A s \in Slots : CallOK(going[s]) /\ Placed(going[s], stored)
      PROVE  CallsFit' /\ \A s \in Slots : Placed(calls'[s], stored')
  <2>1. /\ DOMAIN calls' = Slots
        /\ \A s \in Slots : CallOK(calls'[s]) /\ Placed(calls'[s], stored)
    BY <1>4, GoCalls
  <2> QED
    BY <1>3, <2>1
<1>5. CASE UNCHANGED calls
  BY <1>1, <1>3, <1>5
<1>6. CASE Navigate
  <2>1. PICK at, id : Go(at, id, session, calls)
    BY <1>6 DEF Navigate
  <2> QED
    BY <1>1, <1>4, <2>1
<1>7. CASE Logout
  <2>1. Go("login", <<>>, NONE, calls)
    BY <1>7 DEF Logout
  <2> QED
    BY <1>1, <1>4, <2>1
<1>8. CASE Reload
  <2>1. calls' = [s \in Slots |-> [calls[s] EXCEPT !.here = "gone"]]
    BY <1>8 DEF Reload
  <2>2. \A s \in Slots : CallOK(calls'[s]) /\ Placed(calls'[s], stored)
    BY <1>1, <2>1, CallLeft
  <2> QED
    BY <1>3, <2>1, <2>2
<1>9. CASE (\E b \in Buttons : Submit(b)) \/ ChangeAlert
  <2>1. PICK s \in Slots : \E c : calls' = [calls EXCEPT ![s] = c] /\ CallOK(c) /\ \A st : Placed(c, st)
    BY <1>9, Submits
  <2>2. PICK c : calls' = [calls EXCEPT ![s] = c] /\ CallOK(c) /\ \A st : Placed(c, st)
    BY <2>1
  <2>3. DOMAIN calls' = Slots /\ calls'[s] = c /\ \A r \in Slots \ {s} : calls'[r] = calls[r]
    BY <1>1, <2>2
  <2>4. \A r \in Slots : CallOK(calls'[r]) /\ Placed(calls'[r], stored)
    BY <1>1, <2>2, <2>3
  <2> QED
    BY <1>3, <2>3, <2>4
<1>10. ASSUME NEW s \in Slots, calls' = [calls EXCEPT ![s] = NoCall]
       PROVE  CallsFit' /\ \A r \in Slots : Placed(calls'[r], stored')
  <2>1. DOMAIN calls' = Slots /\ calls'[s] = NoCall /\ \A r \in Slots \ {s} : calls'[r] = calls[r]
    BY <1>1, <1>10
  <2>2. \A r \in Slots : CallOK(calls'[r]) /\ Placed(calls'[r], stored)
    BY <1>1, <2>1, NoCallOK
  <2> QED
    BY <1>3, <2>1, <2>2
<1>11. ASSUME NEW s \in Slots, Fails(s) \/ Succeeds(s)
       PROVE  CallsFit' /\ \A r \in Slots : Placed(calls'[r], stored')
  BY <1>10, <1>11 DEF Fails, Succeeds
<1>12. ASSUME NEW s \in Slots, SignedIn(s)
       PROVE  CallsFit' /\ \A r \in Slots : Placed(calls'[r], stored')
  <2> DEFINE going == [calls EXCEPT ![s] = NoCall]
  <2>1. calls' = going \/ Go("dashboards", <<>>, session', going)
    BY <1>12 DEF SignedIn
  <2>2. \A r \in Slots : CallOK(going[r]) /\ Placed(going[r], stored)
    BY <1>1, NoCallOK
  <2>3. CASE calls' = going
    BY <1>10, <2>3
  <2> HIDE DEF going
  <2>4. CASE Go("dashboards", <<>>, session', going)
    <3>1. PICK ws : Go("dashboards", <<>>, ws, going)
      BY <2>4
    <3> QED
      BY <1>4, <2>2, <3>1
  <2> QED
    BY <2>1, <2>3, <2>4
<1>13. ASSUME NEW s \in Slots, Executed(s)
       PROVE  CallsFit' /\ \A r \in Slots : Placed(calls'[r], stored')
  <2> DEFINE c == calls[s]
             x(p) == [c EXCEPT !.pc = p]
             n == Len(stored[c.key][c.ws]) + 1
             y == [x("done") EXCEPT !.len = n]
  <2>1. CallOK(c) /\ c.pc = "sent"
    BY <1>1, <1>13 DEF Executed
  <2>2. CASE /\ c.what \notin SignIns /\ Served(c) /\ Write(c.key, c.ws, c.item)
             /\ calls' = [calls EXCEPT ![s].pc = "done", ![s].len = n]
    <3>1. c.key \in Keys /\ c.ws \in Workspaces /\ c.item \in Items(c.key)
      <4>1. c.ws # NONE
        BY <2>2 DEF Served
      <4> HIDE DEF c
      <4>2. c.ws \in Workspaces \cup {NONE} /\ c.key \in Keys /\ c.item \in Items(c.key)
        BY <2>1, <2>2, CallParts
      <4> QED
        BY <4>1, <4>2
    <3>2. Len(stored'[c.key][c.ws]) = n /\ n \in Nat
      <4>1. DataFits
        BY DEF Core
      <4> HIDE DEF c
      <4>2. /\ Len(stored'[c.key][c.ws]) = Len(stored[c.key][c.ws]) + 1
            /\ Len(stored[c.key][c.ws]) \in Nat
        BY <2>2, <3>1, <4>1, WriteKeeps
      <4> QED
        BY <4>2
    <3> HIDE DEF n
    <3>3. DOMAIN calls' = Slots /\ calls'[s] = y /\ \A r \in Slots \ {s} : calls'[r] = calls[r]
      BY <1>1, <2>2
    <3> HIDE DEF c
    <3>4. CallOK(x("done")) /\ x("done").pc = "done" /\ x("done").what = c.what
          /\ x("done").key = c.key /\ x("done").ws = c.ws
      BY <2>1, CallDecided
    <3> HIDE DEF x
    <3>5. CallOK(y) /\ y.what = c.what /\ y.key = c.key /\ y.ws = c.ws /\ y.len = n
      BY <3>2, <3>4, CallCounted
    <3> HIDE DEF y
    <3>6. Placed(y, stored')
      BY <3>1, <3>2, <3>5, CacheAssumption DEF Placed
    <3> QED
      BY <1>1, <1>3, <3>3, <3>5, <3>6
  <2>3. CASE /\ c.what \in SignIns /\ calls' = [calls EXCEPT ![s].pc = "done"]
    <3>1. DOMAIN calls' = Slots /\ calls'[s] = x("done") /\ \A r \in Slots \ {s} : calls'[r] = calls[r]
      BY <1>1, <2>3
    <3> HIDE DEF c
    <3>2. CallOK(x("done")) /\ x("done").what = c.what
      BY <2>1, CallDecided
    <3> HIDE DEF x
    <3>3. Placed(x("done"), stored)
      BY <2>3, <3>2 DEF Placed
    <3> QED
      BY <1>1, <1>3, <3>1, <3>2, <3>3
  <2>4. CASE calls' = [calls EXCEPT ![s].pc = "failed"]
    <3>1. DOMAIN calls' = Slots /\ calls'[s] = x("failed") /\ \A r \in Slots \ {s} : calls'[r] = calls[r]
      BY <1>1, <2>4
    <3> HIDE DEF c
    <3>2. CallOK(x("failed")) /\ x("failed").pc = "failed"
      BY <2>1, CallDecided
    <3> HIDE DEF x
    <3>3. Placed(x("failed"), stored)
      BY <3>2 DEF Placed
    <3> QED
      BY <1>1, <1>3, <3>1, <3>2, <3>3
  <2> QED
    BY <1>13, <2>2, <2>3, <2>4 DEF Executed
<1> QED
  BY <1>5, <1>6, <1>7, <1>8, <1>9, <1>11, <1>12, <1>13, Frame

LEMMA OwedStep ==
  ASSUME Core, [Next]_vars
  PROVE  OwedIsStored'
<1>1. /\ \A k \in Keys : owed[k] \in Debt
      /\ \A k \in Keys : owed[k].ws # NONE => owed[k].len <= Len(stored[k][owed[k].ws])
      /\ CallsFit /\ OwedIsStored /\ owed \in [Keys -> Debt]
  BY DEF Core, OwedIsStored, DataFits, OwedOK
<1>2. ASSUME NEW k \in Keys, NEW ws \in Workspaces, NEW n \in Nat, n <= Len(stored[k][ws])
      PROVE  n <= Len(stored'[k][ws])
  <2> DEFINE a == Len(stored[k][ws])
             b == Len(stored'[k][ws])
  <2>1. a \in Nat /\ b \in Nat /\ a <= b
    BY StoredGrows
  <2>2. n <= a
    BY <1>2
  <2> HIDE DEF a, b
  <2>3. n <= b
    BY <2>1, <2>2
  <2> QED
    BY <2>3 DEF b
<1>3. ASSUME NEW k \in Keys, owed'[k].ws # NONE PROVE owed'[k].len <= Len(stored'[k][owed'[k].ws])
  <2>1. CASE owed'[k] = owed[k]
    <3>1. owed[k].ws \in Workspaces /\ owed[k].len \in Nat
      BY <1>1, <1>3, <2>1 DEF Debt
    <3> QED
      BY <1>1, <1>2, <1>3, <2>1, <3>1
  <2>2. CASE owed'[k] # owed[k]
    <3>1. PICK s \in Slots : Succeeds(s)
      BY <2>2, Frame
    <3> DEFINE c == calls[s]
    <3>2. /\ c.pc = "done" /\ c.what \notin SignIns
          /\ owed' = IF Cancels(c.key) THEN [owed EXCEPT ![c.key] = [ws |-> c.ws, len |-> c.len]] ELSE owed
      BY <3>1 DEF Succeeds
    <3>3. c.key = k /\ owed'[k] = [ws |-> c.ws, len |-> c.len]
      BY <1>1, <2>2, <3>2
    <3>4. CallOK(c) /\ c.ws # NONE /\ c.len <= Len(stored[k][c.ws])
      BY <1>1, <3>2, <3>3 DEF OwedIsStored, CallsFit
    <3> HIDE DEF c
    <3>5. c.ws \in Workspaces /\ c.len \in Nat
      BY <3>2, <3>4, CallParts
    <3>6. c.len <= Len(stored'[k][c.ws])
      BY <1>2, <3>4, <3>5
    <3> QED
      BY <3>3, <3>6
  <2> QED
    BY <2>1, <2>2
<1>4. \A s \in Slots : Placed(calls'[s], stored')
  BY CallsStep
<1> QED
  BY <1>3, <1>4 DEF OwedIsStored, Placed

-----------------------------------------------------------------------------
(* The buttons.                                                            *)

LEMMA ButtonsStep ==
  ASSUME Core, [Next]_vars
  PROVE  ButtonsAgree' /\ SignInsStay'
<1>1. /\ CallsFit /\ ButtonsAgree /\ SignInsStay /\ DOMAIN calls = Slots
      /\ button \in [Buttons -> {"idle", "pending", "error"}]
      /\ \A s \in Slots : CallOK(calls[s])
      /\ \A b \in Buttons :
           /\ button[b] = "pending" <=> \E s \in Slots : Posted(calls[s], b)
           /\ \A s, t \in Slots : Posted(calls[s], b) /\ Posted(calls[t], b) => s = t
  BY DEF Core, CallsFit, ButtonsAgree
<1>2. "changeAlert" \notin Buttons /\ NONE \notin Buttons /\ SignIns \subseteq Buttons
  BY DEF Buttons, SignIns, Forms, NONE
\* The calls of the page, and its buttons, stay as they are.
<1>3. ASSUME \A s \in Slots, b \in Buttons : Posted(calls'[s], b) <=> Posted(calls[s], b),
             button' = button, page'.at = page.at \/ page'.at \in SignIns
      PROVE  ButtonsAgree' /\ SignInsStay'
  BY <1>1, <1>2, <1>3 DEF ButtonsAgree, SignInsStay
\* The page is left.
<1>4. ASSUME \A s \in Slots : calls'[s].here # "here", button' = AllIdle
      PROVE  ButtonsAgree' /\ SignInsStay'
  <2>1. AllIdle \in [Buttons -> {"idle", "pending", "error"}] /\ \A b \in Buttons : AllIdle[b] # "pending"
    BY DEF AllIdle
  <2> QED
    BY <1>4, <2>1 DEF ButtonsAgree, SignInsStay, Posted
<1>5. ASSUME NEW at, NEW id, NEW ws, NEW going, Go(at, id, ws, going), \A s \in Slots : CallOK(going[s])
      PROVE  ButtonsAgree' /\ SignInsStay'
  BY <1>4, <1>5, GoCalls
<1>6. CASE UNCHANGED <<button, calls, page>>
  BY <1>3, <1>6
<1>7. CASE Navigate
  <2>1. PICK at, id : Go(at, id, session, calls)
    BY <1>7 DEF Navigate
  <2> QED
    BY <1>1, <1>5, <2>1
<1>8. CASE Logout
  <2>1. Go("login", <<>>, NONE, calls)
    BY <1>8 DEF Logout
  <2> QED
    BY <1>1, <1>5, <2>1
<1>9. CASE Reload
  <2>1. calls' = [s \in Slots |-> [calls[s] EXCEPT !.here = "gone"]] /\ button' = AllIdle
    BY <1>9 DEF Reload
  <2>2. \A s \in Slots : calls'[s].here = "gone"
    BY <1>1, <2>1, CallLeft
  <2> QED
    BY <1>4, <2>1, <2>2
<1>10. CASE LayoutEffect
  BY <1>3, <1>10 DEF LayoutEffect, SignIns
<1>11. CASE (\E b \in Buttons : Submit(b)) \/ ChangeAlert
  <2>0. PICK s \in Slots : \E c :
           /\ calls[s] = NoCall /\ calls' = [calls EXCEPT ![s] = c]
           /\ CallOK(c) /\ (\A st : Placed(c, st)) /\ c.here = "here"
           /\ UNCHANGED page
           /\ \/ /\ c.what \in Buttons /\ button[c.what] # "pending"
                 /\ button' = [button EXCEPT ![c.what] = "pending"]
                 /\ c.what \in SignIns => page.at \in SignIns
              \/ c.what = "changeAlert" /\ UNCHANGED button
    BY <1>11, Submits
  <2>1. PICK c :
           /\ calls[s] = NoCall /\ calls' = [calls EXCEPT ![s] = c]
           /\ CallOK(c) /\ (\A st : Placed(c, st)) /\ c.here = "here"
           /\ UNCHANGED page
           /\ \/ /\ c.what \in Buttons /\ button[c.what] # "pending"
                 /\ button' = [button EXCEPT ![c.what] = "pending"]
                 /\ c.what \in SignIns => page.at \in SignIns
              \/ c.what = "changeAlert" /\ UNCHANGED button
    BY <2>0
  <2>2. calls'[s] = c /\ (\A r \in Slots \ {s} : calls'[r] = calls[r])
        /\ \A b \in Buttons : ~Posted(calls[s], b)
    BY <1>1, <1>2, <2>1, NoCallOK DEF Posted
  <2>3. CASE c.what = "changeAlert" /\ UNCHANGED button
    BY <1>2, <1>3, <2>1, <2>2, <2>3 DEF Posted
  <2>4. CASE /\ c.what \in Buttons /\ button[c.what] # "pending"
             /\ button' = [button EXCEPT ![c.what] = "pending"]
             /\ c.what \in SignIns => page.at \in SignIns
    <3>1. /\ button' \in [Buttons -> {"idle", "pending", "error"}] /\ button'[c.what] = "pending"
          /\ \A b \in Buttons \ {c.what} : button'[b] = button[b]
      BY <1>1, <2>4
    <3>2. /\ \A r \in Slots, b \in Buttons \ {c.what} : Posted(calls'[r], b) <=> Posted(calls[r], b)
          /\ \A r \in Slots : Posted(calls'[r], c.what) <=> r = s
      BY <1>1, <2>1, <2>2, <2>4 DEF Posted
    <3>3. ButtonsAgree'
      <4>1. ASSUME NEW b \in Buttons
            PROVE  /\ button'[b] = "pending" <=> \E r \in Slots : Posted(calls'[r], b)
                   /\ \A r, t \in Slots : Posted(calls'[r], b) /\ Posted(calls'[t], b) => r = t
        <5>1. CASE b = c.what
          BY <3>1, <3>2, <5>1
        <5>2. CASE b # c.what
          BY <1>1, <3>1, <3>2, <5>2
        <5> QED
          BY <5>1, <5>2
      <4> QED
        BY <3>1, <4>1 DEF ButtonsAgree
    <3>4. SignInsStay'
      BY <1>1, <1>2, <2>1, <2>2, <2>4 DEF SignInsStay, Posted
    <3> QED
      BY <3>3, <3>4
  <2> QED
    BY <2>1, <2>3, <2>4
<1>12. CASE Refused
  <2>1. /\ UNCHANGED <<calls, page>> /\ page.at \in SignIns /\ button[page.at] # "pending"
        /\ button' = [button EXCEPT ![page.at] = "error"]
    BY <1>12 DEF Refused, Enabled
  <2>2. button' \in [Buttons -> {"idle", "pending", "error"}]
        /\ \A b \in Buttons : button'[b] = "pending" <=> button[b] = "pending"
    BY <1>1, <1>2, <2>1
  <2> QED
    BY <1>1, <2>1, <2>2 DEF ButtonsAgree, SignInsStay
<1>13. ASSUME NEW s \in Slots, Fails(s) \/ Succeeds(s)
       PROVE  ButtonsAgree' /\ SignInsStay'
  <2> DEFINE c == calls[s]
  <2>1. PICK v \in {"idle", "error"} :
          /\ calls' = [calls EXCEPT ![s] = NoCall] /\ UNCHANGED page
          /\ button' = IF c.here = "here" /\ c.what \in Buttons THEN [button EXCEPT ![c.what] = v] ELSE button
    BY <1>13 DEF Fails, Succeeds, AfterFailure
  <2>2. (\A b \in Buttons : ~Posted(calls'[s], b)) /\ \A r \in Slots \ {s} : calls'[r] = calls[r]
    BY <1>1, <1>2, <2>1, NoCallOK DEF Posted
  <2>3. CASE c.here = "here" /\ c.what \in Buttons
    <3>1. /\ button' \in [Buttons -> {"idle", "pending", "error"}] /\ button'[c.what] # "pending"
          /\ \A b \in Buttons \ {c.what} : button'[b] = button[b]
      BY <1>1, <2>1, <2>3
    <3>2. Posted(calls[s], c.what)
      BY <2>3 DEF Posted
    <3>3. ASSUME NEW b \in Buttons, NEW r \in Slots
          PROVE  Posted(calls'[r], b) <=> Posted(calls[r], b) /\ b # c.what
      <4>1. CASE r = s
        BY <2>2, <4>1 DEF Posted
      <4>2. CASE r # s
        BY <1>1, <2>2, <2>3, <3>2, <4>2
      <4> QED
        BY <4>1, <4>2
    <3> HIDE DEF c
    <3>4. ButtonsAgree'
      BY <1>1, <3>1, <3>3 DEF ButtonsAgree
    <3>5. SignInsStay'
      BY <1>1, <1>2, <2>1, <3>3 DEF SignInsStay
    <3> QED
      BY <3>4, <3>5
  <2>4. CASE ~(c.here = "here" /\ c.what \in Buttons)
    <3>1. \A b \in Buttons : ~Posted(calls[s], b)
      BY <2>4 DEF Posted
    <3>2. \A r \in Slots, b \in Buttons : Posted(calls'[r], b) <=> Posted(calls[r], b)
      BY <2>2, <3>1
    <3> QED
      BY <1>3, <2>1, <2>4, <3>2
  <2> QED
    BY <2>3, <2>4
<1>14. ASSUME NEW s \in Slots, SignedIn(s)
       PROVE  ButtonsAgree' /\ SignInsStay'
  <2> DEFINE going == [calls EXCEPT ![s] = NoCall]
  <2>1. /\ calls[s].what \in SignIns
        /\ IF page.at = "dashboards" THEN calls' = going /\ UNCHANGED <<page, button>>
           ELSE Go("dashboards", <<>>, session', going)
    BY <1>14 DEF SignedIn, ui
  <2>2. /\ \A r \in Slots : CallOK(going[r])
        /\ going[s] = NoCall /\ \A r \in Slots \ {s} : going[r] = calls[r]
    BY <1>1, NoCallOK
  <2> HIDE DEF going
  <2>3. CASE page.at = "dashboards"
    <3>1. \A b \in Buttons : ~Posted(calls[s], b) /\ ~Posted(going[s], b)
      BY <1>1, <1>2, <2>1, <2>2, <2>3, NoCallOK DEF SignInsStay, Posted, SignIns
    <3>2. \A r \in Slots, b \in Buttons : Posted(going[r], b) <=> Posted(calls[r], b)
      BY <2>2, <3>1
    <3> QED
      BY <1>3, <2>1, <2>3, <3>2
  <2>4. CASE page.at # "dashboards"
    <3>1. PICK ws : Go("dashboards", <<>>, ws, going)
      BY <2>1, <2>4
    <3> QED
      BY <1>5, <2>2, <3>1
  <2> QED
    BY <2>3, <2>4
<1>15. ASSUME NEW s \in Slots, Executed(s)
       PROVE  ButtonsAgree' /\ SignInsStay'
  <2> DEFINE c == calls[s]
             n == Len(stored[c.key][c.ws]) + 1
  <2>1. /\ CallOK(c) /\ c.pc = "sent" /\ UNCHANGED <<page, button>>
        /\ \/ calls' = [calls EXCEPT ![s].pc = "done", ![s].len = n]
           \/ \E p \in {"done", "failed"} : calls' = [calls EXCEPT ![s].pc = p]
    BY <1>1, <1>15 DEF Executed, ui
  <2>2. DOMAIN c = {"what", "pc", "here", "key", "ws", "of", "item", "len"}
    <3> HIDE DEF c
    <3> QED
      BY <2>1, CallParts
  <2> HIDE DEF n
  <2>3. calls'[s].what = c.what /\ calls'[s].here = c.here
    BY <1>1, <2>1, <2>2
  <2>4. \A r \in Slots \ {s} : calls'[r] = calls[r]
    BY <1>1, <2>1
  <2>5. \A r \in Slots, b \in Buttons : Posted(calls'[r], b) <=> Posted(calls[r], b)
    BY <2>3, <2>4 DEF Posted
  <2> QED
    BY <1>3, <2>1, <2>5
<1> QED
  BY <1>6, <1>7, <1>8, <1>9, <1>10, <1>11, <1>12, <1>13, <1>14, <1>15, Frame

-----------------------------------------------------------------------------
(* The card.                                                               *)

LEMMA FourAtMost ==
  ASSUME NEW a, NEW b, NEW c, NEW d, NEW S, S \subseteq {a, b, c, d}
  PROVE  Cardinality(S) \in Nat /\ Cardinality(S) <= 4
<1> DEFINE T == {a, b, c, d}
<1>1. IsFiniteSet({}) /\ Cardinality({}) = 0
  BY FS_EmptySet
<1>2. IsFiniteSet({a}) /\ Cardinality({a}) = 1
  BY FS_Singleton
<1>3. ASSUME NEW U, NEW x, IsFiniteSet(U)
      PROVE  /\ IsFiniteSet(U \cup {x}) /\ Cardinality(U) \in Nat /\ Cardinality(U \cup {x}) \in Nat
             /\ Cardinality(U \cup {x}) <= Cardinality(U) + 1
  <2>1. /\ IsFiniteSet(U \cup {x})
        /\ Cardinality(U \cup {x}) = IF x \in U THEN Cardinality(U) ELSE Cardinality(U) + 1
    BY <1>3, FS_AddElement
  <2>2. Cardinality(U) \in Nat
    BY <1>3, FS_CardinalityType
  <2> QED
    BY <2>1, <2>2
<1> DEFINE U1 == {a}
           U2 == U1 \cup {b}
           U3 == U2 \cup {c}
           U4 == U3 \cup {d}
<1>4. IsFiniteSet(U1) /\ Cardinality(U1) = 1
  BY <1>2
<1> HIDE DEF U1
<1>5. IsFiniteSet(U2) /\ Cardinality(U2) \in Nat /\ Cardinality(U2) <= Cardinality(U1) + 1
  BY <1>3, <1>4, Zenon
<1> HIDE DEF U2
<1>6. IsFiniteSet(U3) /\ Cardinality(U3) \in Nat /\ Cardinality(U3) <= Cardinality(U2) + 1
  BY <1>3, <1>5, Zenon
<1> HIDE DEF U3
<1>7. IsFiniteSet(U4) /\ Cardinality(U4) \in Nat /\ Cardinality(U4) <= Cardinality(U3) + 1
  BY <1>3, <1>6, Zenon
<1> HIDE DEF U4
<1>8. T = U4
  BY DEF U1, U2, U3, U4
<1>9. IsFiniteSet(T) /\ Cardinality(T) \in Nat /\ Cardinality(T) <= 4
  BY <1>4, <1>5, <1>6, <1>7, <1>8
<1> HIDE DEF T
<1>10. Cardinality(S) \in Nat /\ Cardinality(S) <= Cardinality(T)
  BY <1>9, FS_Subset, FS_CardinalityType DEF T
<1> QED
  BY <1>9, <1>10

\* Five steps are all of them: each list has something, a board has a widget,
\* and the event is marked.
LEMMA DoneIsAll ==
  ASSUME DataFits, AllDone
  PROVE  /\ "eventSent" \in flags
         /\ Has(List("api-keys")) /\ Has(List("dashboards")) /\ Has(List("models"))
         /\ \E k \in Boards : Has(k)
<1> DEFINE a == List("api-keys")
           b == List("dashboards")
           c == List("models")
           e == <<"eventSent">>
           F == FirstBoard(entry)
<1>1. F \subseteq Boards
  BY BoardsListed DEF DataFits
<1>2. PICK d : F = {} \/ F = {d}
  BY DEF FirstBoard
<1>3. /\ StepsDone \subseteq {a, b, c, e} \cup F
      /\ \A k \in StepsDone : k = e \/ Has(k)
      /\ e \in StepsDone => "eventSent" \in flags \/ Has(e)
      /\ Cardinality(StepsDone) = 5
  BY DEF StepsDone, CardKeys, AllDone
<1>4. ASSUME NEW p, NEW q, NEW r, NEW s, StepsDone \subseteq {p, q, r, s} PROVE FALSE
  <2>1. Cardinality(StepsDone) <= 4
    BY <1>4, FourAtMost, Zenon
  <2>2. Cardinality(StepsDone) = 5
    BY DEF AllDone
  <2> QED
    BY <2>1, <2>2
<1>5. F = {d}
  BY <1>2, <1>3, <1>4
<1> HIDE DEF a, b, c, e, F
<1>6. a \in StepsDone /\ b \in StepsDone /\ c \in StepsDone /\ d \in StepsDone /\ e \in StepsDone
  <2>1. StepsDone \subseteq {a, b, c, d, e}
    BY <1>3, <1>5
  <2>2. ASSUME a \notin StepsDone PROVE FALSE
    <3>1. StepsDone \subseteq {b, c, d, e}
      BY <2>1, <2>2
    <3> QED
      BY <1>4, <3>1
  <2>3. ASSUME b \notin StepsDone PROVE FALSE
    <3>1. StepsDone \subseteq {a, c, d, e}
      BY <2>1, <2>3
    <3> QED
      BY <1>4, <3>1
  <2>4. ASSUME c \notin StepsDone PROVE FALSE
    <3>1. StepsDone \subseteq {a, b, d, e}
      BY <2>1, <2>4
    <3> QED
      BY <1>4, <3>1
  <2>5. ASSUME d \notin StepsDone PROVE FALSE
    <3>1. StepsDone \subseteq {a, b, c, e}
      BY <2>1, <2>5
    <3> QED
      BY <1>4, <3>1
  <2>6. ASSUME e \notin StepsDone PROVE FALSE
    <3>1. StepsDone \subseteq {a, b, c, d}
      BY <2>1, <2>6
    <3> QED
      BY <1>4, <3>1
  <2> QED
    BY <2>2, <2>3, <2>4, <2>5, <2>6
\* The mark is no query key, and no key is the mark.
<1>7. /\ e # a /\ e # b /\ e # c /\ e # d
      /\ e \notin Boards
  BY <1>1, <1>5, KeyFacts DEF a, b, c, e, List
<1>8. "eventSent" \in flags
  <2>1. e \in StepsDone => e \in CardKeys(entry) \/ "eventSent" \in flags
    BY DEF StepsDone, e
  <2>2. CardKeys(entry) = {a, b, c} \cup F
    BY DEF CardKeys, a, b, c, F
  <2> QED
    BY <1>5, <1>6, <1>7, <2>1, <2>2
<1>9. Has(a) /\ Has(b) /\ Has(c) /\ Has(d)
  BY <1>3, <1>6, <1>7
<1>10. d \in Boards
  BY <1>1, <1>5
<1> QED
  BY <1>8, <1>9, <1>10 DEF a, b, c

\* What is shown of a key was stored in some workspace, and for a board in its own.
LEMMA HasIsStored ==
  ASSUME DataFits, NEW k \in Keys, Has(k)
  PROVE  \E w \in Workspaces : stored[k][w] # <<>> /\ (k \in Boards => w = k[2])
<1> DEFINE e == entry[k]
           w == e.data.ws
<1>1. Fits(k, e, stored[k], owed[k]) /\ e.data.val # <<>> /\ stored[k] \in Shelf(k)
  BY DEF DataFits, CacheFits, ShelvesFit, Has
<1> HIDE DEF e
<1>2. e \in EntriesOf(k) /\ Loaded(e)
  BY <1>1, EntryParts DEF Fits
<1>3. /\ w \in Workspaces /\ e.data.val \in Seq(Items(k)) /\ Readable(k, w)
      /\ Len(e.data.val) <= Len(stored[k][w]) /\ stored[k][w] \in Seq(Items(k))
  BY <1>1, <1>2, EntryParts DEF Fits, Was, Shelf
<1>4. stored[k][w] # <<>>
  <2>1. Len(e.data.val) # 0 /\ Len(e.data.val) \in Nat
    BY <1>1, <1>3
  <2>2. stored[k][w] = <<>> => Len(stored[k][w]) = 0
    OBVIOUS
  <2> QED
    BY <1>3, <2>1, <2>2
<1> HIDE DEF w
<1> QED
  BY <1>3, <1>4 DEF Readable

LEMMA DismissedStep ==
  ASSUME Core, [Next]_vars
  PROVE  DismissedIsEarned'
<1>1. /\ DataFits /\ DismissedIsEarned /\ ShelvesFit(stored) /\ DataFits'
  BY DataStep DEF Core, DataFits
<1>2. ASSUME NEW k \in Keys, NEW w \in Workspaces, stored[k][w] # <<>>
      PROVE  stored'[k][w] # <<>>
  <2> DEFINE a == Len(stored[k][w])
             b == Len(stored'[k][w])
  <2>1. a \in Nat /\ b \in Nat /\ a <= b
    BY StoredGrows
  <2>2. a # 0
    BY <1>1, <1>2 DEF ShelvesFit, Shelf
  <2>3. b # 0
    <3> HIDE DEF a, b
    <3> QED
      BY <2>1, <2>2
  <2>4. stored'[k][w] = <<>> => b = 0
    OBVIOUS
  <2> QED
    BY <2>3, <2>4
\* Earned before the step, then earned.
<1>3. ASSUME /\ "eventSent" \in flags
             /\ \A k \in {List("api-keys"), List("dashboards"), List("models")} :
                  \E w \in Workspaces : stored[k][w] # <<>>
             /\ \E k \in Boards : stored[k][k[2]] # <<>>
      PROVE  DismissedIsEarned'
  <2>1. "eventSent" \in flags'
    BY <1>3, Frame DEF MarkEvent, Dismiss
  <2>2. \A k \in {List("api-keys"), List("dashboards"), List("models")} :
          \E w \in Workspaces : stored'[k][w] # <<>>
    BY <1>2, <1>3, ListFacts
  <2>3. \E k \in Boards : stored'[k][k[2]] # <<>>
    BY <1>2, <1>3, KeyFacts
  <2> QED
    BY <2>1, <2>2, <2>3 DEF DismissedIsEarned
<1>4. CASE Dismiss
  <2>1. AllDone
    BY <1>4 DEF Dismiss, MayDismiss
  <2>2. /\ "eventSent" \in flags
        /\ Has(List("api-keys")) /\ Has(List("dashboards")) /\ Has(List("models"))
        /\ \E k \in Boards : Has(k)
    BY <1>1, <2>1, DoneIsAll
  <2>3. \A k \in {List("api-keys"), List("dashboards"), List("models")} :
          \E w \in Workspaces : stored[k][w] # <<>>
    BY <1>1, <2>2, HasIsStored, ListFacts
  <2>4. \E k \in Boards : stored[k][k[2]] # <<>>
    BY <1>1, <2>2, HasIsStored, KeyFacts
  <2> QED
    BY <1>3, <2>2, <2>3, <2>4
<1>5. CASE "dismissed" \in flags
  BY <1>1, <1>3, <1>5 DEF DismissedIsEarned
<1>6. CASE "dismissed" \notin flags /\ ~Dismiss
  <2>1. "dismissed" \notin flags'
    BY <1>6, Frame DEF MarkEvent
  <2> QED
    BY <2>1 DEF DismissedIsEarned
<1> QED
  BY <1>4, <1>5, <1>6

-----------------------------------------------------------------------------
(* The theorems.                                                           *)

LEMMA CoreInit == Init => Core
<1> SUFFICES ASSUME Init PROVE Core
  OBVIOUS
<1>1. /\ mix \in Mixes /\ session \in mix.from
      /\ entry = [k \in Keys |-> Absent]
      /\ stored = [k \in Keys |-> [w \in Workspaces |->
                     IF k[1] \in DOMAIN mix.made /\ (k \in Boards => k = Board(w, 1))
                     THEN <<mix.made[k[1]]>> ELSE <<>>]]
      /\ ready = (page.at = "login")
      /\ button = AllIdle /\ open = {} /\ flags = {}
      /\ calls = [s \in Slots |-> NoCall]
      /\ owed = [k \in Keys |-> [ws |-> NONE, len |-> 0]]
  BY DEF Init
<1>2. SessionOK /\ FlagsOK
  BY <1>1, PagesAssumption DEF SessionOK, FlagsOK
<1>3. ShelvesFit(stored)
  <2>1. ASSUME NEW k \in Keys PROVE stored[k] \in Shelf(k)
    <3>1. ASSUME NEW w \in Workspaces
          PROVE  stored[k][w] \in Seq(Items(k)) /\ Len(stored[k][w]) <= MaxItems
      <4>1. stored[k][w] = <<>> \/ (stored[k][w] = <<mix.made[k[1]]>> /\ mix.made[k[1]] \in Items(k))
        BY <1>1, PagesAssumption
      <4>2. CASE stored[k][w] = <<>>
        BY <4>2, CacheAssumption
      <4>3. CASE stored[k][w] = <<mix.made[k[1]]>> /\ mix.made[k[1]] \in Items(k)
        <5>1. Len(stored[k][w]) = 1 /\ stored[k][w] \in Seq(Items(k))
          BY <4>3
        <5> QED
          BY <5>1, CacheAssumption
      <4> QED
        BY <4>1, <4>2, <4>3
    <3>2. stored[k] = [w \in Workspaces |-> stored[k][w]]
      BY <1>1
    <3> QED
      BY <3>1, <3>2 DEF Shelf
  <2> QED
    BY <1>1, <2>1 DEF ShelvesFit
<1>4. CacheFits(entry, stored, owed)
  BY <1>1, AbsentFits DEF CacheFits
<1>5. OwedOK /\ \A k \in Keys : owed[k].ws = NONE
  BY <1>1 DEF OwedOK, Debt
<1>6. PageOK(page)
  <2>1. page \in [at : mix.may \cap {"login", "dashboards", "alerts", "models"}, id : {<<>>}]
                \cup [at : mix.may \cap {"board"}, id : {k \in Boards : stored[k][k[2]] # <<>>}]
    BY DEF Init
  <2> QED
    BY <2>1 DEF PageOK
<1>7. Settled(page, ready, entry)
  <2>1. CASE ready
    <3>1. Observed(page, entry) = {}
      BY <1>1, <2>1 DEF Observed
    <3> QED
      BY <3>1 DEF Settled
  <2> QED
    BY <2>1 DEF Settled
<1>8. CallsFit /\ \A s \in Slots : calls[s] = NoCall
  BY <1>1, NoCallOK DEF CallsFit
<1>9. \A s \in Slots, b \in Buttons : ~Posted(calls[s], b)
  BY <1>8, NoCallOK DEF Posted
<1>10. ButtonsAgree /\ SignInsStay
  <2>1. AllIdle \in [Buttons -> {"idle", "pending", "error"}] /\ \A b \in Buttons : AllIdle[b] # "pending"
    BY DEF AllIdle
  <2>2. SignIns \subseteq Buttons
    BY DEF Buttons
  <2> QED
    BY <1>1, <1>9, <2>1, <2>2 DEF ButtonsAgree, SignInsStay
<1>11. OwedIsStored
  BY <1>5, <1>8 DEF OwedIsStored, NoCall
<1>12. DismissedIsEarned
  BY <1>1 DEF DismissedIsEarned
<1> QED
  BY <1>2, <1>3, <1>4, <1>5, <1>6, <1>7, <1>8, <1>10, <1>11, <1>12 DEF Core, DataFits

LEMMA CoreStep == Core /\ [Next]_vars => Core'
<1> SUFFICES ASSUME Core, [Next]_vars PROVE Core'
  OBVIOUS
<1> QED
  BY DataStep, SessionStep, CallsStep, ButtonsStep, OwedStep, DismissedStep DEF Core

LEMMA CoreInvariant == Spec => []Core
  BY CoreInit, CoreStep, PTL DEF Spec

LEMMA CoreMeans == Core => IInv
<1> SUFFICES ASSUME Core PROVE IInv
  OBVIOUS
<1>1. /\ SessionOK /\ FlagsOK /\ CacheFits(entry, stored, owed) /\ ShelvesFit(stored) /\ OwedOK
      /\ PageOK(page) /\ Settled(page, ready, entry) /\ CallsFit /\ ButtonsAgree
  BY DEF Core, DataFits
<1>2. \A k \in Keys : Fits(k, entry[k], stored[k], owed[k])
  BY <1>1 DEF CacheFits
<1>3. TypeOK
  <2>1. DOMAIN entry = Keys /\ \A k \in Keys : entry[k] \in EntriesOf(k)
    BY <1>1, <1>2 DEF CacheFits, Fits
  <2>2. /\ DOMAIN stored = Keys
        /\ \A k \in Keys : /\ stored[k] \in [Workspaces -> Seq(Items(k))]
                           /\ \A w \in Workspaces : Len(stored[k][w]) <= MaxItems
    BY <1>1 DEF ShelvesFit, Shelf
  <2> QED
    BY <1>1, <2>1, <2>2 DEF TypeOK, SessionOK, FlagsOK, OwedOK, Debt, PageOK, CallsFit, ButtonsAgree
<1>4. CacheIsPast
  BY <1>2 DEF CacheIsPast, Past, Fits, Was
<1>5. OneSubmission
  <2>1. ASSUME NEW b \in Buttons
        PROVE  Cardinality({s \in Slots : calls[s].what = b /\ calls[s].here = "here"})
               = IF button[b] = "pending" THEN 1 ELSE 0
    <3> DEFINE P == {s \in Slots : calls[s].what = b /\ calls[s].here = "here"}
    <3>1. /\ button[b] = "pending" <=> \E s \in Slots : s \in P
          /\ \A s, t \in P : s = t
      BY <1>1 DEF ButtonsAgree, Posted
    <3>2. CASE button[b] = "pending"
      <4>1. PICK s \in Slots : s \in P
        BY <3>1, <3>2
      <4> HIDE DEF P
      <4>2. P = {s}
        BY <3>1, <4>1
      <4>3. Cardinality(P) = 1
        BY <4>2, FS_Singleton
      <4> QED
        BY <3>2, <4>3 DEF P
    <3>3. CASE button[b] # "pending"
      <4>1. P = {}
        BY <3>1, <3>3
      <4>2. Cardinality(P) = 0
        BY <4>1, FS_EmptySet
      <4> QED
        BY <3>3, <4>2
    <3> QED
      BY <3>2, <3>3
  <2> QED
    BY <2>1 DEF OneSubmission
<1>6. OwedComes
  <2>1. ASSUME NEW k \in Keys
        PROVE  LET e == entry[k] IN
               /\ Loaded(e) /\ ~e.invalid => Shows(k, e.data)
               /\ e.fetch.pc = "read" => Shows(k, e.fetch)
               /\ k \in Active /\ Loaded(e) /\ e.invalid => Fetching(e) \/ e.failed
    <3>1. Fits(k, entry[k], stored[k], owed[k])
      BY <1>2
    <3>2. /\ Loaded(entry[k]) /\ ~entry[k].invalid => Shows(k, entry[k].data)
          /\ entry[k].fetch.pc = "read" => Shows(k, entry[k].fetch)
      BY <3>1 DEF Fits, Shown, Shows
    <3>3. k \in Active => Rests(entry[k])
      BY <1>1 DEF Active, Settled
    <3> QED
      BY <3>2, <3>3 DEF Rests
  <2> QED
    BY <2>1 DEF OwedComes
<1>7. DismissedIsEarned /\ OwedIsStored
  BY DEF Core
<1> QED
  BY <1>3, <1>4, <1>5, <1>6, <1>7 DEF IInv

(* What a tab promises its user, however sessions, pages, late answers and *)
(* failures overlap: every cached answer is what its own workspace has or  *)
(* had, a button is pending exactly while the one call of its form is in   *)
(* flight, the card goes only when its steps were done, and a change the   *)
(* user made is stored and on its way to each page that shows it.          *)
THEOREM Invariant == Spec => []IInv
  BY CoreInvariant, CoreMeans, PTL

LEMMA CoreShows == Core => ShowsOwnWrites
<1> SUFFICES ASSUME Core PROVE ShowsOwnWrites
  OBVIOUS
<1>1. OwedComes
  BY CoreMeans DEF IInv
<1>2. Active \subseteq Keys
  BY ObservedKeys DEF Core, DataFits, Active
<1>3. ASSUME NEW k \in Active, Loaded(entry[k]), ~Fetching(entry[k]), ~entry[k].failed,
             entry[k].data.ws = owed[k].ws
      PROVE  Len(entry[k].data.val) >= owed[k].len
  <2>1. ~entry[k].invalid
    BY <1>1, <1>2, <1>3 DEF OwedComes
  <2>2. Shows(k, entry[k].data)
    BY <1>1, <1>2, <1>3, <2>1 DEF OwedComes
  <2> QED
    BY <1>3, <2>2 DEF Shows
<1> QED
  BY <1>3 DEF ShowsOwnWrites

(* A page whose queries have come to rest shows what its user's last       *)
(* change, made in the workspace it shows, left behind: onSuccess marks or *)
(* fetches anew what the change touched, and no later answer, mount or     *)
(* navigation puts the older one in its place.                             *)
THEOREM OwnWritesShown == Spec => []ShowsOwnWrites
  BY CoreInvariant, CoreShows, PTL

LEMMA CoreDraws == Core => DrawnAsAnswered
<1> SUFFICES ASSUME Core,
                    NEW k \in Active \cap {List("models"), List("forecast"), List("funnel"), List("cohort")},
                    Has(k)
             PROVE  LET val == entry[k].data.val answer == val[Len(val)] IN
                    CASE k = List("models") -> ModelsDrawn(val)
                      [] k = List("forecast") -> ForecastDrawn(answer)
                      [] k = List("funnel") -> FunnelDrawn(answer)
                      [] OTHER -> CohortDrawn(answer)
  BY DEF DrawnAsAnswered
<1> DEFINE val == entry[k].data.val
           answer == val[Len(val)]
           name == k[1]
<1>1. k \in Keys /\ k \notin Boards /\ name \in Reports \cup {"models"} /\ k = List(name)
  BY KeyFacts DEF List, Lists, Reports
<1>2. Items(k) = Answers[name]
  BY <1>1, CacheAssumption DEF Items
<1>3. val \in Seq(Items(k)) /\ val # <<>>
  <2>1. TypeOK
    BY CoreMeans DEF IInv
  <2>2. entry[k] \in EntriesOf(k)
    BY <1>1, <2>1 DEF TypeOK
  <2>3. val # <<>>
    BY DEF Has
  <2> QED BY <2>2, <2>3, EntryParts
<1>4. val \in Seq(Answers[name]) /\ answer \in Answers[name]
  <2> DEFINE A == Answers[name]
  <2>1. val \in Seq(A) /\ val # <<>>
    BY <1>2, <1>3
  <2> HIDE DEF A, val
  <2>2. val \in Seq(A) /\ val[Len(val)] \in A
    BY <2>1
  <2> QED BY <2>2 DEF A
<1> HIDE DEF val, answer, name
<1>5. CASE name = "models"
  <2>1. ModelsDrawn(val)
    BY <1>4, <1>5, ModelsAreDrawn
  <2> QED BY <1>1, <1>5, <2>1 DEF List, answer, val
<1>6. CASE name = "forecast"
  <2>1. ForecastDrawn(answer)
    BY <1>4, <1>6, ForecastIsDrawn
  <2> QED BY <1>1, <1>6, <2>1 DEF List, answer, val
<1>7. CASE name = "funnel"
  <2>1. answer \in Seq(Nat) /\ \A i \in 2 .. Len(answer) : answer[i] <= answer[i - 1]
    BY <1>4, <1>7, AnswersAssumption
  <2>2. FunnelDrawn(answer)
    BY <2>1, FunnelIsDrawn
  <2> QED BY <1>1, <1>7, <2>2 DEF List, answer, val
<1>8. CASE name = "cohort"
  <2>1. CohortDrawn(answer)
    BY <1>4, <1>8, CohortsAreDrawn
  <2> QED BY <1>1, <1>8, <2>1 DEF List, answer, val
<1> QED BY <1>1, <1>5, <1>6, <1>7, <1>8 DEF Reports

(* Every chart, shade and pick on a page is true to the answer it shows,   *)
(* for any list of models and any forecast, funnel or cohort the server    *)
(* may answer: the newest model of each kind is found by going over the    *)
(* list once, widths and losses by whole division, the greatest count      *)
(* among finitely many, and the chart's rows by joining two lists.         *)
THEOREM DrawsWhatWasAnswered == Spec => []DrawnAsAnswered
  BY CoreInvariant, CoreDraws, PTL
=============================================================================
