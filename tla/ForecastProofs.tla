--------------------------- MODULE ForecastProofs ---------------------------
(***************************************************************************)
(* Theorems about the forecast service. ModelRegistry, for any number of   *)
(* retrain threads, of requests and of saves, and any faults: a request    *)
(* never meets half a model, never gets a stale forecast and never steps   *)
(* back. DailySeries and Detectors, for any days and amounts and whatever  *)
(* is asked for: the series is whole, a flag is a deviation, and a day     *)
(* once judged is judged the same. Forecasts, for any predictions: an      *)
(* answer goes on where what was stored ends.                              *)
(***************************************************************************)
EXTENDS ModelRegistry, Detectors, Forecasts, WellFoundedInduction,
        SequenceTheorems, FiniteSetTheorems, TLAPS

-----------------------------------------------------------------------------
(* Numbers: the least and the greatest of a set, and going on from 0.      *)

\* A set of numbers has a least one, and one below a bound a greatest.
LEMMA Least ==
    ASSUME NEW S \in SUBSET Nat, S # {}
    PROVE  Min(S) \in S /\ \A x \in S : Min(S) <= x
<1> DEFINE R == OpToRel(<, Nat)
<1>1. IsWellFoundedOn(R, Nat)
  BY NatLessThanWellFounded
<1>2. PICK m \in S : \A x \in S : ~(<<x, m>> \in R)
  <2> HIDE DEF R
  <2> QED BY <1>1, WFMin
<1>3. ASSUME NEW x \in S PROVE m <= x
  <2>1. ~(x < m)
    BY <1>2 DEF OpToRel
  <2> QED BY <2>1
<1> QED BY <1>3 DEF Min

LEMMA Greatest ==
    ASSUME NEW N \in Nat, NEW S \in SUBSET (0 .. N), S # {}
    PROVE  Max(S) \in S /\ \A x \in S : x <= Max(S)
<1> DEFINE T == {N - x : x \in S}
<1>1. T \in SUBSET Nat /\ T # {} /\ \A x \in S : N - x \in T /\ x \in Nat
  OBVIOUS
<1>2. Min(T) \in T /\ \A y \in T : Min(T) <= y
  <2> HIDE DEF T
  <2> QED BY <1>1, Least
<1>3. PICK s \in S : Min(T) = N - s
  BY <1>2
<1>4. ASSUME NEW x \in S PROVE s >= x /\ x <= s
  <2>1. N - x \in T /\ x \in Nat /\ s \in Nat
    BY <1>1
  <2> HIDE DEF T
  <2>2. N - s <= N - x
    BY <2>1, <1>2, <1>3
  <2> QED BY <2>1, <2>2
<1>5. \A x \in S : s >= x
  BY <1>4
<1>6. Max(S) \in S /\ \A x \in S : Max(S) >= x
  BY <1>5 DEF Max
<1> QED BY <1>1, <1>6

\* What holds of 0 and, with j - 1, of j holds up to n.
LEMMA Onwards ==
    ASSUME NEW n \in Nat, NEW S \in SUBSET (0 .. n), 0 \in S,
           \A j \in 1 .. n : j - 1 \in S => j \in S
    PROVE  S = 0 .. n
<1> DEFINE T == (0 .. n) \ S
<1>1. T = {}
  <2> SUFFICES ASSUME T # {} PROVE FALSE
    OBVIOUS
  <2>1. T \in SUBSET Nat
    OBVIOUS
  <2>2. PICK m \in T : \A x \in T : m <= x
    <3> HIDE DEF T
    <3> QED BY <2>1, Least
  <2>3. m \in 1 .. n /\ m - 1 \in 0 .. n /\ m - 1 \notin T
    BY <2>2
  <2> QED BY <2>2, <2>3
<1> QED BY <1>1

\* The places of two lists laid one after the other.
LEMMA Joined ==
    ASSUME NEW S, NEW s \in Seq(S), NEW u \in Seq(S)
    PROVE  /\ Len(s \o u) = Len(s) + Len(u)
           /\ \A i \in 1 .. Len(s) : (s \o u)[i] = s[i]
           /\ \A i \in Len(s) + 1 .. Len(s) + Len(u) : (s \o u)[i] = u[i - Len(s)]
<1>1. Len(s) \in Nat /\ Len(u) \in Nat
  OBVIOUS
<1>2. /\ Len(s \o u) = Len(s) + Len(u)
      /\ \A i \in 1 .. Len(s) + Len(u) : (s \o u)[i] = IF i <= Len(s) THEN s[i] ELSE u[i - Len(s)]
  BY ConcatProperties
<1>3. \A i \in 1 .. Len(s) : i \in 1 .. Len(s) + Len(u) /\ i <= Len(s)
  BY <1>1
<1>4. \A i \in Len(s) + 1 .. Len(s) + Len(u) : i \in 1 .. Len(s) + Len(u) /\ ~(i <= Len(s))
  BY <1>1
<1> QED BY <1>2, <1>3, <1>4

-----------------------------------------------------------------------------
(* The newest of some stamps, and the model latest() picks.                *)

USE RegistryAssumption

\* NewestStamp is the stamp of a saved model, or zero.
LEMMA NewestStampIs ==
    ASSUME NEW k \in Kinds
    PROVE  /\ NewestStamp(k) \in 0 .. MaxSaves
           /\ NewestStamp(k) # 0 =>
                \E m \in Models : m.kind = k /\ Whole(m) /\ m.at = NewestStamp(k)
<1> DEFINE saved == {x \in Models : x.kind = k /\ Whole(x)}
           S == {0} \cup {m.at : m \in saved}
<1>1. S \in SUBSET (0 .. MaxSaves) /\ S # {}
  BY DEF Models, Stamps
<1>2. NewestStamp(k) \in S
  <2> HIDE DEF S
  <2>1. Max(S) \in S
    BY <1>1, Greatest
  <2> QED BY <2>1 DEF NewestStamp, S
<1> QED BY <1>1, <1>2

LEMMA LatestIs ==
    ASSUME NEW want \in Kinds \cup {AnyKind}, Candidates(want) # {}
    PROVE  /\ Latest(want) \in Candidates(want)
           /\ \A n \in Candidates(want) :
                n.kind = Latest(want).kind => n.at <= Latest(want).at
<1> DEFINE ats(k) == {m.at : m \in {x \in Candidates(want) : x.kind = k}}
<1>1. \A k : ats(k) \in SUBSET (0 .. MaxSaves)
  BY DEF Candidates, Models, Stamps
<1>2. \A x \in Candidates(want) : x \in Models /\ x.kind \in Kinds /\ x.at \in Nat
  BY DEF Candidates, Models, Stamps
\* The newest Prophet model, or the newest ARIMA model if there is no other.
<1>3. PICK k \in Kinds : /\ ats(k) # {}
                         /\ k = "arima" => ats("prophet") = {}
  <2>1. PICK x \in Candidates(want) : TRUE
    OBVIOUS
  <2>2. x.kind \in Kinds /\ x.at \in ats(x.kind)
    BY <1>2
  <2> QED BY <2>2 DEF Kinds
<1>4. PICK s \in ats(k) : \A x \in ats(k) : x <= s
  <2> HIDE DEF ats
  <2> QED BY <1>1, <1>3, Greatest
<1>5. PICK m \in Candidates(want) : m.kind = k /\ m.at = s
  BY <1>4
<1>6. \A n \in Candidates(want) \ {m} : ByName(m, n)
  <2> SUFFICES ASSUME NEW n \in Candidates(want), n # m PROVE Before(m, n)
    BY DEF ByName
  <2>1. n.at \in ats(n.kind)
    OBVIOUS
  <2>2. CASE n.kind = k
    <3>1. n.at <= m.at
      BY <2>1, <2>2, <1>4, <1>5
    <3>2. n.at # m.at
      BY <2>2, <1>5, <1>2 DEF Models
    <3> QED BY <3>1, <3>2, <1>2, <2>2, <1>5 DEF Before
  <2>3. CASE n.kind # k
    <3>1. ~(k = "arima")
      BY <2>3, <2>1, <1>3, <1>2 DEF Kinds
    <3> QED BY <3>1, <2>3, <1>2, <1>5 DEF Before, Kinds
  <2> QED BY <2>2, <2>3
<1>7. /\ Latest(want) \in Candidates(want)
      /\ \A n \in Candidates(want) \ {Latest(want)} : ByName(Latest(want), n)
  BY <1>6 DEF Latest
<1>8. ASSUME NEW n \in Candidates(want), n.kind = Latest(want).kind
      PROVE  n.at <= Latest(want).at
  BY <1>7, <1>8, <1>2 DEF ByName, Before, Kinds
<1> QED BY <1>7, <1>8

-----------------------------------------------------------------------------
(* The invariant.                                                          *)

LEMMA InvInit == Init => IInv
BY DEF Init, IInv, TypeOK, PickedIsLoadable, ManifestComesLast, StampsAreNew,
       SavesApart, SaveInOrder, Saving, PickedIsFresh, CacheNotBehind, ServedIsSaved,
       Models, Stamps, Kinds, NoModel, Error, AnyKind

\* What a thread does to the files leaves every saved model saved.
LEMMA TaskInv ==
    ASSUME IInv, NEW t \in Tasks, Retrain(t) \/ TaskStep(t)
    PROVE  IInv'
<1> USE DEF IInv, TypeOK, PickedIsLoadable, ManifestComesLast, StampsAreNew,
        SavesApart, SaveInOrder, Saving, PickedIsFresh, CacheNotBehind, ServedIsSaved,
        Whole, NoModel, AnyKind, Kinds, disk, task, reader, failures
<1>1. CASE Retrain(t)
  BY <1>1 DEF Retrain
<1>2. CASE Fit(t)
  BY <1>2 DEF Fit, NextStamp, Models, Stamps
<1>3. CASE FitFails(t)
  BY <1>3 DEF FitFails, NextKind, ArimaFollows
<1>4. CASE Dump(t)
  BY <1>4 DEF Dump
<1>5. CASE OpenManifest(t)
  BY <1>5 DEF OpenManifest, ManifestDue
<1>6. CASE WriteManifest(t)
  BY <1>6 DEF WriteManifest, NextKind, ArimaFollows
<1>7. CASE SaveFails(t)
  BY <1>7 DEF SaveFails, NextKind, AfterFailedSave, ArimaFollows
<1> QED BY <1>1, <1>2, <1>3, <1>4, <1>5, <1>6, <1>7 DEF TaskStep

\* A request picks a saved model that is as new as all that were saved when it
\* came, and no older than the one served before.
LEMMA PickIsNewest ==
    ASSUME IInv, NEW want \in Kinds \cup {AnyKind}, Latest(want) # NoModel
    PROVE  LET m == Latest(want) IN
           /\ m \in Models /\ Whole(m)
           /\ m.at >= NewestStamp(m.kind) /\ m.at >= served[m.kind]
<1> DEFINE m == Latest(want)
<1>1. Candidates(want) # {}
  BY DEF Latest
<1>2. m \in Candidates(want)
  BY <1>1, LatestIs
<1>3. m \in Models /\ Whole(m) /\ m.kind \in Kinds /\ m.at \in Nat
  BY <1>2 DEF Candidates, IInv, ManifestComesLast, Whole, Models, Stamps
<1>4. ASSUME NEW n \in Models, n.kind = m.kind, Whole(n) PROVE n.at <= m.at
  <2>1. n \in Candidates(want)
    BY <1>2, <1>4 DEF Candidates, Whole
  <2> QED BY <2>1, <1>1, <1>4, LatestIs
<1>5. m.at >= NewestStamp(m.kind)
  BY <1>3, <1>4, NewestStampIs
<1>6. m.at >= served[m.kind]
  BY <1>3, <1>4 DEF IInv, ServedIsSaved
<1> QED BY <1>3, <1>5, <1>6

LEMMA AskInv ==
    ASSUME IInv, NEW r \in Readers, NEW want \in Kinds \cup {AnyKind}, Ask(r, want)
    PROVE  IInv'
<1> DEFINE m == Latest(want)
           newest == [k \in Kinds |-> NewestStamp(k)]
<1>1. newest \in [Kinds -> 0 .. MaxSaves]
  BY NewestStampIs
<1>2. /\ pc[r] = "idle"
      /\ wanted' = [wanted EXCEPT ![r] = want]
      /\ floor' = [floor EXCEPT ![r] = newest]
      /\ UNCHANGED <<clock, pkl, manifest, cache, stage, saving, faults, crashes>>
  BY DEF Ask, disk, task, failures
<1> USE DEF IInv, TypeOK, PickedIsLoadable, ManifestComesLast, StampsAreNew,
        SavesApart, SaveInOrder, Saving, PickedIsFresh, CacheNotBehind, ServedIsSaved, Whole, failures
<1>3. CASE m = NoModel
  <2>1. reply' = [reply EXCEPT ![r] = Error("503")] /\ UNCHANGED <<pc, ref, served>>
    BY <1>3 DEF Ask
  <2> HIDE DEF m, newest
  <2> QED BY <1>1, <1>2, <2>1 DEF Error
<1>4. CASE m # NoModel
  <2>1. /\ ref' = [ref EXCEPT ![r] = m]
        /\ served' = [served EXCEPT ![m.kind] = m.at]
        /\ pc' = [pc EXCEPT ![r] = "get"]
        /\ reply' = [reply EXCEPT ![r] = Error("none")]
    BY <1>4 DEF Ask
  <2>2. m \in Models /\ Whole(m) /\ m.at >= newest[m.kind] /\ m.kind \in Kinds
    BY <1>4, PickIsNewest DEF Models
  <2> HIDE DEF m, newest
  <2> QED BY <1>1, <1>2, <2>1, <2>2 DEF Error, Models, Stamps
<1> QED BY <1>3, <1>4

\* The rest of a request writes no file; the cache gets what was picked.
LEMMA ReaderInv ==
    ASSUME IInv, NEW r \in Readers, ReaderStep(r)
    PROVE  IInv'
<1> USE DEF IInv, TypeOK, PickedIsLoadable, ManifestComesLast, StampsAreNew,
        SavesApart, SaveInOrder, Saving, PickedIsFresh, CacheNotBehind, ServedIsSaved,
        Whole, NoModel, Error, disk, task, failures, Reply
<1>1. CASE CacheHit(r)
  BY <1>1 DEF CacheHit, Hits
<1>2. CASE CacheMiss(r)
  <2>1. CASE Reply(r, Error("500")) /\ UNCHANGED <<clock, disk, cache, task, failures>>
    BY <2>1
  <2>2. CASE /\ pc[r] = "get" /\ pc' = [pc EXCEPT ![r] = "set"]
             /\ UNCHANGED <<wanted, ref, floor, reply, served, clock, disk, cache, task, failures>>
    BY <2>2
  <2> QED BY <1>2, <2>1, <2>2 DEF CacheMiss
<1>3. CASE StoreForecast(r)
  <2>1. ref[r] \in Models /\ ref[r].at \in Nat
    BY <1>3 DEF StoreForecast, Models, Stamps
  <2> QED BY <1>3, <2>1 DEF StoreForecast, CacheKey
<1>4. CASE ForecastFails(r)
  BY <1>4 DEF ForecastFails
<1> QED BY <1>1, <1>2, <1>3, <1>4 DEF ReaderStep

LEMMA InvStep == IInv /\ [Next]_vars => IInv'
<1> SUFFICES ASSUME IInv, [Next]_vars PROVE IInv'
  OBVIOUS
<1>1. ASSUME (\E c \in cache : Expire(c)) \/ Crash \/ UNCHANGED vars PROVE IInv'
  <2> USE DEF IInv, TypeOK, PickedIsLoadable, ManifestComesLast, StampsAreNew,
          SavesApart, SaveInOrder, Saving, PickedIsFresh, CacheNotBehind, ServedIsSaved,
          Whole, NoModel, Error, disk, task, reader, failures
  <2>1. ASSUME NEW c \in cache, Expire(c) PROVE IInv'
    BY <2>1 DEF Expire
  <2>2. CASE Crash
    BY <2>2 DEF Crash
  <2>3. CASE UNCHANGED vars
    BY <2>3 DEF vars
  <2> QED BY <1>1, <2>1, <2>2, <2>3
<1>2. ASSUME NEW t \in Tasks, Retrain(t) \/ TaskStep(t) PROVE IInv'
  BY <1>2, TaskInv
<1>3. ASSUME NEW r \in Readers, ReaderStep(r) PROVE IInv'
  BY <1>3, ReaderInv
<1>4. ASSUME NEW r \in Readers, NEW want \in Kinds \cup {AnyKind}, Ask(r, want) PROVE IInv'
  BY <1>4, AskInv
<1> QED BY ONLY [Next]_vars, <1>1, <1>2, <1>3, <1>4 DEF Next

-----------------------------------------------------------------------------
\* The files and the requests agree in every reachable state.
THEOREM Invariant == Spec => []IInv
BY InvInit, InvStep, PTL DEF Spec

\* Whatever save is under way or died half-way, a picked model can be loaded.
THEOREM PicksCanBeLoaded == Spec => []PickedIsLoadable
<1>1. IInv => PickedIsLoadable
  BY DEF IInv
<1> QED BY <1>1, Invariant, PTL

\* A reply is written when a request ends, and then the model is the one that
\* was picked, or what the cache has for it.
LEMMA FreshStep == IInv /\ ForecastIsFresh /\ [Next]_vars => ForecastIsFresh'
<1> SUFFICES ASSUME IInv, ForecastIsFresh, [Next]_vars PROVE ForecastIsFresh'
  OBVIOUS
<1> USE DEF ForecastIsFresh, Error, disk, task, reader, failures
<1>1. ASSUME NEW t \in Tasks, Retrain(t) \/ TaskStep(t) PROVE ForecastIsFresh'
  BY <1>1 DEF Retrain, TaskStep, Fit, FitFails, Dump, OpenManifest, WriteManifest, SaveFails
<1>2. \A m \in Models : \A c : m # Error(c)
  BY DEF Models, Stamps
<1>3. ASSUME NEW r \in Readers, NEW want \in Kinds \cup {AnyKind}, Ask(r, want)
      PROVE  ForecastIsFresh'
  <2>1. /\ reply' \in {[reply EXCEPT ![r] = Error(c)] : c \in {"503", "none"}}
        /\ \A q \in Readers : q # r => floor'[q] = floor[q]
    BY <1>3 DEF Ask, IInv, TypeOK
  <2>2. DOMAIN reply = Readers
    BY DEF IInv, TypeOK
  <2>3. reply'[r] \notin Models /\ \A q \in Readers : q # r => reply'[q] = reply[q]
    BY ONLY <2>1, <2>2, <1>2, r \in Readers
  <2> QED BY ONLY <2>1, <2>3, ForecastIsFresh DEF ForecastIsFresh
<1>4. ASSUME NEW r \in Readers, ReaderStep(r) PROVE ForecastIsFresh'
  <2>1. pc[r] # "idle" /\ ref[r] \in Models /\ ref[r].at >= floor[r][ref[r].kind]
    BY <1>4 DEF ReaderStep, CacheHit, CacheMiss, StoreForecast, ForecastFails, IInv,
                PickedIsFresh
  <2>2. CASE CacheHit(r)
    <3>1. PICK c \in cache : c.key = ref[r] /\ Reply(r, c.model)
      BY <2>2 DEF CacheHit, Hits, CacheKey
    <3>2. /\ c.model \in Models /\ c.model.kind = ref[r].kind /\ c.model.at >= ref[r].at
      BY <3>1 DEF IInv, TypeOK, CacheNotBehind
    <3>3. c.model.at >= floor[r][c.model.kind]
      BY <2>1, <3>2 DEF IInv, TypeOK, Models, Stamps
    <3> QED BY <3>1, <3>3 DEF Reply, IInv, TypeOK
  <2>3. CASE CacheMiss(r)
    BY <2>3, <1>2 DEF CacheMiss, Reply, IInv, TypeOK
  <2>4. CASE StoreForecast(r)
    BY <2>4, <2>1 DEF StoreForecast, Reply, IInv, TypeOK
  <2>5. CASE ForecastFails(r)
    BY <2>5, <1>2 DEF ForecastFails, Reply, IInv, TypeOK
  <2> QED BY <1>4, <2>2, <2>3, <2>4, <2>5 DEF ReaderStep
<1>5. ASSUME NEW c \in cache, Expire(c) PROVE ForecastIsFresh'
  BY <1>5 DEF Expire
<1>6. CASE Crash
  BY <1>6, <1>2 DEF Crash, IInv, TypeOK
<1>7. CASE UNCHANGED vars
  BY <1>7 DEF vars
<1> QED BY <1>1, <1>3, <1>4, <1>5, <1>6, <1>7 DEF Next

\* No forecast is of an older model than one saved when the request came, even
\* if it comes from the cache.
THEOREM ForecastsAreFresh == Spec => []ForecastIsFresh
<1>1. Init => ForecastIsFresh
  BY DEF Init, ForecastIsFresh, Error, Models, Stamps
<1> QED BY <1>1, FreshStep, Invariant, PTL DEF Spec

\* Requests for a kind never step back, in whichever order overlapping saves
\* write their manifests.
THEOREM NeverStepsBack == Spec => ServedNeverOlder
<1>1. IInv /\ [Next]_vars => [\A k \in Kinds : served'[k] >= served[k]]_vars
  <2> SUFFICES ASSUME IInv, Next PROVE \A k \in Kinds : served'[k] >= served[k]
    OBVIOUS
  <2>1. \A k \in Kinds : served[k] \in Nat
    BY DEF IInv, TypeOK
  <2>2. ASSUME NEW r \in Readers, NEW want \in Kinds \cup {AnyKind}, Ask(r, want)
        PROVE  \A k \in Kinds : served'[k] >= served[k]
    <3> DEFINE m == Latest(want)
    <3>1. CASE m = NoModel
      BY <2>1, <2>2, <3>1 DEF Ask
    <3>2. CASE m # NoModel
      <4>1. served' = [served EXCEPT ![m.kind] = m.at]
        BY <2>2, <3>2 DEF Ask
      <4>2. m.at >= served[m.kind]
        BY <3>2, PickIsNewest
      <4> QED BY <4>1, <4>2, <2>1 DEF IInv, TypeOK
    <3> QED BY <3>1, <3>2
  <2>3. (\A r \in Readers, want \in Kinds \cup {AnyKind} : ~Ask(r, want)) => served' = served
    BY DEF Next, Retrain, TaskStep, Fit, FitFails, Dump, OpenManifest, WriteManifest,
           SaveFails, ReaderStep, CacheHit, CacheMiss, StoreForecast, ForecastFails,
           Reply, Expire, Crash, reader
  <2> QED BY <2>1, <2>2, <2>3
<1> QED BY <1>1, Invariant, PTL DEF Spec, ServedNeverOlder

-----------------------------------------------------------------------------
(* The series.                                                             *)

HIDE RegistryAssumption
USE SeriesAssumption

Kpis == [1 .. MaxDay -> {None} \cup 0 .. MaxAmount]
Points == [ds : 1 .. MaxDay, y : 0 .. MaxAmount]
SeriesTyped == kpi \in Kpis /\ today \in Nat

DayOf(k, d) == [ds |-> d, y |-> IF k[d] = None THEN 0 ELSE k[d]]

LEMMA TypedSeries == SeriesSpec => []SeriesTyped
<1>1. SeriesInit => SeriesTyped
  BY DEF SeriesInit, SeriesTyped, Kpis
<1>2. SeriesTyped /\ [SeriesNext]_seriesVars => SeriesTyped'
  <2> SUFFICES ASSUME SeriesTyped, [SeriesNext]_seriesVars PROVE SeriesTyped'
    OBVIOUS
  <2> USE DEF SeriesTyped, Kpis
  <2>1. CASE NextDay
    BY <2>1 DEF NextDay
  <2>2. ASSUME NEW d \in 1 .. today, NEW amount \in 0 .. MaxAmount, Record(d, amount)
        PROVE  SeriesTyped'
    <3> DEFINE sum == IF kpi[d] = None THEN amount ELSE kpi[d] + amount
    <3>1. kpi' = [kpi EXCEPT ![d] = sum] /\ sum <= MaxAmount /\ today' = today
      BY <2>2 DEF Record
    <3>2. d \in 1 .. MaxDay => sum \in 0 .. MaxAmount
      BY <3>1 DEF None
    <3> HIDE DEF sum
    <3> QED BY <3>1, <3>2
  <2>3. CASE UNCHANGED seriesVars
    BY <2>3 DEF seriesVars
  <2> QED BY <2>1, <2>2, <2>3 DEF SeriesNext
<1> QED BY <1>1, <1>2, PTL DEF SeriesSpec

\* Every day from the first with a row to the last, and each as it is stored.
LEMMA FetchedIs ==
    ASSUME NEW k \in Kpis, NEW t \in Nat, Selected(k, t) # {}
    PROVE  LET days == Selected(k, t) lo == Min(days) hi == Max(days) IN
           /\ lo \in days /\ hi \in days /\ \A d \in days : lo <= d /\ d <= hi
           /\ Fetched(k, t) = [i \in 1 .. hi - lo + 1 |-> DayOf(k, lo + i - 1)]
<1> DEFINE days == Selected(k, t)
           lo == Min(days)
           hi == Max(days)
<1>1. days \in SUBSET (1 .. MaxDay) /\ days \in SUBSET Nat /\ days \in SUBSET (0 .. MaxDay)
  BY DEF Selected
<1>2. lo \in days /\ hi \in days /\ \A d \in days : lo <= d /\ d <= hi
  <2> HIDE DEF days
  <2>1. days # {}
    BY DEF days
  <2> QED BY <1>1, <2>1, Least, Greatest
<1>3. lo \in 1 .. MaxDay /\ hi \in 1 .. MaxDay /\ lo <= hi
  BY <1>1, <1>2
<1> DEFINE F(g) == [d \in 0 .. MaxDay |-> IF d < Min(days) THEN <<>>
                                          ELSE Append(g[d - 1], DayOf(k, d))]
           G == [d \in 0 .. MaxDay |->
                   [i \in 1 .. (IF d < lo THEN 0 ELSE d - lo + 1) |-> DayOf(k, lo + i - 1)]]
           U == CHOOSE u : u = F(u)
<1>4. Fetched(k, t) = U[hi]
  BY DEF Fetched, DayOf
<1> HIDE DEF lo, hi, days
<1>5. ASSUME NEW d \in 0 .. MaxDay, NEW g, d # 0 => g[d - 1] = G[d - 1]
      PROVE  F(g)[d] = G[d]
  <2>1. CASE d < lo
    BY <2>1, <1>3 DEF lo
  <2>2. CASE ~(d < lo)
    <3>1. d # 0 /\ d - 1 \in 0 .. MaxDay
      BY <2>2, <1>3
    <3> DEFINE n == d - lo
               row == [i \in 1 .. n |-> DayOf(k, lo + i - 1)]
    <3>2. n \in Nat /\ G[d] = [i \in 1 .. n + 1 |-> DayOf(k, lo + i - 1)]
      BY <2>2, <1>3
    <3>3. G[d - 1] = row
      <4>1. CASE d - 1 < lo
        <5>1. n = 0
          BY <4>1, <2>2, <1>3
        <5> QED BY <5>1, <4>1, <3>1, <1>3
      <4>2. CASE ~(d - 1 < lo)
        BY <4>2, <3>1, <1>3
      <4> QED BY <4>1, <4>2
    <3>4. row \in Seq({DayOf(k, e) : e \in Nat}) /\ Len(row) = n
      BY <3>2, <1>3
    <3>5. Append(row, DayOf(k, d)) = [i \in 1 .. n + 1 |-> DayOf(k, lo + i - 1)]
      <4> DEFINE S == {DayOf(k, e) : e \in Nat}
                 elt == DayOf(k, d)
                 longer == Append(row, elt)
      <4>1. row \in Seq(S) /\ elt \in S /\ Len(row) = n
        <5>1. elt \in S
          OBVIOUS
        <5> QED BY <5>1, <3>4
      <4>2. ASSUME NEW i \in 1 .. n PROVE row[i] = DayOf(k, lo + i - 1)
        OBVIOUS
      <4>3. d = lo + (n + 1) - 1
        BY <1>3
      <4> HIDE DEF row, S, elt
      <4>4. /\ longer \in Seq(S) /\ Len(longer) = n + 1
            /\ \A i \in 1 .. n : longer[i] = row[i]
            /\ longer[n + 1] = elt
        BY <4>1, AppendProperties
      <4> HIDE DEF longer
      <4>5. longer = [i \in 1 .. n + 1 |-> longer[i]]
        BY <4>4, <3>2
      <4>6. ASSUME NEW i \in 1 .. n + 1 PROVE longer[i] = DayOf(k, lo + i - 1)
        <5>1. CASE i = n + 1
          BY <5>1, <4>3, <4>4 DEF elt
        <5>2. CASE i # n + 1
          <6>1. i \in 1 .. n
            BY <5>2, <3>2
          <6> QED BY <6>1, <4>2, <4>4
        <5> QED BY <5>1, <5>2
      <4>7. longer = [i \in 1 .. n + 1 |-> DayOf(k, lo + i - 1)]
        BY <4>5, <4>6, Zenon
      <4> QED BY <4>7 DEF longer, elt
    <3>6. F(g)[d] = Append(G[d - 1], DayOf(k, d))
      BY <2>2, <1>5, <3>1 DEF lo
    <3> QED BY <3>2, <3>3, <3>5, <3>6
  <2> QED BY <2>1, <2>2
<1>6. G = F(G)
  <2> DEFINE FG == F(G)
  <2>1. \A d \in 0 .. MaxDay : FG[d] = G[d]
    <3> HIDE DEF F, G
    <3> QED BY <1>5
  <2>2. FG = [d \in 0 .. MaxDay |-> FG[d]] /\ G = [d \in 0 .. MaxDay |-> G[d]]
    OBVIOUS
  <2> HIDE DEF FG, G
  <2>3. FG = G
    BY <2>1, <2>2
  <2> QED BY <2>3 DEF FG
<1>7. U = F(U)
  <2> HIDE DEF F, G
  <2> QED BY <1>6
<1> HIDE DEF U, F, G
<1> DEFINE Same == {d \in 0 .. MaxDay : U[d] = G[d]}
<1>8. Same = 0 .. MaxDay
  <2>1. ASSUME NEW d \in 0 .. MaxDay, d # 0 => d - 1 \in Same PROVE d \in Same
    <3>1. F(U)[d] = G[d]
      BY <2>1, <1>5
    <3> QED BY <3>1, <1>7
  <2>2. 0 \in Same /\ \A d \in 1 .. MaxDay : d - 1 \in Same => d \in Same
    <3> HIDE DEF Same
    <3> QED BY <2>1
  <2>3. Same \in SUBSET (0 .. MaxDay)
    OBVIOUS
  <2> HIDE DEF Same
  <2> QED BY <2>2, <2>3, Onwards
<1>9. Fetched(k, t) = [i \in 1 .. hi - lo + 1 |-> DayOf(k, lo + i - 1)]
  <2>1. U[hi] = G[hi]
    BY <1>8, <1>3
  <2> QED BY <2>1, <1>3, <1>4 DEF G
<1> QED BY <1>2, <1>9 DEF lo, hi, days

\* One point for each of the days that follow one another.
LEMMA SeriesOf ==
    ASSUME NEW k \in Kpis, NEW t \in Nat
    PROVE  \E lo \in Nat \ {0} :
             LET df == Fetched(k, t) IN
             /\ df \in Seq(Points)
             /\ \A i \in 1 .. Len(df) :
                  lo + i - 1 \in 1 .. MaxDay /\ df[i] = DayOf(k, lo + i - 1)
<1>1. CASE Selected(k, t) = {}
  <2>1. Fetched(k, t) = <<>>
    BY <1>1 DEF Fetched
  <2> QED BY <2>1
<1>2. CASE Selected(k, t) # {}
  <2> DEFINE lo == Min(Selected(k, t))
             hi == Max(Selected(k, t))
             df == Fetched(k, t)
  <2>1. lo \in 1 .. MaxDay /\ hi \in 1 .. MaxDay /\ lo <= hi
    <3> USE <1>2
    <3> QED BY FetchedIs DEF Selected
  <2>2. df = [i \in 1 .. hi - lo + 1 |-> DayOf(k, lo + i - 1)]
    BY <1>2, FetchedIs
  <2> HIDE DEF lo, hi, df
  <2>3. \A d \in 1 .. MaxDay : DayOf(k, d) \in Points
    BY DEF DayOf, Points, Kpis
  <2>4. hi - lo + 1 \in Nat /\ \A i \in 1 .. hi - lo + 1 : lo + i - 1 \in 1 .. MaxDay
    BY <2>1
  <2>5. df \in Seq(Points) /\ Len(df) = hi - lo + 1
    BY <2>2, <2>3, <2>4
  <2>6. \A i \in 1 .. Len(df) : lo + i - 1 \in 1 .. MaxDay /\ df[i] = DayOf(k, lo + i - 1)
    BY <2>2, <2>4, <2>5
  <2>7. lo \in Nat \ {0}
    BY <2>1
  <2> QED BY <2>5, <2>6, <2>7 DEF df
<1> QED BY <1>1, <1>2

\* Both ways to write the split are the same, and nothing is lost at the cut.
LEMMA SplitIs ==
    ASSUME NEW df \in Seq(Points)
    PROVE  LET cut == RunnerSplit(df) n == Len(df) IN
           /\ cut = SplitHoldout(df)
           /\ cut[1] \o cut[2] = df
           /\ cut[2] # <<>> =>
                /\ n > HoldoutDays + Margin /\ Len(cut[1]) > Margin
                /\ Len(cut[2]) = HoldoutDays /\ cut[2][HoldoutDays] = df[n]
<1> DEFINE cut == RunnerSplit(df)
           n == Len(df)
<1>1. n \in Nat
  OBVIOUS
<1>2. CASE n <= HoldoutDays + Margin
  <2>1. cut = <<df, <<>>>> /\ SplitHoldout(df) = <<df, <<>>>>
    BY <1>1, <1>2 DEF RunnerSplit, TrainPart, SplitHoldout
  <2>2. df \o <<>> = df
    BY ConcatEmptySeq
  <2> QED BY <2>1, <2>2
<1>3. CASE n > HoldoutDays + Margin
  <2> DEFINE m == n - HoldoutDays
             train == SubSeq(df, 1, m)
             test == SubSeq(df, m + 1, n)
  <2>1. cut = <<train, test>> /\ SplitHoldout(df) = <<train, test>>
    BY <1>1, <1>3 DEF RunnerSplit, TrainPart, SplitHoldout
  <2>2. m \in Nat /\ m > Margin /\ m < n /\ m + HoldoutDays = n
    BY <1>1, <1>3
  <2> HIDE DEF m
  <2>3. train \o test = df
    <3>1. /\ 1 \in 1 .. Len(df) + 1 /\ m \in 1 - 1 .. Len(df) /\ n \in m .. Len(df)
      BY <2>2, <1>1
    <3>2. train \o test = SubSeq(df, 1, n)
      BY <3>1, ConcatAdjacentSubSeq
    <3> QED BY <3>2, SubSeqFull
  <2>4. Len(train) = m
    <3>1. \A i \in 1 .. m : df[i] \in Points
      BY <2>2
    <3> QED BY <3>1, <2>2, SubSeqProperties
  <2>5. Len(test) = HoldoutDays /\ test[HoldoutDays] = df[n]
    <3>1. \A i \in m + 1 .. n : df[i] \in Points
      BY <2>2, <1>1
    <3>2. /\ Len(test) = IF m + 1 <= n THEN n - (m + 1) + 1 ELSE 0
          /\ \A i \in 1 .. n - (m + 1) + 1 : test[i] = df[m + 1 + i - 1]
      <4> HIDE DEF n
      <4>1. m + 1 \in Int /\ n \in Int
        BY <1>1, <2>2
      <4> QED BY <3>1, <4>1, SubSeqProperties
    <3> QED BY <3>2, <2>2, <1>1
  <2>6. cut[1] = train /\ cut[2] = test /\ Len(train) > Margin
    <3> HIDE DEF train, test, cut
    <3> QED BY <2>1, <2>2, <2>4
  <2> HIDE DEF train, test, cut
  <2> QED BY <1>3, <2>1, <2>3, <2>5, <2>6 DEF cut
<1> HIDE DEF cut
<1>4. n <= HoldoutDays + Margin \/ n > HoldoutDays + Margin
  BY <1>1
<1> QED BY <1>2, <1>3, <1>4 DEF cut

\* The days of a series are all there, none twice, none from today, and a
\* model is scored on the days right after those it was fitted on.
THEOREM SeriesAreWhole == SeriesSpec => []SeriesIsWhole
<1>1. SeriesTyped => SeriesIsWhole
  <2> SUFFICES ASSUME SeriesTyped PROVE SeriesIsWhole
    OBVIOUS
  <2> DEFINE df == Fetched(kpi, today)
             cut == RunnerSplit(df)
             days == Selected(kpi, today)
  <2>1. kpi \in Kpis /\ today \in Nat
    BY DEF SeriesTyped
  <2>2. df \in Seq(Points)
    BY <2>1, SeriesOf
  <2>3. /\ cut = SplitHoldout(df) /\ cut[1] \o cut[2] = df
        /\ cut[2] # <<>> =>
             /\ Len(df) > HoldoutDays + Margin /\ Len(cut[1]) > Margin
             /\ Len(cut[2]) = HoldoutDays /\ cut[2][HoldoutDays] = df[Len(df)]
    BY <2>2, SplitIs
  <2>4. ASSUME NEW d \in 1 .. MaxDay
        PROVE  d \in days <=> kpi[d] # None /\ d < today /\ today - d <= TrainWindow
    BY <2>1 DEF Selected, End
  <2>5. CASE days = {}
    <3>1. df = <<>>
      BY <2>5 DEF Fetched
    <3>2. cut[2] = <<>>
      <4>1. ~(Len(df) > HoldoutDays + Margin)
        BY <3>1
      <4> QED BY <4>1, <2>3
    <3> HIDE DEF cut
    <3> QED BY <2>3, <2>4, <2>5, <3>1, <3>2 DEF SeriesIsWhole, cut
  <2>6. CASE days # {}
    <3> DEFINE lo == Min(days)
               hi == Max(days)
    <3>1. /\ lo \in days /\ hi \in days /\ \A d \in days : lo <= d /\ d <= hi
          /\ df = [i \in 1 .. hi - lo + 1 |-> DayOf(kpi, lo + i - 1)]
      BY <2>1, <2>6, FetchedIs
    <3>2. lo \in 1 .. MaxDay /\ hi \in 1 .. MaxDay /\ lo <= hi
      BY <3>1 DEF Selected
    <3> HIDE DEF lo, hi, df, cut, days
    <3>3. Len(df) = hi - lo + 1 /\ Len(df) \in Nat
      BY <3>1, <3>2
    <3>4. ASSUME NEW i \in 1 .. Len(df)
          PROVE  /\ df[i].ds = lo + i - 1 /\ df[i].ds \in 1 .. MaxDay
                 /\ df[i].y = (IF kpi[df[i].ds] = None THEN 0 ELSE kpi[df[i].ds])
      BY <3>1, <3>2, <3>3 DEF DayOf
    <3>5. ASSUME NEW i \in 1 .. Len(df)
          PROVE  /\ df[i].ds < today /\ today - df[i].ds <= TrainWindow
                 /\ i > 1 => df[i].ds = df[i - 1].ds + 1
      <4>1. lo < today /\ today - lo <= TrainWindow /\ hi < today
        BY <2>4, <3>1, <3>2
      <4>2. df[i].ds < today /\ today - df[i].ds <= TrainWindow
        BY <4>1, <3>2, <3>3, <3>4, <2>1
      <4>3. ASSUME i > 1 PROVE df[i].ds = df[i - 1].ds + 1
        <5>1. i - 1 \in 1 .. Len(df)
          BY <4>3, <3>3
        <5>2. df[i].ds = lo + i - 1 /\ df[i - 1].ds = lo + (i - 1) - 1
          BY <5>1, <3>4
        <5>3. lo \in Int /\ i \in Int
          BY <3>2, <3>3
        <5> QED BY <5>2, <5>3
      <4> QED BY <4>2, <4>3
    <3>6. ASSUME NEW d \in 1 .. MaxDay, kpi[d] # None /\ d < today /\ today - d <= TrainWindow
          PROVE  \E i \in 1 .. Len(df) : df[i] = [ds |-> d, y |-> kpi[d]]
      <4>1. d \in days /\ lo <= d /\ d <= hi
        BY <3>6, <3>1, <2>4
      <4>2. d - lo + 1 \in 1 .. Len(df) /\ lo + (d - lo + 1) - 1 = d
        BY <4>1, <3>2, <3>3
      <4>3. df[d - lo + 1] = DayOf(kpi, d)
        BY <4>2, <3>1, <3>3
      <4> QED BY <4>2, <4>3, <3>6 DEF DayOf
    <3>7. ASSUME cut[2] # <<>>, kpi[df[Len(df)].ds] > 0
          PROVE  Scored(cut[2]) # {}
      <4>1. HoldoutDays \in 1 .. Len(cut[2]) /\ cut[2][HoldoutDays] = df[Len(df)]
        <5>1. Len(cut[2]) = HoldoutDays /\ cut[2][HoldoutDays] = df[Len(df)]
          BY <3>7, <2>3
        <5> QED BY <5>1
      <4>2. Len(df) \in 1 .. Len(df)
        BY <3>2, <3>3
      <4>3. df[Len(df)].y # 0
        BY <4>2, <3>4, <3>7 DEF None
      <4> QED BY <4>1, <4>3 DEF Scored
    <3> QED BY <2>3, <3>4, <3>5, <3>6, <3>7 DEF SeriesIsWhole, cut, df
  <2> QED BY <2>5, <2>6
<1> QED BY <1>1, TypedSeries, PTL

-----------------------------------------------------------------------------
(* What a day is judged by.                                                *)

\* A point as it is answered, from its window.
Assessed(point, w, q) ==
    [ds |-> point.ds, value |-> point.y,
     expected |-> CASE w = <<>> -> <<0, 0>>
                    [] w # <<>> /\ q.method = "zscore" -> <<Amount(w), Len(w)>>
                    [] OTHER -> <<Quantile(w, 2), 4>>,
     is_anomaly |-> /\ w # <<>>
                    /\ IF q.method = "zscore" THEN ZFlags(point.y, w, q.threshold)
                       ELSE IqrFlags(point.y, w, q.threshold)]

\* The window_days days before it, as they are stored.
IsWindow(w, k, d, n) ==
    /\ w \in Seq(Points) /\ Len(w) = n
    /\ d - n \in 1 .. MaxDay /\ d \in 1 .. MaxDay
    /\ \A j \in 1 .. n : w[j] = DayOf(k, d - n + j - 1)

LEMMA JudgedIs ==
    ASSUME NEW k \in Kpis, NEW t \in Nat, NEW q \in Asked, NEW p \in Judged(k, t, q)
    PROVE  \E w : IsWindow(w, k, p.ds, q.window_days) /\ p = Assessed(DayOf(k, p.ds), w, q)
<1> DEFINE df == Fetched(k, t)
           n == q.window_days
<1>1. PICK lo \in Nat \ {0} :
        /\ df \in Seq(Points)
        /\ \A i \in 1 .. Len(df) : lo + i - 1 \in 1 .. MaxDay /\ df[i] = DayOf(k, lo + i - 1)
  BY SeriesOf
<1>2. n \in Nat /\ n > 0
  BY AskedAssumption
<1>3. PICK i \in 1 .. Len(df) : p = Point(df, i, q)
  BY DEF Judged, Answer, Range
<1> HIDE DEF df
<1> DEFINE w == Baseline(df, i, n)
<1>4. p = Assessed(df[i], w, q)
  BY <1>3 DEF Point, Assessed
<1>5. p.expected # <<0, 0>>
  BY DEF Judged
<1>6. w # <<>>
  <2>1. w = <<>> => Assessed(df[i], w, q).expected = <<0, 0>>
    BY DEF Assessed
  <2> QED BY <2>1, <1>4, <1>5
<1>7. i > n /\ w = SubSeq(df, i - n, i - 1)
  <2>1. i <= n => w = <<>>
    BY DEF Baseline
  <2>2. ~(i <= n)
    BY <2>1, <1>6
  <2>3. w = SubSeq(df, i - n, i - 1)
    BY <2>2 DEF Baseline, Preceding
  <2>4. i \in Nat
    OBVIOUS
  <2> HIDE DEF w, n
  <2> QED BY ONLY <1>2, <2>2, <2>3, <2>4
<1>8. /\ w \in Seq(Points) /\ Len(w) = n
      /\ \A j \in 1 .. n : w[j] = df[i - n + j - 1]
  <2>1. Len(df) \in Nat /\ i \in Nat /\ i - n \in Int /\ i - 1 \in Int /\ i <= Len(df)
    BY <1>1, <1>2
  <2>2. \A j \in i - n .. i - 1 : j \in 1 .. Len(df)
    BY <2>1, <1>7, <1>2
  <2>3. \A j \in i - n .. i - 1 : df[j] \in Points
    BY <2>2, <1>1
  <2> DEFINE a == i - n
             b == i - 1
  <2>4. /\ a \in Int /\ b \in Int /\ a <= b /\ b - a + 1 = n
        /\ \A j \in 1 .. n : a + j - 1 = i - n + j - 1
    BY <1>2, <1>7, <2>1
  <2>5. w = SubSeq(df, a, b)
    BY <1>7
  <2>6. \A j \in a .. b : df[j] \in Points
    BY <2>3
  <2> HIDE DEF w, n, a, b
  <2>7. /\ w \in Seq(Points) /\ Len(w) = b - a + 1
        /\ \A j \in 1 .. b - a + 1 : w[j] = df[a + j - 1]
    BY ONLY <2>4, <2>5, <2>6, SubSeqProperties
  <2> QED BY ONLY <2>4, <2>7
<1>9. p.ds = lo + i - 1 /\ df[i] = DayOf(k, p.ds)
  <2>1. df[i] = DayOf(k, lo + i - 1)
    BY <1>1
  <2>2. p.ds = df[i].ds
    BY <1>4 DEF Assessed
  <2>3. df[i].ds = lo + i - 1
    BY <2>1 DEF DayOf
  <2> QED BY <2>1, <2>2, <2>3
<1>10. IsWindow(w, k, p.ds, n)
  <2>1. p.ds \in 1 .. MaxDay /\ p.ds - n \in 1 .. MaxDay
    <3>1. n \in Nat /\ i \in Nat /\ lo \in Nat /\ i \in 1 .. Len(df) /\ i - n \in 1 .. Len(df)
      BY <1>1, <1>2, <1>7
    <3> HIDE DEF n
    <3>2. lo + i - 1 \in 1 .. MaxDay /\ lo + (i - n) - 1 \in 1 .. MaxDay
      BY <3>1, <1>1
    <3>3. p.ds - n = lo + (i - n) - 1
      BY ONLY <3>1, <1>9
    <3> QED BY Zenon, <3>2, <3>3, <1>9
  <2>2. ASSUME NEW j \in 1 .. n PROVE w[j] = DayOf(k, p.ds - n + j - 1)
    <3> DEFINE l == Len(df)
    <3>0. /\ l \in Nat /\ i \in 1 .. l /\ i > n /\ n \in Nat /\ lo \in Nat
          /\ j \in 1 .. n /\ p.ds = lo + i - 1
      BY <1>1, <1>2, <1>7, <1>9
    <3>1. i - n + j - 1 \in 1 .. Len(df) /\ lo + (i - n + j - 1) - 1 = p.ds - n + j - 1
      <4> HIDE DEF l, n
      <4>1. i - n + j - 1 \in 1 .. l /\ lo + (i - n + j - 1) - 1 = p.ds - n + j - 1
        BY ONLY <3>0
      <4> QED BY <4>1 DEF l
    <3>2. df[i - n + j - 1] = DayOf(k, lo + (i - n + j - 1) - 1)
      BY <3>1, <1>1
    <3> HIDE DEF w, n
    <3> QED BY <3>1, <3>2, <1>8
  <2> HIDE DEF w, n
  <2> QED BY <2>1, <2>2, <1>8 DEF IsWindow
<1> QED BY <1>4, <1>9, <1>10

\* A day is judged as before for as long as its row and its window's stay.
THEOREM JudgementsStay == SeriesSpec => AnswersAreLocal
<1> DEFINE Stays ==
      \A q \in Asked :
         LET before == Judged(kpi, today, q) after == Judged(kpi', today', q) IN
         \A p \in before, r \in after :
           (p.ds = r.ds /\ \A e \in DaysBefore(p.ds, q.window_days) \cup {p.ds} : kpi'[e] = kpi[e])
             => p = r
<1>1. SeriesTyped /\ SeriesTyped' => Stays
  <2> SUFFICES ASSUME SeriesTyped, SeriesTyped', NEW q \in Asked,
                      NEW p \in Judged(kpi, today, q), NEW r \in Judged(kpi', today', q),
                      p.ds = r.ds,
                      \A e \in DaysBefore(p.ds, q.window_days) \cup {p.ds} : kpi'[e] = kpi[e]
               PROVE  p = r
    OBVIOUS
  <2> DEFINE n == q.window_days
             d == p.ds
  <2>1. kpi \in Kpis /\ today \in Nat /\ kpi' \in Kpis /\ today' \in Nat
    BY DEF SeriesTyped
  <2>2. PICK v : IsWindow(v, kpi, d, n) /\ p = Assessed(DayOf(kpi, d), v, q)
    BY <2>1, JudgedIs
  <2>3. PICK w : IsWindow(w, kpi', d, n) /\ r = Assessed(DayOf(kpi', d), w, q)
    BY <2>1, JudgedIs
  <2>4. n \in Nat /\ d \in Nat
    BY <2>2, AskedAssumption DEF IsWindow
  <2> HIDE DEF n, d
  <2>5. \A e \in (d - n) .. d : DayOf(kpi', e) = DayOf(kpi, e)
    <3> SUFFICES ASSUME NEW e \in (d - n) .. d PROVE kpi'[e] = kpi[e]
      BY DEF DayOf
    <3> QED BY <2>4 DEF DaysBefore, n, d
  <2>6. v = w
    <3>1. \A j \in 1 .. n : v[j] = w[j]
      <4> SUFFICES ASSUME NEW j \in 1 .. n PROVE v[j] = w[j]
        OBVIOUS
      <4>1. d - n + j - 1 \in (d - n) .. d
        BY <2>4
      <4> QED BY <4>1, <2>2, <2>3, <2>5 DEF IsWindow
    <3> QED BY <3>1, <2>2, <2>3, SeqEqual DEF IsWindow
  <2>7. DayOf(kpi', d) = DayOf(kpi, d)
    BY <2>5, <2>4
  <2> QED BY <2>2, <2>3, <2>6, <2>7
<1> QED BY <1>1, TypedSeries, PTL DEF AnswersAreLocal

-----------------------------------------------------------------------------
(* The arithmetic of the detectors.                                        *)

\* What the code computes by going over a list, as the function it is.
LEMMA TotalIs ==
    ASSUME NEW n \in Nat, NEW f \in [1 .. n -> Int]
    PROVE  \E u \in [0 .. n -> Int] :
             /\ u[0] = 0 /\ \A j \in 1 .. n : u[j] = u[j - 1] + f[j]
             /\ Total(f, n) = u[n]
<1> DEFINE Goes(m, u) == u[0] = 0 /\ \A j \in 1 .. m : u[j] = u[j - 1] + f[j]
           Fine(m) == \E u \in [0 .. m -> Int] : Goes(m, u)
           Far == {m \in 0 .. n : Fine(m)}
<1>1. Fine(0)
  <2> DEFINE g == [j \in 0 .. 0 |-> 0]
  <2>1. g \in [0 .. 0 -> Int] /\ Goes(0, g)
    OBVIOUS
  <2> QED BY <2>1
<1>2. ASSUME NEW m \in 1 .. n, Fine(m - 1) PROVE Fine(m)
  <2>1. PICK g \in [0 .. (m - 1) -> Int] : Goes(m - 1, g)
    BY <1>2
  <2> DEFINE h == [j \in 0 .. m |-> IF j = m THEN g[m - 1] + f[m] ELSE g[j]]
  <2>2. m \in Nat /\ h \in [0 .. m -> Int] /\ h[0] = 0
    BY <2>1
  <2>3. ASSUME NEW j \in 1 .. m PROVE h[j] = h[j - 1] + f[j]
    <3>1. CASE j = m
      BY <3>1, <2>2
    <3>2. CASE j # m
      <4>1. j \in 1 .. m - 1 /\ j - 1 \in 0 .. m /\ j \in 0 .. m /\ j - 1 # m
        BY <3>2
      <4>2. g[j] = g[j - 1] + f[j]
        BY <4>1, <2>1
      <4> QED BY <4>1, <4>2
    <3> QED BY <3>1, <3>2
  <2> QED BY <2>2, <2>3
<1>3. Far = 0 .. n
  <2> HIDE DEF Fine
  <2>1. 0 \in Far /\ \A j \in 1 .. n : j - 1 \in Far => j \in Far
    BY <1>1, <1>2
  <2> HIDE DEF Far
  <2>2. Far \in SUBSET (0 .. n)
    BY DEF Far
  <2> QED BY <2>1, <2>2, Onwards
<1>4. PICK u \in [0 .. n -> Int] : Goes(n, u)
  <2>1. Fine(n)
    <3> HIDE DEF Fine
    <3> QED BY <1>3
  <2> QED BY <2>1
<1> DEFINE Step(g) == [j \in 0 .. n |-> IF j = 0 THEN 0 ELSE g[j - 1] + f[j]]
           v == CHOOSE g : g = Step(g)
<1>5. u = Step(u)
  BY <1>4
<1>6. v = Step(v)
  <2> HIDE DEF Step
  <2> QED BY <1>5
<1>7. Total(f, n) = v[n]
  BY DEF Total
<1> HIDE DEF v
<1> DEFINE Same == {j \in 0 .. n : v[j] = u[j]}
<1>8. Same = 0 .. n
  <2>1. 0 \in Same
    BY <1>4, <1>6
  <2>2. ASSUME NEW j \in 1 .. n, j - 1 \in Same PROVE j \in Same
    <3>1. j \in 0 .. n /\ j # 0
      OBVIOUS
    <3>2. v[j] = v[j - 1] + f[j]
      BY <1>6, <3>1
    <3> QED BY <3>1, <3>2, <2>2, <1>4
  <2>3. Same \in SUBSET (0 .. n)
    OBVIOUS
  <2>4. \A j \in 1 .. n : j - 1 \in Same => j \in Same
    BY <2>2
  <2> HIDE DEF Same
  <2> QED BY <2>1, <2>3, <2>4, Onwards
<1>9. Total(f, n) = u[n]
  <2>1. n \in Same
    BY <1>8
  <2> QED BY <2>1, <1>7
<1> QED BY <1>4, <1>9

LEMMA Times ==
    ASSUME NEW a \in Nat, NEW b \in Int, NEW c \in Int, b <= c
    PROVE  a * b <= a * c /\ a * b \in Int /\ a * c \in Int
OBVIOUS

\* A sum of n numbers lies between n times their bounds.
LEMMA TotalWithin ==
    ASSUME NEW n \in Nat, NEW f \in [1 .. n -> Int], NEW lo \in Int, NEW hi \in Int,
           \A j \in 1 .. n : lo <= f[j] /\ f[j] <= hi
    PROVE  Total(f, n) \in Int /\ n * lo <= Total(f, n) /\ Total(f, n) <= n * hi
<1>1. PICK u \in [0 .. n -> Int] :
             /\ u[0] = 0 /\ \A j \in 1 .. n : u[j] = u[j - 1] + f[j]
             /\ Total(f, n) = u[n]
  BY TotalIs
<1> DEFINE In == {j \in 0 .. n : j * lo <= u[j] /\ u[j] <= j * hi}
<1>2. In = 0 .. n
  <2>1. 0 \in In
    BY <1>1
  <2>2. ASSUME NEW j \in 1 .. n, j - 1 \in In PROVE j \in In
    <3>1. u[j] = u[j - 1] + f[j] /\ u[j - 1] \in Int /\ u[j] \in Int
      BY <1>1
    <3>2. (j - 1) * lo + lo = j * lo /\ (j - 1) * hi + hi = j * hi
      OBVIOUS
    <3>3. (j - 1) * lo <= u[j - 1] /\ u[j - 1] <= (j - 1) * hi
      BY <2>2
    <3>4. j * lo <= u[j] /\ u[j] <= j * hi
      <4> DEFINE low == (j - 1) * lo
                 high == (j - 1) * hi
                 a == u[j - 1]
                 b == f[j]
      <4>1. low \in Int /\ high \in Int /\ a \in Int /\ b \in Int
        BY <3>1
      <4>2. low <= a /\ a <= high /\ lo <= b /\ b <= hi
        BY <3>3
      <4>3. j * lo = low + lo /\ j * hi = high + hi /\ u[j] = a + b
        BY <3>1, <3>2
      <4> HIDE DEF low, high, a, b
      <4>4. low + lo <= a + b /\ a + b <= high + hi
        BY ONLY <4>1, <4>2, lo \in Int, hi \in Int
      <4> QED BY ONLY <4>3, <4>4, Zenon
    <3> QED BY <3>4
  <2>3. In \in SUBSET (0 .. n) /\ \A j \in 1 .. n : j - 1 \in In => j \in In
    BY <2>2
  <2> HIDE DEF In
  <2> QED BY <2>1, <2>3, Onwards
<1>3. n \in In
  <2> HIDE DEF In
  <2> QED BY <1>2
<1> QED BY <1>1, <1>3

\* n times the squares is never less than the square of the sum.
LEMMA SquaresSuffice ==
    ASSUME NEW n \in Nat, NEW f \in [1 .. n -> Int]
    PROVE  LET squares == Total([j \in 1 .. n |-> f[j] * f[j]], n) sum == Total(f, n) IN
           squares \in Int /\ sum \in Int /\ n * squares >= sum * sum
<1> DEFINE g == [j \in 1 .. n |-> f[j] * f[j]]
<1>1. PICK u \in [0 .. n -> Int] :
             /\ u[0] = 0 /\ \A j \in 1 .. n : u[j] = u[j - 1] + f[j]
             /\ Total(f, n) = u[n]
  BY TotalIs
<1>2. g \in [1 .. n -> Int]
  OBVIOUS
<1>3. PICK v \in [0 .. n -> Int] :
             /\ v[0] = 0 /\ \A j \in 1 .. n : v[j] = v[j - 1] + g[j]
             /\ Total(g, n) = v[n]
  <2> HIDE DEF g
  <2> QED BY <1>2, TotalIs
<1>4. ASSUME NEW j \in 1 .. n
      PROVE  /\ j - 1 \in 0 .. n /\ j \in 0 .. n /\ f[j] \in Int
             /\ u[j - 1] \in Int /\ v[j - 1] \in Int
             /\ u[j] = u[j - 1] + f[j] /\ v[j] = v[j - 1] + f[j] * f[j]
  BY <1>1, <1>3
\* The deviations from any y.
<1>5. ASSUME NEW y \in Int, NEW i \in 0 .. n
      PROVE  v[i] + i * (y * y) - 2 * (y * u[i]) >= 0
  <2> DEFINE In == {j \in 0 .. n : v[j] + j * (y * y) - 2 * (y * u[j]) >= 0}
  <2>1. 0 \in In
    <3>1. y * 0 = 0 /\ 0 * (y * y) = 0
      OBVIOUS
    <3> QED BY <3>1, <1>1, <1>3
  <2>2. ASSUME NEW j \in 1 .. n, j - 1 \in In PROVE j \in In
    <3> DEFINE a == u[j - 1]
               b == v[j - 1]
               c == f[j]
    <3>1. /\ a \in Int /\ b \in Int /\ c \in Int
          /\ u[j] = a + c /\ v[j] = b + c * c
      BY <1>4
    <3>2. b + (j - 1) * (y * y) - 2 * (y * a) >= 0
      BY <2>2
    <3> HIDE DEF a, b, c
    <3>3. (c - y) * (c - y) >= 0
      BY <3>1
    <3>4. /\ (c - y) * (c - y) = c * c + y * y - 2 * (y * c)
          /\ j * (y * y) = (j - 1) * (y * y) + y * y
          /\ y * (a + c) = y * a + y * c
      BY <3>1
    <3>5. (b + c * c) + j * (y * y) - 2 * (y * (a + c)) >= 0
      <4> DEFINE yy == y * y
                 cc == c * c
                 ya == y * a
                 yc == y * c
                 jyy == (j - 1) * (y * y)
      <4>1. /\ yy \in Int /\ cc \in Int /\ ya \in Int /\ yc \in Int /\ jyy \in Int
        BY <3>1
      <4>2. b + jyy - 2 * ya >= 0 /\ cc + yy - 2 * yc >= 0
        BY <3>2, <3>3, <3>4
      <4> HIDE DEF yy, cc, ya, yc, jyy
      <4>3. (b + cc) + (jyy + yy) - 2 * (ya + yc) >= 0
        BY <4>1, <4>2, <3>1
      <4> QED BY <4>3, <3>4 DEF yy, cc, ya, yc, jyy
    <3>6. v[j] + j * (y * y) - 2 * (y * u[j]) >= 0
      BY Zenon, <3>1, <3>5
    <3>7. j \in 0 .. n
      BY <1>4
    <3> QED BY Zenon, <3>6, <3>7
  <2>3. In \in SUBSET (0 .. n) /\ \A j \in 1 .. n : j - 1 \in In => j \in In
    BY <2>2
  <2>4. In = 0 .. n
    <3> HIDE DEF In
    <3> QED BY <2>1, <2>3, Onwards
  <2> QED BY <2>4
<1> DEFINE In == {j \in 0 .. n : j * v[j] - u[j] * u[j] >= 0}
<1>6. In = 0 .. n
  <2>1. 0 \in In
    BY <1>1, <1>3
  <2>2. ASSUME NEW j \in 1 .. n, j - 1 \in In PROVE j \in In
    <3> DEFINE a == u[j - 1]
               b == v[j - 1]
               c == f[j]
               m == j - 1
    <3>1. /\ a \in Int /\ b \in Int /\ c \in Int /\ m \in Int
          /\ u[j] = a + c /\ v[j] = b + c * c /\ j = m + 1
      BY <1>4
    <3>2. m * b - a * a >= 0
      BY <2>2
    <3>3. b + m * (c * c) - 2 * (c * a) >= 0
      BY <1>4, <1>5
    <3> HIDE DEF a, b, c, m
    <3>4. /\ (m + 1) * (b + c * c) = m * b + m * (c * c) + b + c * c
          /\ (a + c) * (a + c) = a * a + 2 * (c * a) + c * c
      BY <3>1
    <3>5. (m + 1) * (b + c * c) - (a + c) * (a + c) >= 0
      <4> DEFINE mb == m * b
                 mcc == m * (c * c)
                 cc == c * c
                 aa == a * a
                 ca == c * a
      <4>1. mb \in Int /\ mcc \in Int /\ cc \in Int /\ aa \in Int /\ ca \in Int
        BY <3>1
      <4>2. mb - aa >= 0 /\ b + mcc - 2 * ca >= 0
        BY <3>2, <3>3
      <4> HIDE DEF mb, mcc, cc, aa, ca
      <4>3. (mb + mcc + b + cc) - (aa + 2 * ca + cc) >= 0
        BY <4>1, <4>2, <3>1
      <4> QED BY <4>3, <3>4 DEF mb, mcc, cc, aa, ca
    <3> QED BY <3>1, <3>5
  <2>3. In \in SUBSET (0 .. n) /\ \A j \in 1 .. n : j - 1 \in In => j \in In
    BY <2>2
  <2> HIDE DEF In
  <2> QED BY <2>1, <2>3, Onwards
<1>7. n * v[n] - u[n] * u[n] >= 0
  <2>1. n \in In
    <3> HIDE DEF In
    <3> QED BY <1>6
  <2> QED BY <2>1
<1>8. n * v[n] \in Int /\ u[n] * u[n] \in Int /\ n * v[n] >= u[n] * u[n]
  <2>1. u[n] \in Int /\ v[n] \in Int
    OBVIOUS
  <2>2. n * v[n] \in Int /\ u[n] * u[n] \in Int
    BY <2>1
  <2> QED BY <1>7, <2>2
<1> QED BY <1>1, <1>3, <1>8

\* The sum and the variance of a window.
LEMMA AmountsAre ==
    ASSUME NEW w \in Seq(Points), NEW j \in 1 .. Len(w)
    PROVE  w[j].y \in 0 .. MaxAmount /\ w[j].y \in Int
<1>1. w[j] \in Points
  OBVIOUS
<1> QED BY <1>1 DEF Points

LEMMA AmountIs ==
    ASSUME NEW n \in Nat, NEW w \in Seq(Points), Len(w) = n, NEW lo \in Int, NEW hi \in Int,
           \A j \in 1 .. n : lo <= w[j].y /\ w[j].y <= hi
    PROVE  Amount(w) \in Int /\ n * lo <= Amount(w) /\ Amount(w) <= n * hi
<1> DEFINE f == [j \in 1 .. n |-> w[j].y]
<1>1. f \in [1 .. n -> Int] /\ \A j \in 1 .. n : f[j] = w[j].y
  BY AmountsAre
<1>2. Amount(w) = Total(f, n)
  BY DEF Amount, Values
<1> HIDE DEF f
<1>3. \A j \in 1 .. n : lo <= f[j] /\ f[j] <= hi
  BY <1>1
<1> QED BY <1>1, <1>2, <1>3, TotalWithin

LEMMA VarianceIs ==
    ASSUME NEW n \in Nat, NEW w \in Seq(Points), Len(w) = n
    PROVE  /\ Amount(w) \in Int /\ Variance(w) \in Int /\ Variance(w) >= 0
           /\ \A c \in Int : (\A j \in 1 .. n : w[j].y = c) =>
                Amount(w) = n * c /\ Variance(w) = 0
<1> DEFINE f == [j \in 1 .. n |-> w[j].y]
           g == [j \in 1 .. n |-> f[j] * f[j]]
           squares == Total(g, n)
           sum == Total(f, n)
<1>1. /\ f \in [1 .. n -> Int] /\ g \in [1 .. n -> Int]
      /\ \A j \in 1 .. n : f[j] = w[j].y /\ g[j] = f[j] * f[j]
  <2>1. f \in [1 .. n -> Int]
    BY AmountsAre
  <2>2. \A j \in 1 .. n : f[j] = w[j].y
    OBVIOUS
  <2> HIDE DEF f
  <2>3. g \in [1 .. n -> Int]
    BY <2>1
  <2> QED BY <2>1, <2>2, <2>3
<1>2. Amount(w) = sum
  BY DEF Amount, Values
<1>3. Squares(w) = squares
  <2>1. g = [j \in 1 .. n |-> w[j].y * w[j].y]
    BY Zenon, <1>1
  <2> QED BY <2>1 DEF Squares, Square
<1>4. squares \in Int /\ sum \in Int /\ n * squares >= sum * sum
  <2> HIDE DEF f
  <2> QED BY <1>1, SquaresSuffice
<1> HIDE DEF f, g, squares, sum
<1>5. Variance(w) = n * squares - sum * sum
  BY <1>2, <1>3 DEF Variance, Square
<1>6. n * squares \in Int /\ sum * sum \in Int
  BY <1>4
<1>7. ASSUME NEW c \in Int, \A j \in 1 .. n : w[j].y = c
      PROVE  sum = n * c /\ n * squares = sum * sum
  <2>1. n * c <= sum /\ sum <= n * c
    <3>1. \A j \in 1 .. n : c <= f[j] /\ f[j] <= c
      <4>1. \A j \in 1 .. n : f[j] = c
        BY Zenon, <1>1, <1>7
      <4>2. c <= c
        OBVIOUS
      <4> QED BY Zenon, <4>1, <4>2
    <3> QED BY <1>1, <3>1, TotalWithin DEF sum
  <2>2. n * (c * c) <= squares /\ squares <= n * (c * c)
    <3> DEFINE cc == c * c
    <3>1. cc \in Int /\ \A j \in 1 .. n : cc <= g[j] /\ g[j] <= cc
      <4>1. \A j \in 1 .. n : g[j] = cc
        BY <1>1, <1>7, Zenon
      <4>2. cc \in Int
        OBVIOUS
      <4> HIDE DEF cc
      <4> QED BY <4>1, <4>2
    <3> HIDE DEF cc
    <3>2. n * cc <= squares /\ squares <= n * cc
      BY <1>1, <3>1, TotalWithin DEF squares
    <3> QED BY <3>2 DEF cc
  <2>3. n * c \in Int /\ c * c \in Int /\ n * (c * c) \in Int
    OBVIOUS
  <2>4. sum = n * c /\ squares = n * (c * c)
    BY <2>1, <2>2, <2>3, <1>4
  <2>5. n * (n * (c * c)) = (n * c) * (n * c)
    OBVIOUS
  <2> QED BY <2>4, <2>5
<1>8. Variance(w) \in Int /\ Variance(w) >= 0
  BY <1>4, <1>5, <1>6
<1>9. ASSUME NEW c \in Int, \A j \in 1 .. n : w[j].y = c
      PROVE  Amount(w) = n * c /\ Variance(w) = 0
  <2>1. sum = n * c /\ n * squares = sum * sum
    BY <1>7, <1>9
  <2> QED BY <2>1, <1>2, <1>5, <1>6
<1> QED BY <1>2, <1>4, <1>8, <1>9

\* The k-th in order is an amount of the window, and none before it is above it.
LEMMA SortedIs ==
    ASSUME NEW n \in Nat, n > 0, NEW w \in Seq(Points), Len(w) = n
    PROVE  /\ \A k \in 1 .. n : \E j \in 1 .. n : Sorted(w)[k] = w[j].y
           /\ \A k, l \in 1 .. n : k <= l => Sorted(w)[k] <= Sorted(w)[l]
<1> DEFINE All == Range(Values(w))
           UpTo(v) == {j \in 1 .. n : w[j].y <= v}
           Above(k) == {v \in All : Cardinality(UpTo(v)) >= k}
<1>1. \A x : x \in All <=> \E j \in 1 .. n : x = w[j].y
  BY DEF Values, Range
<1>2. \A j \in 1 .. n : w[j].y \in 0 .. MaxAmount
  BY AmountsAre
<1>3. All \in SUBSET (0 .. MaxAmount) /\ All \in SUBSET Nat /\ All # {}
  <2>1. 1 \in 1 .. n
    OBVIOUS
  <2> HIDE DEF All
  <2>2. w[1].y \in All
    BY <2>1, <1>1
  <2> QED BY <1>1, <1>2, <2>2
<1>4. \A k \in 1 .. n : Sorted(w)[k] = Min(Above(k))
  BY DEF Sorted
<1>5. ASSUME NEW v PROVE Cardinality(UpTo(v)) \in Nat
  <2>1. IsFiniteSet(1 .. n)
    BY FS_Interval
  <2> QED BY <2>1, FS_Subset, FS_CardinalityType
<1>6. ASSUME NEW k \in 1 .. n
      PROVE  Min(Above(k)) \in Above(k) /\ \A v \in Above(k) : Min(Above(k)) <= v
  <2> DEFINE top == Max(All)
  <2>1. top \in All /\ \A x \in All : x <= top
    <3> HIDE DEF All
    <3> QED BY <1>3, Greatest
  <2> HIDE DEF top, All
  <2>2. UpTo(top) = 1 .. n
    BY <2>1, <1>1
  <2>3. Cardinality(1 .. n) = n
    BY FS_Interval
  <2> HIDE DEF UpTo
  <2>4. top \in Above(k)
    BY <2>1, <2>2, <2>3
  <2>5. Above(k) \in SUBSET Nat
    BY <1>3
  <2> HIDE DEF Above
  <2> QED BY <2>4, <2>5, Least
<1> HIDE DEF All, UpTo
<1>7. ASSUME NEW k \in 1 .. n PROVE \E j \in 1 .. n : Sorted(w)[k] = w[j].y
  BY <1>1, <1>4, <1>6
<1>8. ASSUME NEW k \in 1 .. n, NEW l \in 1 .. n, k <= l
      PROVE  Sorted(w)[k] <= Sorted(w)[l]
  <2>1. \A v \in Above(l) : v \in Above(k)
    BY <1>5, <1>8
  <2> HIDE DEF Above
  <2>2. Min(Above(l)) \in Above(k)
    BY <2>1, <1>6
  <2> QED BY <2>2, <1>4, <1>6
<1> QED BY <1>7, <1>8

\* Between two of a list in order, in quarters: a later place is no lower.
At(s, pos) ==
    LET i == pos \div 4 + 1
    IN  4 * s[i] + (IF pos % 4 = 0 THEN 0 ELSE (pos % 4) * (s[i + 1] - s[i]))

Ascends(n, s) ==
    /\ \A k \in 1 .. n : s[k] \in Int
    /\ \A k, l \in 1 .. n : k <= l => s[k] <= s[l]
LiesBetween(n, s, pos) ==
    LET i == pos \div 4 + 1 r == pos % 4 IN
    /\ i \in 1 .. n /\ r \in 0 .. 3 /\ pos = 4 * (i - 1) + r
    /\ At(s, pos) \in Int /\ 4 * s[i] <= At(s, pos)
    /\ r = 0 => At(s, pos) = 4 * s[i]
    /\ r # 0 => /\ i + 1 \in 1 .. n /\ At(s, pos) <= 4 * s[i + 1]
                /\ At(s, pos) = 4 * s[i] + r * (s[i + 1] - s[i])

LEMMA AtIs ==
    ASSUME NEW n \in Nat, NEW s, Ascends(n, s), NEW pos \in 0 .. 4 * (n - 1)
    PROVE  LiesBetween(n, s, pos)
<1> USE DEF Ascends, LiesBetween
<1> DEFINE i == pos \div 4 + 1
           r == pos % 4
<1>1. /\ i \in Int /\ r \in 0 .. 3 /\ pos = 4 * (i - 1) + r
  OBVIOUS
<1>2. At(s, pos) = 4 * s[i] + (IF r = 0 THEN 0 ELSE r * (s[i + 1] - s[i]))
  BY DEF At
<1> HIDE DEF i, r
<1>3. i \in 1 .. n /\ (r # 0 => i + 1 \in 1 .. n)
  BY <1>1
<1>4. s[i] \in Int
  BY <1>3
<1>5. CASE r = 0
  BY <1>1, <1>2, <1>3, <1>4, <1>5 DEF i, r
<1>6. CASE r # 0
  <2>1. s[i + 1] \in Int /\ s[i] <= s[i + 1]
    BY <1>3, <1>6
  <2> DEFINE x == s[i]
             z == s[i + 1]
             at == 4 * x + r * (z - x)
  <2>2. at \in Int /\ 4 * x <= at /\ at <= 4 * z
    <3>1. r = 1 \/ r = 2 \/ r = 3
      BY <1>1, <1>6
    <3> HIDE DEF x, z
    <3>2. x \in Int /\ z \in Int /\ x <= z
      BY <2>1, <1>4 DEF x, z
    <3> QED BY <3>1, <3>2
  <2>3. At(s, pos) = at
    BY <1>2, <1>6
  <2> HIDE DEF at
  <2>4. At(s, pos) \in Int /\ 4 * s[i] <= At(s, pos) /\ At(s, pos) <= 4 * s[i + 1]
    BY <2>2, <2>3
  <2> QED BY <1>1, <1>3, <1>6, <2>3, <2>4 DEF i, r, at
<1> QED BY <1>5, <1>6

LEMMA AtGrows ==
    ASSUME NEW n \in Nat, NEW s, Ascends(n, s),
           NEW a \in 0 .. 4 * (n - 1), NEW b \in 0 .. 4 * (n - 1), a <= b
    PROVE  At(s, a) <= At(s, b)
<1> DEFINE i == a \div 4 + 1
           j == b \div 4 + 1
           r == a % 4
           p == b % 4
<1>0. LiesBetween(n, s, a) /\ LiesBetween(n, s, b)
  BY AtIs
<1> USE DEF Ascends
<1>1. /\ i \in 1 .. n /\ r \in 0 .. 3 /\ a = 4 * (i - 1) + r
      /\ At(s, a) \in Int /\ 4 * s[i] <= At(s, a)
      /\ r = 0 => At(s, a) = 4 * s[i]
      /\ r # 0 => /\ i + 1 \in 1 .. n /\ At(s, a) <= 4 * s[i + 1]
                  /\ At(s, a) = 4 * s[i] + r * (s[i + 1] - s[i])
  BY ONLY <1>0 DEF LiesBetween
<1>2. /\ j \in 1 .. n /\ p \in 0 .. 3 /\ b = 4 * (j - 1) + p
      /\ At(s, b) \in Int /\ 4 * s[j] <= At(s, b)
      /\ p = 0 => At(s, b) = 4 * s[j]
      /\ p # 0 => /\ j + 1 \in 1 .. n /\ At(s, b) <= 4 * s[j + 1]
                  /\ At(s, b) = 4 * s[j] + p * (s[j + 1] - s[j])
  BY ONLY <1>0 DEF LiesBetween
<1> HIDE DEF i, j, r, p
<1>3. s[i] \in Int /\ s[j] \in Int
  BY <1>1, <1>2
<1>4. CASE i < j
  <2>1. s[i] <= s[j]
    BY <1>1, <1>2, <1>4
  <2>2. CASE r = 0
    BY <1>1, <1>2, <1>3, <2>1, <2>2
  <2>3. CASE r # 0
    <3>1. i + 1 \in 1 .. n /\ i + 1 <= j
      BY <1>1, <1>2, <1>4, <2>3
    <3>2. s[i + 1] <= s[j] /\ s[i + 1] \in Int
      BY <3>1, <1>2
    <3> QED BY <1>1, <1>2, <1>3, <2>3, <3>2
  <2> QED BY <2>2, <2>3
<1>5. CASE ~(i < j)
  <2>1. i = j /\ r <= p
    BY <1>1, <1>2, <1>5
  <2>2. CASE r = 0
    BY <1>1, <1>2, <1>3, <2>1, <2>2
  <2>3. CASE r # 0
    <3> DEFINE d == s[i + 1] - s[i]
    <3>1. p # 0 /\ i + 1 \in 1 .. n /\ r \in Nat /\ p \in Nat
      BY <1>1, <1>2, <2>1, <2>3
    <3>2. d \in Nat
      <4>1. s[i] <= s[i + 1] /\ s[i + 1] \in Int
        BY <3>1, <1>1
      <4> QED BY <4>1, <1>3
    <3>3. At(s, a) = 4 * s[i] + r * d /\ At(s, b) = 4 * s[i] + p * d
      BY <1>1, <1>2, <2>1, <2>3, <3>1
    <3> HIDE DEF d
    <3>4. d * r <= d * p /\ d * r = r * d /\ d * p = p * d /\ d * r \in Int /\ d * p \in Int
      BY <3>1, <3>2, <2>1
    <3> QED BY <3>3, <3>4, <1>3
  <2> QED BY <2>2, <2>3
<1> QED BY <1>4, <1>5

LEMMA QuantilesAre ==
    ASSUME NEW n \in Nat, n > 1, NEW w \in Seq(Points), Len(w) = n,
           NEW lo \in Int, NEW hi \in Int, \A j \in 1 .. n : lo <= w[j].y /\ w[j].y <= hi
    PROVE  /\ \A m \in 1 .. 3 : /\ Quantile(w, m) \in Int
                                /\ 4 * lo <= Quantile(w, m) /\ Quantile(w, m) <= 4 * hi
           /\ Quantile(w, 1) <= Quantile(w, 2) /\ Quantile(w, 2) <= Quantile(w, 3)
<1> DEFINE s == Sorted(w)
<1>1. /\ \A k \in 1 .. n : s[k] \in Int /\ lo <= s[k] /\ s[k] <= hi
      /\ \A k, l \in 1 .. n : k <= l => s[k] <= s[l]
  <2>1. /\ \A k \in 1 .. n : \E j \in 1 .. n : s[k] = w[j].y
        /\ \A k, l \in 1 .. n : k <= l => s[k] <= s[l]
    <3>1. n > 0
      OBVIOUS
    <3> QED BY <3>1, SortedIs, Zenon
  <2>2. \A j \in 1 .. n : w[j].y \in Int
    BY AmountsAre
  <2> HIDE DEF s
  <2> QED BY <2>1, <2>2
<1>2. \A m \in 1 .. 3 : Quantile(w, m) = At(s, m * (n - 1))
  BY DEF Quantile, At
<1> HIDE DEF s
<1>0. Ascends(n, s)
  BY ONLY <1>1 DEF Ascends
<1>3. ASSUME NEW m \in 1 .. 3 PROVE m * (n - 1) \in 0 .. 4 * (n - 1)
  <2>1. m = 1 \/ m = 2 \/ m = 3
    OBVIOUS
  <2> QED BY ONLY <2>1, n \in Nat, n > 1
<1>4. ASSUME NEW pos \in 0 .. 4 * (n - 1)
      PROVE  At(s, pos) \in Int /\ 4 * lo <= At(s, pos) /\ At(s, pos) <= 4 * hi
  <2> DEFINE i == pos \div 4 + 1
             r == pos % 4
  <2>0. LiesBetween(n, s, pos)
    BY <1>0, AtIs
  <2>1. /\ i \in 1 .. n /\ At(s, pos) \in Int /\ 4 * s[i] <= At(s, pos)
        /\ r = 0 => At(s, pos) = 4 * s[i]
        /\ r # 0 => i + 1 \in 1 .. n /\ At(s, pos) <= 4 * s[i + 1]
    BY ONLY <2>0 DEF LiesBetween
  <2> HIDE DEF i, r
  <2>2. s[i] \in Int /\ lo <= s[i] /\ s[i] <= hi
    BY <2>1, <1>1
  <2> DEFINE x == s[i]
             y == At(s, pos)
  <2>3. \E z \in Int : y <= 4 * z /\ z <= hi
    <3>1. CASE r = 0
      BY <2>1, <2>2, <3>1
    <3>2. CASE r # 0
      BY <2>1, <1>1, <3>2
    <3> QED BY <3>1, <3>2
  <2>4. x \in Int /\ y \in Int /\ 4 * x <= y /\ lo <= x
    BY <2>1, <2>2
  <2> HIDE DEF x, y
  <2>5. 4 * lo <= y /\ y <= 4 * hi
    BY ONLY <2>3, <2>4, lo \in Int, hi \in Int
  <2> QED BY <2>4, <2>5 DEF y
<1>5. At(s, 1 * (n - 1)) <= At(s, 2 * (n - 1)) /\ At(s, 2 * (n - 1)) <= At(s, 3 * (n - 1))
  <2>1. /\ 1 * (n - 1) \in 0 .. 4 * (n - 1) /\ 2 * (n - 1) \in 0 .. 4 * (n - 1)
        /\ 3 * (n - 1) \in 0 .. 4 * (n - 1)
        /\ 1 * (n - 1) <= 2 * (n - 1) /\ 2 * (n - 1) <= 3 * (n - 1)
    OBVIOUS
  <2> QED BY <1>0, <2>1, AtGrows
<1>6. 1 \in 1 .. 3 /\ 2 \in 1 .. 3 /\ 3 \in 1 .. 3
  OBVIOUS
<1> QED BY <1>2, <1>3, <1>4, <1>5, <1>6

\* What zscore_detect flags: never the mean itself, and after a window that is
\* all alike whatever is not.
LEMMA ZFlagsAre ==
    ASSUME NEW n \in Nat, n > 1, NEW w \in Seq(Points), Len(w) = n, NEW y \in Int,
           NEW t, t[1] \in Nat \ {0}, t[2] \in Nat \ {0}
    PROVE  /\ ZFlags(y, w, t) => n * y # Amount(w)
           /\ \A c \in Int : (\A j \in 1 .. n : w[j].y = c) => (ZFlags(y, w, t) <=> y # c)
<1> DEFINE off == n * y - Amount(w)
           a == t[1] * t[1]
<1>1. /\ Amount(w) \in Int /\ Variance(w) \in Int /\ Variance(w) >= 0
      /\ \A c \in Int : (\A j \in 1 .. n : w[j].y = c) => Amount(w) = n * c /\ Variance(w) = 0
  BY VarianceIs
<1>2. n * y \in Int /\ off \in Int /\ (off = 0 <=> n * y = Amount(w))
  BY <1>1
<1>3. ZFlags(y, w, t) <=>
        IF Variance(w) = 0 THEN off # 0 ELSE (t[2] * off) * (t[2] * off) >= a * Variance(w)
  BY DEF ZFlags, Square
<1>4. a \in Nat /\ a > 0
  OBVIOUS
<1> HIDE DEF off, a
<1>5. ASSUME off = 0, Variance(w) # 0
      PROVE  ~((t[2] * off) * (t[2] * off) >= a * Variance(w))
  <2>1. (t[2] * off) * (t[2] * off) = 0
    BY <1>5
  <2>2. a * Variance(w) \in Nat /\ a * Variance(w) > 0
    <3> DEFINE x == Variance(w)
    <3>1. x \in Nat /\ x > 0
      BY <1>1, <1>5
    <3> HIDE DEF x
    <3>2. a * x \in Nat /\ a * x > 0
      BY <1>4, <3>1
    <3> QED BY <3>2 DEF x
  <2>3. ~(0 >= a * Variance(w))
    <3> DEFINE x == a * Variance(w)
    <3> HIDE DEF x
    <3>1. x \in Nat /\ x > 0
      BY <2>2 DEF x
    <3>2. ~(0 >= x)
      BY <3>1
    <3> QED BY <3>2 DEF x
  <2> QED BY <2>1, <2>3
<1>6. ZFlags(y, w, t) => n * y # Amount(w)
  BY <1>2, <1>3, <1>5
<1>7. ASSUME NEW c \in Int, \A j \in 1 .. n : w[j].y = c
      PROVE  ZFlags(y, w, t) <=> y # c
  <2>1. Amount(w) = n * c /\ Variance(w) = 0
    BY <1>1, <1>7
  <2>2. n * y = n * c <=> y = c
    OBVIOUS
  <2> QED BY <1>2, <1>3, <2>1, <2>2
<1> QED BY <1>6, <1>7

LEMMA ZFlagsSteady ==
    ASSUME NEW n \in Nat, n > 1, NEW w \in Seq(Points), Len(w) = n, NEW y \in Int,
           NEW t, t[1] \in Nat \ {0}, t[2] \in Nat \ {0},
           NEW c \in Int, \A j \in 1 .. n : w[j].y = c
    PROVE  ZFlags(y, w, t) <=> y # c
<1>1. \A d \in Int : (\A j \in 1 .. n : w[j].y = d) => (ZFlags(y, w, t) <=> y # d)
  BY ZFlagsAre
<1> QED BY ONLY <1>1, c \in Int, \A j \in 1 .. n : w[j].y = c

\* The same of iqr_detect and the median.
LEMMA IqrFlagsAre ==
    ASSUME NEW n \in Nat, n > 1, NEW w \in Seq(Points), Len(w) = n, NEW y \in Int,
           NEW t, t[1] \in Nat \ {0}, t[2] \in Nat \ {0}
    PROVE  /\ IqrFlags(y, w, t) => 4 * y # Quantile(w, 2)
           /\ \A c \in Int : (\A j \in 1 .. n : w[j].y = c) => (IqrFlags(y, w, t) <=> y # c)
<1> DEFINE q1 == Quantile(w, 1)
           q2 == Quantile(w, 2)
           q3 == Quantile(w, 3)
           iqr == q3 - q1
           a == t[1]
           b == t[2]
<1>1. /\ q1 \in Int /\ q2 \in Int /\ q3 \in Int /\ q1 <= q2 /\ q2 <= q3
  <2>1. \A j \in 1 .. n : 0 <= w[j].y /\ w[j].y <= MaxAmount
    BY AmountsAre
  <2>2. 1 \in 1 .. 3 /\ 2 \in 1 .. 3 /\ 3 \in 1 .. 3 /\ 0 \in Int /\ MaxAmount \in Int
    OBVIOUS
  <2> QED BY <2>1, <2>2, QuantilesAre
<1>2. IqrFlags(y, w, t) <=> (b * 4 * y < b * q1 - a * iqr \/ b * 4 * y > b * q3 + a * iqr)
  BY DEF IqrFlags
<1>3. a \in Nat /\ b \in Nat /\ a > 0 /\ b > 0
  OBVIOUS
<1> HIDE DEF q1, q2, q3, a, b
<1>4. /\ iqr \in Nat /\ a * iqr \in Nat
      /\ b * q1 \in Int /\ b * q2 \in Int /\ b * q3 \in Int
      /\ b * q1 <= b * q2 /\ b * q2 <= b * q3
  <2>1. iqr \in Nat
    BY <1>1
  <2> HIDE DEF iqr
  <2> QED BY <1>1, <1>3, <2>1, Times
<1>5. b * 4 * y = b * (4 * y) /\ b * 4 * y \in Int
  BY <1>3
<1> HIDE DEF iqr
<1>6. ASSUME 4 * y = q2
      PROVE  ~(b * 4 * y < b * q1 - a * iqr) /\ ~(b * 4 * y > b * q3 + a * iqr)
  BY <1>4, <1>5, <1>6
<1>7. ASSUME NEW c \in Int, \A j \in 1 .. n : w[j].y = c
      PROVE  IqrFlags(y, w, t) <=> y # c
  <2>1. q1 = 4 * c /\ q3 = 4 * c
    <3>1. \A j \in 1 .. n : c <= w[j].y /\ w[j].y <= c
      BY <1>7
    <3>2. 1 \in 1 .. 3 /\ 3 \in 1 .. 3
      OBVIOUS
    <3>3. 4 * c <= q1 /\ q1 <= 4 * c /\ 4 * c <= q3 /\ q3 <= 4 * c
      BY <3>1, <3>2, QuantilesAre DEF q1, q3
    <3> QED BY <3>3, <1>1
  <2>2. a * iqr = 0
    BY <2>1, <1>3 DEF iqr
  <2>3. IqrFlags(y, w, t) <=> (b * (4 * y) < b * (4 * c) \/ b * (4 * y) > b * (4 * c))
    BY <1>2, <1>4, <1>5, <2>1, <2>2
  <2>4. (b * (4 * y) < b * (4 * c) \/ b * (4 * y) > b * (4 * c)) <=> y # c
    BY <1>3
  <2> QED BY <2>3, <2>4
<1> QED BY <1>2, <1>6, <1>7 DEF q2

LEMMA IqrFlagsSteady ==
    ASSUME NEW n \in Nat, n > 1, NEW w \in Seq(Points), Len(w) = n, NEW y \in Int,
           NEW t, t[1] \in Nat \ {0}, t[2] \in Nat \ {0},
           NEW c \in Int, \A j \in 1 .. n : w[j].y = c
    PROVE  IqrFlags(y, w, t) <=> y # c
BY IqrFlagsAre

\* Whatever the amounts, the windows and the thresholds: a flag is a deviation,
\* and after days that were all alike every deviation is flagged.
THEOREM FlagsDeviate == SeriesSpec => []FlagsAreDeviations
<1>1. SeriesTyped => FlagsAreDeviations
  <2> SUFFICES ASSUME SeriesTyped, NEW q \in Asked, NEW p \in Judged(kpi, today, q)
               PROVE  LET past == {Stored(e) : e \in DaysBefore(p.ds, q.window_days)} IN
                      /\ p.is_anomaly => p.expected[2] * p.value # p.expected[1]
                      /\ Steady(p.ds, q.window_days) => (p.is_anomaly <=> p.value # Stored(p.ds - 1))
                      /\ p.expected[2] * Min(past) <= p.expected[1]
                      /\ p.expected[1] <= p.expected[2] * Max(past)
    BY DEF FlagsAreDeviations
  <2> DEFINE n == q.window_days
             d == p.ds
             t == q.threshold
             y == Stored(d)
             past == {Stored(e) : e \in DaysBefore(d, n)}
             lo == Min(past)
             hi == Max(past)
             c == Stored(d - 1)
  <2>1. kpi \in Kpis /\ today \in Nat
    BY DEF SeriesTyped
  <2>2. PICK w : IsWindow(w, kpi, d, n) /\ p = Assessed(DayOf(kpi, d), w, q)
    BY <2>1, JudgedIs
  <2>3. /\ n \in Nat /\ n > 1 /\ t[1] \in Nat \ {0} /\ t[2] \in Nat \ {0}
        /\ q.method \in {"zscore", "iqr"}
    BY AskedAssumption
  <2>4. w \in Seq(Points) /\ Len(w) = n /\ w # <<>> /\ d \in 1 .. MaxDay /\ d - n \in 1 .. MaxDay
    BY <2>2, <2>3 DEF IsWindow
  <2>5. \A e \in 1 .. MaxDay : Stored(e) \in 0 .. MaxAmount
    BY <2>1 DEF Stored, Kpis
  <2>6. \A e : DayOf(kpi, e).y = Stored(e)
    BY DEF DayOf, Stored
  <2> HIDE DEF n, d, t
  <2>7. \A e \in DaysBefore(d, n) : e \in 1 .. MaxDay
    BY <2>3, <2>4 DEF DaysBefore
  <2>8. ASSUME NEW j \in 1 .. n
        PROVE  d - n + j - 1 \in DaysBefore(d, n) /\ w[j].y = Stored(d - n + j - 1)
    <3>1. d - n + j - 1 \in DaysBefore(d, n)
      BY <2>3, <2>4 DEF DaysBefore
    <3>2. w[j] = DayOf(kpi, d - n + j - 1)
      BY <2>2 DEF IsWindow
    <3> QED BY <3>1, <3>2, <2>6
  <2>9. past \in SUBSET (0 .. MaxAmount) /\ past \in SUBSET Nat /\ past # {}
    <3>1. d - 1 \in DaysBefore(d, n)
      BY <2>3, <2>4 DEF DaysBefore
    <3> QED BY <3>1, <2>5, <2>7
  <2>10. lo \in Int /\ hi \in Int /\ \A x \in past : lo <= x /\ x <= hi
    <3> HIDE DEF past
    <3>1. lo \in past /\ \A x \in past : lo <= x
      BY <2>9, Least
    <3>2. hi \in past /\ \A x \in past : x <= hi
      BY <2>9, Greatest
    <3> HIDE DEF lo, hi
    <3> QED BY <3>1, <3>2, <2>9
  <2>11. \A j \in 1 .. n : lo <= w[j].y /\ w[j].y <= hi
    <3> HIDE DEF lo, hi
    <3> QED BY <2>8, <2>10
  <2>12. y \in Int /\ c \in Int
    <3>1. d - 1 \in 1 .. MaxDay
      BY <2>3, <2>4
    <3> QED BY <3>1, <2>4, <2>5
  <2>13. Steady(d, n) => \A j \in 1 .. n : w[j].y = c
    BY <2>8 DEF Steady
  <2>14. p.value = y /\ DayOf(kpi, d).y = y
    BY <2>2, <2>6 DEF Assessed
  <2> HIDE DEF y, c, lo, hi, past
  <2>15. CASE q.method = "zscore"
    <3>1. p.expected = <<Amount(w), n>>
      BY <2>2, <2>4, <2>15 DEF Assessed
    <3>2. p.is_anomaly <=> ZFlags(y, w, t)
      BY <2>2, <2>4, <2>14, <2>15 DEF Assessed, t
    <3>3. Amount(w) \in Int /\ n * lo <= Amount(w) /\ Amount(w) <= n * hi
      BY <2>3, <2>4, <2>10, <2>11, AmountIs
    <3>4. /\ ZFlags(y, w, t) => n * y # Amount(w)
          /\ \A x \in Int : (\A j \in 1 .. n : w[j].y = x) => (ZFlags(y, w, t) <=> y # x)
      <4>1. t[1] \in Nat \ {0} /\ t[2] \in Nat \ {0} /\ n \in Nat /\ n > 1
        BY <2>3
      <4>2. w \in Seq(Points) /\ Len(w) = n /\ y \in Int
        BY <2>4, <2>12
      <4>3. ZFlags(y, w, t) => n * y # Amount(w)
        BY <4>1, <4>2, ZFlagsAre
      <4>4. ASSUME NEW x \in Int, \A j \in 1 .. n : w[j].y = x
            PROVE  ZFlags(y, w, t) <=> y # x
        <5>1. x \in Int /\ \A j \in 1 .. n : w[j].y = x
          BY <4>4
        <5>2. ZFlags(y, w, t) => y # x
          BY <4>1, <4>2, <5>1, ZFlagsSteady
        <5>3. y # x => ZFlags(y, w, t)
          BY <4>1, <4>2, <5>1, ZFlagsSteady
        <5> QED BY <5>2, <5>3
      <4> QED BY <4>3, <4>4
    <3>5. p.expected[1] = Amount(w) /\ p.expected[2] = n
      BY <3>1
    <3>6. Steady(d, n) => (p.is_anomaly <=> p.value # c)
      BY <3>2, <3>4, <2>12, <2>13, <2>14
    <3> QED BY <3>2, <3>3, <3>4, <3>5, <3>6, <2>14 DEF n, d, lo, hi, past, c
  <2>16. CASE q.method = "iqr"
    <3>1. p.expected = <<Quantile(w, 2), 4>>
      BY <2>2, <2>4, <2>16 DEF Assessed
    <3>2. p.is_anomaly <=> IqrFlags(y, w, t)
      BY <2>2, <2>4, <2>14, <2>16 DEF Assessed, t
    <3>3. 4 * lo <= Quantile(w, 2) /\ Quantile(w, 2) <= 4 * hi
      <4>1. 2 \in 1 .. 3
        OBVIOUS
      <4> QED BY <4>1, <2>3, <2>4, <2>10, <2>11, QuantilesAre
    <3>4. /\ IqrFlags(y, w, t) => 4 * y # Quantile(w, 2)
          /\ \A x \in Int : (\A j \in 1 .. n : w[j].y = x) => (IqrFlags(y, w, t) <=> y # x)
      <4>1. t[1] \in Nat \ {0} /\ t[2] \in Nat \ {0} /\ n \in Nat /\ n > 1
        BY <2>3
      <4>2. w \in Seq(Points) /\ Len(w) = n /\ y \in Int
        BY <2>4, <2>12
      <4>3. IqrFlags(y, w, t) => 4 * y # Quantile(w, 2)
        BY <4>1, <4>2, IqrFlagsAre
      <4>4. ASSUME NEW x \in Int, \A j \in 1 .. n : w[j].y = x
            PROVE  IqrFlags(y, w, t) <=> y # x
        <5>1. x \in Int /\ \A j \in 1 .. n : w[j].y = x
          BY <4>4
        <5>2. IqrFlags(y, w, t) => y # x
          BY <4>1, <4>2, <5>1, IqrFlagsSteady
        <5>3. y # x => IqrFlags(y, w, t)
          BY <4>1, <4>2, <5>1, IqrFlagsSteady
        <5> QED BY <5>2, <5>3
      <4> QED BY <4>3, <4>4
    <3>5. p.expected[1] = Quantile(w, 2) /\ p.expected[2] = 4
      BY <3>1
    <3>6. Steady(d, n) => (p.is_anomaly <=> p.value # c)
      BY <3>2, <3>4, <2>12, <2>13, <2>14
    <3> QED BY <3>2, <3>3, <3>4, <3>5, <3>6, <2>14 DEF n, d, lo, hi, past, c
  <2> QED BY <2>3, <2>15, <2>16
<1> QED BY <1>1, TypedSeries, PTL

-----------------------------------------------------------------------------
(* The answers.                                                            *)

USE ForecastAssumption

\* What was stored stays, and grows.
Past(df, k, t) ==
    /\ df \in Seq(Points)
    /\ \A i \in 1 .. Len(df) :
         /\ df[i].ds < t /\ df[i].y <= DayOf(k, df[i].ds).y
         /\ i > 1 => df[i].ds = df[i - 1].ds + 1

LEMMA PastGrows ==
    ASSUME kpi \in Kpis, today \in Nat, SeriesNext, NEW past, Past(past, kpi, today)
    PROVE  Past(past, kpi', today')
<1>1. /\ today' \in Nat /\ today' >= today /\ kpi' \in Kpis
      /\ \A d \in 1 .. MaxDay : DayOf(kpi, d).y <= DayOf(kpi', d).y
  <2>1. CASE NextDay
    BY <2>1 DEF NextDay, DayOf, Kpis, None
  <2>2. ASSUME NEW e \in 1 .. today, NEW amount \in 0 .. MaxAmount, Record(e, amount)
        PROVE  /\ today' = today /\ kpi' \in Kpis
               /\ \A d \in 1 .. MaxDay : DayOf(kpi, d).y <= DayOf(kpi', d).y
    <3> DEFINE sum == IF kpi[e] = None THEN amount ELSE kpi[e] + amount
    <3>1. today' = today /\ kpi' = [kpi EXCEPT ![e] = sum] /\ sum <= MaxAmount
      BY <2>2 DEF Record
    <3>2. e \in 1 .. MaxDay => sum \in 0 .. MaxAmount /\ (kpi[e] # None => kpi[e] <= sum)
      BY <3>1 DEF Kpis, None
    <3> HIDE DEF sum
    <3>3. kpi' \in Kpis
      BY <3>1, <3>2 DEF Kpis
    <3>4. ASSUME NEW d \in 1 .. MaxDay PROVE DayOf(kpi, d).y <= DayOf(kpi', d).y
      <4>1. CASE d = e
        <5>1. kpi'[d] = sum /\ sum \in 0 .. MaxAmount
          BY <4>1, <3>1, <3>2 DEF Kpis
        <5>2. kpi[d] \in {None} \cup 0 .. MaxAmount
          BY DEF Kpis
        <5> QED BY <4>1, <5>1, <5>2, <3>2 DEF DayOf, None
      <4>2. CASE d # e
        <5>1. kpi'[d] = kpi[d] /\ kpi[d] \in {None} \cup 0 .. MaxAmount
          BY <4>2, <3>1 DEF Kpis
        <5> QED BY <5>1 DEF DayOf, None
      <4> QED BY <4>1, <4>2
    <3> QED BY <3>1, <3>3, <3>4
  <2> QED BY <2>1, <2>2 DEF SeriesNext
<1>2. ASSUME NEW df, Past(df, kpi, today) PROVE Past(df, kpi', today')
  <2>1. \A i \in 1 .. Len(df) : df[i].ds \in 1 .. MaxDay /\ df[i].y \in Nat
    <3>1. \A i \in 1 .. Len(df) : df[i] \in Points
      BY <1>2 DEF Past
    <3> QED BY <3>1 DEF Points
  <2>2. \A d \in 1 .. MaxDay : DayOf(kpi, d).y \in Int /\ DayOf(kpi', d).y \in Int
    BY <1>1 DEF DayOf, Kpis, None
  <2>3. ASSUME NEW i \in 1 .. Len(df)
        PROVE  df[i].ds < today' /\ df[i].y <= DayOf(kpi', df[i].ds).y
    <3> DEFINE d == df[i].ds
               was == DayOf(kpi, d).y
               is == DayOf(kpi', d).y
    <3>1. d \in 1 .. MaxDay /\ d < today /\ df[i].y \in Nat /\ df[i].y <= was
      BY <1>2, <2>1 DEF Past
    <3>2. was <= is /\ was \in Int /\ is \in Int
      BY <3>1, <1>1, <2>2
    <3> HIDE DEF was, is
    <3>3. df[i].y <= is
      BY <3>1, <3>2
    <3> QED BY <3>1, <3>3, <1>1 DEF is
  <2> QED BY <1>2, <2>3 DEF Past
<1> QED BY <1>2

LEMMA FittedIsPast ==
    ASSUME kpi \in Kpis, today \in Nat, SeriesIsWhole
    PROVE  Past(Fetched(kpi, today), kpi, today)
<1> DEFINE df == Fetched(kpi, today)
<1>0. df \in Seq(Points)
  BY SeriesOf
<1>1. ASSUME NEW i \in 1 .. Len(df)
      PROVE  /\ df[i].ds < today /\ df[i].y <= DayOf(kpi, df[i].ds).y
             /\ i > 1 => df[i].ds = df[i - 1].ds + 1
  <2>1. /\ df[i].ds < today /\ (i > 1 => df[i].ds = df[i - 1].ds + 1)
        /\ df[i].y = DayOf(kpi, df[i].ds).y
    BY DEF SeriesIsWhole, DayOf
  <2>2. df[i] \in Points
    BY <1>0
  <2>3. df[i].y \in Int
    BY <2>2 DEF Points
  <2> QED BY <2>1, <2>3
<1> QED BY <1>0, <1>1 DEF Past

LEMMA ContinuesThen ==
    ASSUME NEW k, NEW t, NEW df, Past(df, k, t), df # <<>>,
           NEW kind \in ModelKinds, NEW raw \in [1 .. Horizon -> Predicted]
    PROVE  Continues(kind, PostForecast(kind, df, raw), k, t)
<1> DEFINE past == HistoryPoints(df)
           next == ForecastPoints(kind, df, raw)
           rows == past \o next
           n == Len(df)
<1>1. n \in Nat \ {0} /\ \A i \in 1 .. n : df[i].ds \in Nat /\ df[i].y \in Nat
  <2>1. df \in Seq(Points) /\ \A i \in 1 .. n : df[i] \in Points
    BY DEF Past
  <2>2. n \in Nat \ {0}
    BY <2>1
  <2> QED BY <2>1, <2>2 DEF Points
<1>2. Len(past) = n /\ Len(next) = Horizon
  BY <1>1 DEF HistoryPoints, ForecastPoints
<1>3. \A i \in 1 .. n : /\ past[i].ds = df[i].ds /\ past[i].yhat = df[i].y
                        /\ past[i].lower = df[i].y /\ past[i].upper = df[i].y
  BY <1>1 DEF HistoryPoints
<1>4. ASSUME NEW j \in 1 .. Horizon
      PROVE  /\ next[j].ds = df[n].ds + j
             /\ 0 <= next[j].lower /\ next[j].lower <= next[j].yhat
             /\ next[j].yhat <= next[j].upper
                  \/ (kind = "prophet" /\ next[j].upper < 0 /\ next[j].yhat = 0)
  <2>1. next[j].ds = df[n].ds + j
    BY DEF ForecastPoints, DayAfter
  <2>2. /\ next[j].lower = Clip(raw[j].lower) /\ next[j].yhat = Clip(raw[j].yhat)
        /\ next[j].upper = IF kind = "arima" THEN Clip(raw[j].upper) ELSE raw[j].upper
    BY DEF ForecastPoints, Band
  <2>3. /\ raw[j].lower \in Int /\ raw[j].yhat \in Int /\ raw[j].upper \in Int
        /\ raw[j].lower <= raw[j].yhat /\ raw[j].yhat <= raw[j].upper
    OBVIOUS
  <2> HIDE DEF next
  <2> QED BY <2>1, <2>2, <2>3 DEF Clip, ModelKinds
<1>6. /\ Len(rows) = n + Horizon
      /\ \A i \in 1 .. n : rows[i] = past[i]
      /\ \A i \in n + 1 .. n + Horizon : rows[i] = next[i - n]
  <2>1. past = [i \in 1 .. n |-> past[i]] /\ next = [i \in 1 .. Horizon |-> next[i]]
    BY DEF HistoryPoints, ForecastPoints
  <2>2. past \in Seq({past[i] : i \in 1 .. n} \cup {next[i] : i \in 1 .. Horizon})
        /\ next \in Seq({past[i] : i \in 1 .. n} \cup {next[i] : i \in 1 .. Horizon})
    <3> DEFINE S == {past[i] : i \in 1 .. n} \cup {next[i] : i \in 1 .. Horizon}
    <3>1. (\A i \in 1 .. n : past[i] \in S) /\ \A i \in 1 .. Horizon : next[i] \in S
      OBVIOUS
    <3>2. past \in [1 .. n -> S] /\ next \in [1 .. Horizon -> S]
      <4> HIDE DEF past, next, S
      <4> QED BY <2>1, <3>1
    <3> HIDE DEF past, next, S
    <3>3. n \in Nat /\ Horizon \in Nat
      BY <1>1
    <3> HIDE DEF n
    <3>4. past \in Seq(S) /\ next \in Seq(S)
      BY <3>2, <3>3
    <3> QED BY <3>4 DEF S
  <2> HIDE DEF past, next, n
  <2>3. PICK S : past \in Seq(S) /\ next \in Seq(S)
    BY <2>2
  <2>4. n \in Nat /\ Horizon \in Nat /\ Len(past) = n /\ Len(next) = Horizon
    BY <1>1, <1>2
  <2>5. /\ Len(rows) = Len(past) + Len(next)
        /\ \A i \in 1 .. Len(past) : rows[i] = past[i]
        /\ \A i \in Len(past) + 1 .. Len(past) + Len(next) : rows[i] = next[i - Len(past)]
    BY ONLY <2>3, Joined DEF rows
  <2> HIDE DEF rows
  <2> QED BY ONLY <2>4, <2>5
<1> HIDE DEF past, next, rows
<1>7. ASSUME NEW i \in 2 .. Len(rows) PROVE rows[i].ds = rows[i - 1].ds + 1
  <2>1. CASE i <= n
    <3>1. i \in 1 .. n /\ i - 1 \in 1 .. n /\ i > 1
      BY <2>1, <1>1
    <3> QED BY <3>1, <1>3, <1>6 DEF Past
  <2>2. CASE i = n + 1
    <3>1. n \in 1 .. n /\ i \in n + 1 .. n + Horizon /\ i - n = 1 /\ i - 1 = n /\ 1 \in 1 .. Horizon
      BY <2>2, <1>1, <1>6
    <3>2. rows[i] = next[1] /\ rows[i - 1] = past[n]
      BY <3>1, <1>6
    <3>3. next[1].ds = df[n].ds + 1 /\ past[n].ds = df[n].ds
      BY <3>1, <1>3, <1>4
    <3> QED BY <3>2, <3>3
  <2>3. CASE i > n + 1
    <3>1. /\ i \in n + 1 .. n + Horizon /\ i - 1 \in n + 1 .. n + Horizon
          /\ i - n \in 1 .. Horizon /\ (i - 1) - n \in 1 .. Horizon
      BY <2>3, <1>1, <1>6
    <3>2. rows[i].ds = df[n].ds + (i - n) /\ rows[i - 1].ds = df[n].ds + ((i - 1) - n)
      BY <3>1, <1>4, <1>6
    <3>3. df[n].ds \in Nat
      BY <1>1
    <3> QED BY <3>2, <3>3, <1>1
  <2> QED BY <2>1, <2>2, <2>3, <1>1, <1>6
<1>8. ASSUME NEW i \in 1 .. n
      PROVE  /\ rows[i].ds < t /\ rows[i].yhat <= DayOf(k, rows[i].ds).y
             /\ rows[i].lower = rows[i].yhat /\ rows[i].upper = rows[i].yhat
  BY <1>3, <1>6 DEF Past
<1>9. ASSUME NEW i \in n + 1 .. Len(rows)
      PROVE  /\ 0 <= rows[i].lower /\ rows[i].lower <= rows[i].yhat
             /\ rows[i].yhat <= rows[i].upper
                  \/ (kind = "prophet" /\ rows[i].upper < 0 /\ rows[i].yhat = 0)
  <2>1. i \in n + 1 .. n + Horizon /\ i - n \in 1 .. Horizon
    BY <1>1, <1>6
  <2> QED BY <2>1, <1>4, <1>6
<1> QED BY <1>2, <1>7, <1>8, <1>9 DEF Continues, PostForecast, AsStored, DayOf, past, next, rows

\* An answer is the days one after the other, what was and then what may be.
THEOREM ForecastsContinue == SeriesSpec => AnswerContinues
<1> DEFINE df == FitAndPersist(kpi, today)
           Goes(kind, raw) == Continues(kind, PostForecast(kind, df, raw), kpi', today')
<1>1. ASSUME SeriesTyped, SeriesIsWhole, [SeriesNext]_seriesVars
      PROVE  \A kind \in ModelKinds, raw \in [1 .. Horizon -> Predicted] : df # <<>> => Goes(kind, raw)
  <2>1. kpi \in Kpis /\ today \in Nat
    BY <1>1 DEF SeriesTyped
  <2>2. df # <<>> => Past(df, kpi, today)
    BY <1>1, <2>1, FittedIsPast DEF FitAndPersist
  <2> HIDE DEF df
  <2>3. df # <<>> => Past(df, kpi', today')
    BY <1>1, <2>1, <2>2, PastGrows DEF seriesVars
  <2> QED BY <2>3, ContinuesThen
<1> HIDE DEF df, Goes
<1>2. SeriesTyped /\ SeriesIsWhole /\ [SeriesNext]_seriesVars
        => [\A kind \in ModelKinds, raw \in [1 .. Horizon -> Predicted] : df # <<>> => Goes(kind, raw)]_seriesVars
  BY <1>1
<1>3. [][\A kind \in ModelKinds, raw \in [1 .. Horizon -> Predicted] : df # <<>> => Goes(kind, raw)]_seriesVars
        => AnswerContinues
  BY PTL DEF AnswerContinues, df, Goes
<1> QED BY <1>2, <1>3, TypedSeries, SeriesAreWhole, PTL DEF SeriesSpec
=============================================================================
