----------------------------- MODULE Analytics ------------------------------
(***************************************************************************)
(* EventsService: KPI, funnel and cohort queries read the cache in Redis,  *)
(* query ClickHouse, and store the answer with a time to live. An answer   *)
(* is the time its data is of and the workspace it is about; the result of *)
(* the query is kept beside what the handler makes of it. ForecastService  *)
(* passes on what the forecast service answers.                            *)
(***************************************************************************)
EXTENDS Requests

CONSTANTS KpiTtl,       \* KPI_CACHE_TTL_SECONDS, in ticks of the clock
          ReportTtl,    \* the 60 s of the other two
          QuerySpan,    \* request_timeout of the ClickHouse client
          FunnelSteps,  \* steps of the funnel asked for
          Results       \* query -> what ClickHouse may answer

ASSUME AnalyticsAssumption == KpiTtl \in Nat /\ ReportTtl \in Nat /\ QuerySpan \in Nat

\* Counts; a query groups by the level, or by the week and the offset, of
\* activity that is never before the signup.
ASSUME ResultsAssumption ==
    /\ FunnelSteps \in Nat
    /\ \A result \in Results["funnel"] : \A l \in DOMAIN result : result[l] \in Nat
    /\ \A result \in Results["cohort"] :
         /\ \A r \in result : r.off \in Nat
         /\ \A r, q \in result : r.week = q.week /\ r.off = q.off => r = q

-----------------------------------------------------------------------------
(* The read-outs. A funnel's result counts the users by the level they     *)
(* reached, 0 for none; a level without users has no row.                  *)
LevelCounts(result) == [l \in 0..FunnelSteps |-> IF l \in DOMAIN result THEN result[l] ELSE 0]

\* mutant: the levels above are not added
LevelOnly(result) == [i \in 1..FunnelSteps |-> LevelCounts(result)[i]]
Reached(result) ==
    LET above[i \in 1..FunnelSteps + 1] ==
          IF i > FunnelSteps THEN 0 ELSE LevelCounts(result)[i] + above[i + 1]
    IN  [i \in 1..FunnelSteps |-> above[i]]

\* Users per mille of the first step.
Conversion(reached, i) == IF reached[1] > 0 THEN (1000 * reached[i]) \div reached[1] ELSE 0

\* A cohort's result is a set of [week, off, users]; offsets 0..12 are kept.
Cohorts(result) ==
    LET kept == {r \in result : r.off \in 0..12}
        users(wk, off) == LET same == {r \in kept : r.week = wk /\ r.off = off} IN
                          IF same = {} THEN 0 ELSE (CHOOSE r \in same : TRUE).users
    IN  {[week |-> wk, size |-> users(wk, 0), weeks |-> [off \in 0..12 |-> users(wk, off)]] :
           wk \in {r.week : r \in kept}}

Payload(op, result) == CASE op = "funnel" -> [i \in 1..FunnelSteps |->
                              <<Reached(result)[i], Conversion(Reached(result), i)>>]
                         [] op = "cohort" -> Cohorts(result)
                         [] OTHER -> result

-----------------------------------------------------------------------------
Queries == {"kpi", "funnel", "cohort"}
Ttl(op) == IF op = "kpi" THEN KpiTtl ELSE ReportTtl
Missing == [dies |-> 0]

\* mutant: the workspace is not part of the key
KeyWithoutWorkspace(r) == <<r.op, joined[1]>>
CacheKey(r) == <<r.op, r.ws>>
Cached(r) == cache[CacheKey(r)].dies > now

\* The checks of the arguments, then the cache: GET is one step.
LookUp(s) ==
    LET hit == cache[CacheKey(req[s])] IN
    /\ req[s].op \in Queries /\ req[s].pc = "service"
    /\ \/ Reply(s, 400, NONE)
       \/ IF Cached(req[s]) THEN Reply(s, 200, hit) ELSE Goto(s, "query")
    /\ UNCHANGED cache

\* withWorkspace: the rows are those of the caller's workspace; y is the
\* result and the time it is of.
Query(s) ==
    /\ req[s].op \in Queries /\ req[s].pc = "query"
    /\ \E result \in Results[req[s].op] : Note(s, "store", [asOf |-> now, result |-> result])
    /\ UNCHANGED cache
QueryFails(s) ==
    /\ req[s].op \in Queries /\ req[s].pc \in {"service", "query", "store"}
    /\ Reply(s, 500, "unavailable")
    /\ UNCHANGED cache

\* mutant: the answer is stored without EX
Forever(op) == MaxTime + 1
DiesAt(op) == now + Ttl(op)

Store(s) ==
    LET r == req[s]
        answer == [asOf |-> r.y.asOf, ws |-> r.ws, dies |-> DiesAt(r.op),
                   result |-> r.y.result, payload |-> Payload(r.op, r.y.result)]
    IN  /\ r.op \in Queries /\ r.pc = "store"
        /\ cache' = [cache EXCEPT ![CacheKey(r)] = answer]
        /\ Reply(s, 200, answer)

\* ForecastService: an unknown metric, the upstream's error, or its answer.
Forecast(s) ==
    /\ At(s, "forecast", "service")
    /\ \E code \in {200, 400, 422, 500} :
         Reply(s, code, IF code = 200 THEN {req[s].ws} ELSE "unavailable")
    /\ UNCHANGED cache
ListModels(s) ==
    /\ At(s, "models", "service")
    /\ \/ Reply(s, 502, "unavailable")
       \/ \E trained \in SUBSET Workspaces :
            Reply(s, 200, {w \in trained : w = req[s].ws})
    /\ UNCHANGED cache

AnalyticsStep(s) ==
    /\ LookUp(s) \/ Query(s) \/ QueryFails(s) \/ Store(s) \/ Forecast(s) \/ ListModels(s)
    /\ UNCHANGED <<accounts, keys, rows, gateway, env>>

\* A query that ClickHouse has not answered within its timeout has failed.
QueryInTime == \A s \in Slots : (Busy(s) /\ req[s].pc = "store") => now - req[s].y.asOf < QuerySpan

=============================================================================
