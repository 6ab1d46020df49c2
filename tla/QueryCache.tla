----------------------------- MODULE QueryCache -----------------------------
(***************************************************************************)
(* The data of a browser tab: the session in localStorage, the QueryClient *)
(* of app/providers.tsx with one entry per query key, and what the BFF     *)
(* keeps for each workspace. The keys name no workspace, a fetch is sent   *)
(* for the workspace of the session when it starts, and an entry outlives  *)
(* the page, the fetch and the session that filled it.                     *)
(* What is stored under a key is the sequence of what was written to it.   *)
(***************************************************************************)
EXTENDS Integers, Sequences, FiniteSets

CONSTANTS Workspaces,   \* workspaces, one per account
          MaxItems,     \* bound: what is written under a key
          Answers       \* what a forecast, funnel, cohort or model answer may be

NONE == "none"

WidgetTypes == {"kpi", "forecast", "cohort", "funnel"}
Reports == {"forecast", "funnel", "cohort"}

ASSUME CacheAssumption ==
    /\ NONE \notin Workspaces /\ MaxItems \in Nat \ {0}
    /\ DOMAIN Answers = Reports \cup {"models"}

VARIABLES session,      \* localStorage: the workspace of the stored tokens, or NONE
          entry,        \* the cache: query key -> entry
          stored        \* the BFF: query key -> workspace -> what was written

List(name) == <<name>>
Board(w, n) == <<"dashboard", w, n>>       \* the n-th dashboard made in w
Lists == {"dashboards", "api-keys", "alerts", "models", "alert-history"}
Boards == {Board(w, n) : w \in Workspaces, n \in 1..MaxItems}
Keys == {List(name) : name \in Lists \cup Reports} \cup Boards

\* What may be written under a key.
Items(k) == CASE k \in Boards -> WidgetTypes
              [] k[1] \in DOMAIN Answers -> Answers[k[1]]
              [] OTHER -> {"item"}

NoData == [ws |-> NONE, val |-> <<>>]
NoFetch == [pc |-> "idle"]
Absent == [data |-> NoData, fetch |-> NoFetch, failed |-> FALSE, invalid |-> FALSE]

\* What the entry of key k may be.
FetchesOf(k) == {NoFetch} \cup [pc : {"sent"}, ws : Workspaces \cup {NONE}, tries : Nat]
              \cup [pc : {"read"}, ws : Workspaces, tries : Nat, val : Seq(Items(k))]
EntriesOf(k) == [data : {NoData} \cup [ws : Workspaces, val : Seq(Items(k))],
               fetch : FetchesOf(k), failed : BOOLEAN, invalid : BOOLEAN]

Loaded(e) == e.data.ws # NONE
Fetching(e) == e.fetch.pc # "idle"
IsLoading(e) == Fetching(e) /\ ~Loaded(e)
IsError(e) == e.failed

\* The query function reads the session, of workspace ws, as it is called.
Sent(e, ws, tries) == [e EXCEPT !.fetch = [pc |-> "sent", ws |-> ws, tries |-> tries],
                                !.failed = @ /\ Loaded(e)]
Start(e, ws) == Sent(e, ws, 1)

\* useQuery is mounted: it fetches what is missing, invalidated or more
\* than staleTime old, unless a fetch is in flight.
Mounted(e, ws, old) ==
    IF Fetching(e) \/ (Loaded(e) /\ ~e.invalid /\ ~old) THEN e ELSE Start(e, ws)
MountAll(cache, ws, ks, old) ==
    [k \in Keys |-> IF k \in ks THEN Mounted(cache[k], ws, k \in old) ELSE cache[k]]

\* invalidateQueries: a mounted query is fetched anew, and the fetch in
\* flight is cancelled - except the first one, which goes on.
Invalidated(e, active) ==
    LET marked == [e EXCEPT !.invalid = TRUE] IN
    IF ~Loaded(e) /\ ~Fetching(e) THEN e
    ELSE IF active /\ ~IsLoading(e) THEN Start(marked, session)
    ELSE marked
InvalidateQueries(cache, ks, active) ==
    [k \in Keys |-> IF k \in ks THEN Invalidated(cache[k], k \in active) ELSE cache[k]]

-----------------------------------------------------------------------------
(* apiFetch for a query: the server reads, the answer lands, or one of the *)
(* two fails: no session, another workspace's dashboard, 401, 5xx, network.*)
Readable(k, w) == w # NONE /\ (k \in Boards => k[2] = w)

ServerReads(k) ==
    LET f == entry[k].fetch IN
    /\ f.pc = "sent" /\ Readable(k, f.ws)
    /\ entry' = [entry EXCEPT ![k].fetch = [pc |-> "read", ws |-> f.ws, tries |-> f.tries,
                                            val |-> stored[k][f.ws]]]

Landed(e) == [e EXCEPT !.data = [ws |-> e.fetch.ws, val |-> e.fetch.val],
                       !.fetch = NoFetch, !.failed = FALSE, !.invalid = FALSE]

\* retry: 1 by default, unless nobody is left who wants the answer.
FetchFails(k, retries) ==
    LET e == entry[k] IN
    /\ Fetching(e)
    /\ entry' = [entry EXCEPT ![k] = IF e.fetch.tries <= retries THEN Sent(e, session, e.fetch.tries + 1)
                                     ELSE [e EXCEPT !.fetch = NoFetch, !.failed = TRUE]]

-----------------------------------------------------------------------------
\* Somebody else - a colleague, the SDK, the nightly retraining - writes.
Write(k, w, item) ==
    /\ Len(stored[k][w]) < MaxItems
    /\ stored' = [stored EXCEPT ![k][w] = Append(@, item)]

\* What a cache holds, and what is on its way to it, was on the server, in the
\* workspace it was asked for.
Past(k, answer) ==
    /\ Readable(k, answer.ws)
    /\ Len(answer.val) <= Len(stored[k][answer.ws])
    /\ answer.val = SubSeq(stored[k][answer.ws], 1, Len(answer.val))
CacheIsPast ==
    \A k \in Keys : /\ Loaded(entry[k]) => Past(k, entry[k].data)
                    /\ entry[k].fetch.pc = "read" => Past(k, entry[k].fetch)
=============================================================================
