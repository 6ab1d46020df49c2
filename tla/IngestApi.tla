----------------------------- MODULE IngestApi -----------------------------
(***************************************************************************)
(* The ingestion API (ingestion/app): a POST /v1/events looks the API key  *)
(* up in Postgres, asks the rate limiter (module RateLimit; here either    *)
(* answer), hands its events to the process's Kafka producer and answers.  *)
(* A step of a request is what runs between two awaits.  Requests with the *)
(* key of one workspace are modelled: their events share a partition.      *)
(*                                                                         *)
(* The producer (aiokafka) is external: send() accumulates an event and    *)
(* returns a future, a background task delivers what is accumulated in     *)
(* order, a delivery may fail, and stop() delivers everything first.       *)
(***************************************************************************)
EXTENDS Integers, Sequences, SequencesExt

CONSTANTS
    Requests,       \* requests with the key
    Size,           \* request: how many events its body has
    Processes,      \* uvicorn workers: each has its own producer
    NoProcess,      \* the process of a request that has not arrived
    MaxFaults       \* bound: crashes, failed deliveries, failed calls

ASSUME IngestAssumption ==
    /\ Size \in [Requests -> Nat \ {0}]
    /\ NoProcess \notin Processes
    /\ MaxFaults \in Nat

\* The requests whose event is sent alone: len(kafka_events) == 1.
Single == {r \in Requests : Size[r] = 1}
\* The events of request r, and of all requests.
EventsOf(r) == {r} \X (1 .. Size[r])
Events == UNION {EventsOf(r) : r \in Requests}

VARIABLES
    revoked,        \* Postgres: the key's revoked_at is set
    pc,             \* request: where its handler is
    at,             \* request: the process that serves it
    next,           \* request: index of the next event to send
    answer,         \* request: its status, "none", or "lost" with its process
    up,             \* process: FALSE while it shuts down
    accumulated,    \* process: events the producer holds, oldest first
    log,            \* broker: the workspace's partition of events.raw
    late,           \* history: requests that arrived after the revocation
    faults          \* number of faults so far

handlers == <<pc, at, next, answer>>
vars == <<revoked, handlers, up, accumulated, log, late, faults>>

Init ==
    /\ revoked = FALSE
    /\ pc = [r \in Requests |-> "out"]
    /\ at = [r \in Requests |-> NoProcess]
    /\ next = [r \in Requests |-> 1]
    /\ answer = [r \in Requests |-> "none"]
    /\ up = [p \in Processes |-> TRUE]
    /\ accumulated = [p \in Processes |-> <<>>]
    /\ log = <<>>
    /\ late = {} /\ faults = 0

Respond(r, status) ==
    /\ pc' = [pc EXCEPT ![r] = "answered"]
    /\ answer' = [answer EXCEPT ![r] = status]

Goto(r, where) == pc' = [pc EXCEPT ![r] = where] /\ UNCHANGED answer

\* The request arrives at a process and awaits the lookup of its key.
Arrive(r, p) ==
    /\ pc[r] = "out" /\ up[p]
    /\ at' = [at EXCEPT ![r] = p]
    /\ late' = IF revoked THEN late \cup {r} ELSE late
    /\ Goto(r, "lookup")
    /\ UNCHANGED <<revoked, next, up, accumulated, log, faults>>

\* WHERE prefix = $1 AND revoked_at IS NULL, in Postgres for every request.
FoundAny == TRUE                            \* mutant: revoked_at not looked at
\* mutant: the cache auth.py:8-9 describes, where a key found before is found.
FoundCached ==
    ~revoked \/ \E q \in Requests :
        pc[q] \in {"limit", "send", "delivery"} \/ answer[q] \in {"202", "429"}
Found == ~revoked

\* require_api_key: the row is read; a missing row is a 401.
Lookup(r) ==
    /\ pc[r] = "lookup"
    /\ IF Found THEN Goto(r, "limit") ELSE Respond(r, "401")
    /\ UNCHANGED <<revoked, at, next, up, accumulated, log, late, faults>>

\* _enforce_rate_limit: the limiter's answer, for all events at once.
Limit(r) ==
    /\ pc[r] = "limit"
    /\ \/ Goto(r, "send")
       \/ Respond(r, "429")
    /\ UNCHANGED <<revoked, at, next, up, accumulated, log, late, faults>>

\* The event that is sent next: in the order of the body.
LastFirst(r) == Size[r] + 1 - next[r]       \* mutant: from the end
Index(r) == next[r]

\* What follows the send of an event: send_and_wait awaits the delivery of a
\* single one; in a batch `await fut` only runs send(), and the last answers.
NoWait(r) == Respond(r, "202")              \* mutant: send() for a single event
AfterLastSend(r) == IF r \in Single THEN Goto(r, "delivery") ELSE Respond(r, "202")

AnswersEarly(r) == next[r] + 1 >= Size[r]   \* mutant: off by one
IsLast(r) == next[r] = Size[r]

\* One event is handed to the producer.
Send(r) ==
    /\ pc[r] = "send"
    /\ accumulated' = [accumulated EXCEPT ![at[r]] = Append(@, <<r, Index(r)>>)]
    /\ next' = [next EXCEPT ![r] = @ + 1]
    /\ IF IsLast(r) THEN AfterLastSend(r) ELSE UNCHANGED <<pc, answer>>
    /\ UNCHANGED <<revoked, at, up, log, late, faults>>

\* Postgres, Redis or send() raises: the answer is a 500, and what a batch has
\* handed to the producer before stays there.
Raises(r) ==
    /\ pc[r] \in {"lookup", "limit", "send"}
    /\ faults < MaxFaults
    /\ faults' = faults + 1
    /\ Respond(r, "500")
    /\ UNCHANGED <<revoked, at, next, up, accumulated, log, late>>

\* The request whose handler awaits the delivery of event e, if any.
Awaits(r, e) == pc[r] = "delivery" /\ e[1] = r

\* The oldest accumulated event of p reaches the broker.
Deliver(p) ==
    /\ accumulated[p] # <<>>
    /\ LET e == Head(accumulated[p]) IN
       /\ log' = Append(log, e)
       /\ IF Awaits(e[1], e) THEN Respond(e[1], "202") ELSE UNCHANGED <<pc, answer>>
    /\ accumulated' = [accumulated EXCEPT ![p] = Tail(@)]
    /\ UNCHANGED <<revoked, at, next, up, late, faults>>

\* Its delivery fails, perhaps after the broker stored it.  Nobody awaits the
\* future of an event of a batch.
DeliveryFails(p) ==
    /\ accumulated[p] # <<>>
    /\ faults < MaxFaults
    /\ faults' = faults + 1
    /\ LET e == Head(accumulated[p]) IN
       /\ log' \in {log, Append(log, e)}
       /\ IF Awaits(e[1], e) THEN Respond(e[1], "500") ELSE UNCHANGED <<pc, answer>>
    /\ accumulated' = [accumulated EXCEPT ![p] = Tail(@)]
    /\ UNCHANGED <<revoked, at, next, up, late>>

\* ApiKeysService.revoke in the API service.
Revoke ==
    /\ ~revoked
    /\ revoked' = TRUE
    /\ UNCHANGED <<handlers, up, accumulated, log, late, faults>>

Serving(p) == {r \in Requests : at[r] = p /\ pc[r] # "answered"}

\* SIGTERM: the server takes no request, and when the last one is answered the
\* lifespan stops the producer, which delivers first.
Shutdown(p) ==
    /\ up[p]
    /\ up' = [up EXCEPT ![p] = FALSE]
    /\ UNCHANGED <<revoked, handlers, accumulated, log, late, faults>>

StoppedAtOnce(p) == TRUE                    \* mutant: the producer is not stopped
Stopped(p) == accumulated[p] = <<>>

\* The process has ended and is started again.
Restart(p) ==
    /\ ~up[p] /\ Serving(p) = {} /\ Stopped(p)
    /\ up' = [up EXCEPT ![p] = TRUE]
    /\ accumulated' = [accumulated EXCEPT ![p] = <<>>]
    /\ UNCHANGED <<revoked, handlers, log, late, faults>>

\* The process dies: its requests get no answer, accumulated events are lost.
Crash(p) ==
    /\ faults < MaxFaults
    /\ faults' = faults + 1
    /\ pc' = [r \in Requests |-> IF r \in Serving(p) THEN "answered" ELSE pc[r]]
    /\ answer' = [r \in Requests |-> IF r \in Serving(p) THEN "lost" ELSE answer[r]]
    /\ accumulated' = [accumulated EXCEPT ![p] = <<>>]
    /\ up' = [up EXCEPT ![p] = TRUE]
    /\ UNCHANGED <<revoked, at, next, log, late>>

Handle(r) == Lookup(r) \/ Limit(r) \/ Send(r) \/ Raises(r)

Next ==
    \/ \E r \in Requests : Handle(r) \/ \E p \in Processes : Arrive(r, p)
    \/ \E p \in Processes :
        Deliver(p) \/ DeliveryFails(p) \/ Shutdown(p) \/ Restart(p) \/ Crash(p)
    \/ Revoke

\* The event loop runs what is ready, and a delivery ends one way or the other.
Fairness ==
    /\ \A r \in Requests : WF_vars(Handle(r))
    /\ \A p \in Processes :
        WF_vars(Deliver(p) \/ DeliveryFails(p)) /\ WF_vars(Restart(p))

Spec == Init /\ [][Next]_vars
FairSpec == Spec /\ Fairness

-----------------------------------------------------------------------------
TypeOK ==
    /\ revoked \in BOOLEAN
    /\ pc \in [Requests -> {"out", "lookup", "limit", "send", "delivery", "answered"}]
    /\ at \in [Requests -> Processes \cup {NoProcess}]
    /\ next \in [Requests -> Nat]
    /\ \A r \in Requests : next[r] \in 1 .. Size[r] + 1
    /\ answer \in [Requests -> {"none", "202", "401", "429", "500", "lost"}]
    /\ up \in [Processes -> BOOLEAN]
    /\ accumulated \in [Processes -> Seq(Events)]
    /\ log \in Seq(Events)
    /\ late \subseteq Requests
    /\ faults \in 0 .. MaxFaults

Logged == ToSet(log)
Accumulated == UNION {ToSet(accumulated[p]) : p \in Processes}

\* The 202 of a single event is a promise: the broker has it, and no crash of
\* the process takes it back (send_event awaits the delivery).
SingleAckIsDurable ==
    \A r \in Single : answer[r] = "202" => EventsOf(r) \subseteq Logged

\* The 202 of a batch counts all its events: as long as nothing failed, each is
\* in the log or with a producer that still delivers it, across shutdowns.
AckedIsKept ==
    \A r \in Requests :
        answer[r] = "202" /\ faults = 0 => EventsOf(r) \subseteq Logged \cup Accumulated

\* The log keeps the order of every body, whatever requests, deliveries and
\* failures come between its events.
Ordered(q) ==
    \A i, j \in DOMAIN q : i < j /\ q[i][1] = q[j][1] => q[i][2] < q[j][2]
BodyOrderKept == Ordered(log)

\* A refused request (401, 429), or one that came after the key was revoked,
\* leaves no event behind: not in the log and not with a producer.  It is so
\* because _lookup_key asks Postgres for every request.  auth.py:8-9 says that
\* lookups are cached in Redis for 60 s; with that cache, which is not in the
\* code, a revoked key would still pass and this would be false (FoundCached).
RefusedLeavesNothing ==
    \A r \in Requests :
        answer[r] \in {"401", "429"} \/ r \in late =>
            EventsOf(r) \cap (Logged \cup Accumulated) = {}

\* What makes them inductive.  How far a handler is says what it has sent: a
\* request that was refused, or came late, nothing, an acknowledged one all.
HandlerAgrees(r) ==
    /\ pc[r] \in {"out", "lookup", "limit"} => next[r] = 1
    /\ pc[r] = "send" => next[r] <= Size[r]
    /\ pc[r] = "delivery" => r \in Single /\ next[r] = Size[r] + 1
    /\ pc[r] = "answered" <=> answer[r] # "none"
    /\ IF pc[r] = "out" THEN at[r] = NoProcess ELSE at[r] \in Processes
    /\ answer[r] = "202" => next[r] = Size[r] + 1
    /\ answer[r] \in {"401", "429"} \/ r \in late => next[r] = 1
    /\ r \in late => revoked /\ pc[r] \in {"lookup", "answered"}
HandlersAgree == \A r \in Requests : HandlerAgrees(r)

\* The events of a body pass through one process, in order, the log first.
SentInOrder ==
    /\ \A e \in Logged \cup Accumulated : e[2] < next[e[1]]
    /\ \A e \in Logged, f \in Accumulated : e[1] = f[1] => e[2] < f[2]
    /\ \A p \in Processes :
        /\ Ordered(accumulated[p])
        /\ \A e \in ToSet(accumulated[p]) : at[e[1]] = p

\* Without a fault nothing that was sent disappears.
SentIsKept ==
    faults = 0 =>
        \A e \in Events : e[2] < next[e[1]] => e \in Logged \cup Accumulated

\* What is in the log or on its way there was accepted in order and from a
\* caller who was let in, and what was acknowledged is there, whatever
\* interleaves on however many processes.
IInv ==
    /\ TypeOK /\ SingleAckIsDurable /\ AckedIsKept
    /\ BodyOrderKept /\ RefusedLeavesNothing
    /\ HandlersAgree /\ SentInOrder /\ SentIsKept

\* Unless something fails, an accepted event reaches the log in the end.
AckedReachesLog ==
    \A r \in Requests :
        (answer[r] = "202") ~> (EventsOf(r) \subseteq Logged \/ faults > 0)
=============================================================================
