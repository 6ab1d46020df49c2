----------------------------- MODULE WritePath -----------------------------
(***************************************************************************)
(* The write path from track() to ClickHouse: the SDK posts batches to the *)
(* ingestion API (IngestApi), whose producer appends to the partition that *)
(* the consumer (Consumer) polls.  The components' modules give the steps. *)
(* Here the SDK is answered what the API answers, the requests of the API  *)
(* are the attempts of the SDK, and the consumer's log is the API's.       *)
(* Processes shutting down and rebalances are left to those modules.       *)
(***************************************************************************)
EXTENDS SdkClient, FiniteSets

CONSTANTS
    Processes, NoProcess,                           \* of IngestApi
    Partition, Workers, NoWorker, BatchMax,         \* of Consumer
    MaxFaults       \* bound: faults of the API, the network and the consumer

ASSUME WritePathAssumption ==
    /\ NoProcess \notin Processes
    /\ IsFiniteSet(Workers) /\ NoWorker \notin Workers
    /\ BatchMax \in Nat \ {0}
    /\ MaxFaults \in Nat

VARIABLES
    \* the API
    revoked, handler, at, next, answer, up, accumulated, log, late, apiFaults,
    \* the consumer
    committed, owner, events, kpi, pc, assigned, position, buffer, pending,
    stop, groupFaults, rebalances, stops,
    cuts            \* connections that broke before the SDK had its answer

api == <<revoked, handler, at, next, answer, up, accumulated, log, late, apiFaults>>
group == <<committed, owner, events, kpi, pc, assigned, position, buffer, pending,
           stop, groupFaults, rebalances, stops>>
all == <<vars, api, group, cuts>>

\* An attempt: its batch, how many events that has, the number of the attempt.
Attempts == Events \X (1 .. BatchSize) \X (0 .. MaxRetries)
Attempt(f) == <<f, Len(flights[f].events), flights[f].attempt>>

Api == INSTANCE IngestApi WITH
    Requests <- Attempts, Size <- [r \in Attempts |-> r[2]],
    pc <- handler, faults <- apiFaults
Group == INSTANCE Consumer WITH
    Partitions <- {Partition}, MaxLog <- MaxEvents * (MaxRetries + 1),
    Malformed <- {}, Unwritable <- {}, MaxRebalances <- 0, MaxStops <- 0,
    logEnd <- [p \in {Partition} |-> Len(log)], faults <- groupFaults

PathInit == Init /\ Api!Init /\ Group!Init /\ cuts = 0

\* Failures come one after the other, anywhere.
FaultsSoFar == apiFaults + groupFaults + cuts

ClientStep ==
    /\ \/ Track \/ TimerFires \/ Flush \/ Close
       \/ \E f \in DOMAIN flights : Retry(f)
    /\ UNCHANGED <<api, group, cuts>>

\* The attempt of batch f on its way reaches a process.
Reaches(f) ==
    /\ flights[f].at = "sent"
    /\ \E p \in Processes : Api!Arrive(Attempt(f), p)
    /\ UNCHANGED <<vars, group, cuts>>

ApiStep ==
    /\ \/ \E r \in Attempts : Api!Handle(r)
       \/ \E p \in Processes : Api!Deliver(p) \/ Api!DeliveryFails(p) \/ Api!Crash(p)
       \/ Api!Revoke
    /\ UNCHANGED <<vars, group, cuts>>
    /\ FaultsSoFar' <= MaxFaults

\* What an answer of the API is to the SDK: a dead process looks like a 500.
RefusalIsOk(status) ==                      \* mutant: res.ok is not looked at
    IF status \in {"202", "401"} THEN "ok" ELSE "busy"
AcceptedIsNotOk(status) ==                  \* mutant: status # 200 is an error
    IF status = "401" THEN "refused" ELSE "busy"
Outcome(status) ==
    CASE status = "202" -> "ok"
      [] status = "401" -> "refused"
      [] OTHER -> "busy"

\* The answer of the API arrives at the SDK.
Answered(f) ==
    /\ flights[f].at = "sent"
    /\ handler[Attempt(f)] = "answered"
    /\ Answer(f, Outcome(answer[Attempt(f)]))
    /\ UNCHANGED <<api, group, cuts>>

\* The connection breaks first; the handler goes on.
Cut(f) ==
    /\ flights[f].at = "sent"
    /\ FaultsSoFar < MaxFaults
    /\ cuts' = cuts + 1
    /\ Answer(f, IF answer[Attempt(f)] = "202" THEN "lost" ELSE "busy")
    /\ UNCHANGED <<api, group>>

GroupStep ==
    /\ UNCHANGED <<vars, api, cuts>>
    /\ \E w \in Workers : Group!JoinGroup(w) \/ Group!WorkerStep(w) \/ Group!Crash(w)
    /\ FaultsSoFar' <= MaxFaults

PathNext ==
    \/ ClientStep \/ ApiStep \/ GroupStep
    \/ \E f \in DOMAIN flights : Reaches(f) \/ Answered(f) \/ Cut(f)

\* What the components do on their own, once it is ready.
Advances ==
    \/ /\ TimerFires \/ \E f \in DOMAIN flights : Retry(f)
       /\ UNCHANGED <<api, group, cuts>>
    \/ \E f \in DOMAIN flights : Reaches(f) \/ Answered(f)
    \/ /\ \/ \E r \in Attempts : Api!Handle(r)
          \/ \E p \in Processes : Api!Deliver(p) \/ Api!DeliveryFails(p)
       /\ UNCHANGED <<vars, group, cuts>>
    \/ /\ UNCHANGED <<vars, api, cuts>>
       /\ \E w \in Workers : Group!JoinGroup(w) \/ Group!WorkerStep(w)

PathSpec == PathInit /\ [][PathNext]_all /\ WF_all(Advances)

-----------------------------------------------------------------------------
\* The tracked event that an event of a request, or of the log, is.
Origin(x) == flights[x[1][1]].events[x[2]]
Kept == {Origin(log[i]) : i \in DOMAIN log}
Stored == {Origin(log[r[2] + 1]) : r \in events}

\* What mv_kpi_hourly counts of event e.
Counted(e) ==
    SumFunction([i \in {i \in DOMAIN log : Origin(log[i]) = e} |->
                    kpi[<<Partition, i - 1>>]])

\* Over-counting end to end: every retry has new event ids and every insert is
\* counted again, yet a KPI counts an event once more only for a failure on
\* its way: of the API or the network, or of the consumer for each such copy.
CopiesNeedFaults ==
    \A e \in Events : Counted(e) <= (1 + apiFaults + cuts) * (1 + groupFaults)

\* What makes it and the refinement inductive.  A batch holds some events, each
\* of them once, and there are at most as many batches as tracked events.
BatchesInOrder ==
    /\ Len(flights) + Len(queue) <= tracked
    /\ Len(queue) < BatchSize /\ IsInjective(queue)
    /\ \A f \in DOMAIN flights :
        /\ Len(flights[f].events) \in 1 .. BatchSize
        /\ IsInjective(flights[f].events)

\* The API has seen no request but attempts the SDK has made.
AttemptsKnown ==
    \A r \in Attempts : handler[r] # "out" =>
        /\ r[1] \in DOMAIN flights
        /\ r[2] = Len(flights[r[1]].events)
        /\ r[3] <= flights[r[1]].attempt

\* The attempts of batch f that may have left events behind and be followed by
\* another: each of them took a failure.
Failed(f) ==
    {a \in 0 .. MaxRetries :
        LET status == answer[<<f, Len(flights[f].events), a>>] IN
        /\ status \notin {"401", "429"}
        /\ a < flights[f].attempt \/ status \in {"500", "lost"}}
FailuresCounted ==
    \A f \in DOMAIN flights : Cardinality(Failed(f)) <= apiFaults + cuts

\* The components keep their own invariants when they are put together, and
\* what one knows of the other is true.
PathInv ==
    /\ IInv /\ Api!IInv /\ Group!IInv
    /\ BatchesInOrder /\ AttemptsKnown /\ FailuresCounted
    /\ rebalances = 0 /\ cuts \in 0 .. MaxFaults

\* The path as a whole does what Delivery says.
Promise == INSTANCE Delivery WITH
    Tracked <- Events, told <- promise, kept <- Kept, stored <- Stored
ImplementsDelivery == Promise!Spec

Alone(e) == \E f \in DOMAIN flights : flights[f].events = <<e>>

\* In the end, for good: every caller is told, an event whose caller was told of
\* success is in ClickHouse - unless it was one of a batch and the API failed
\* - and the consumer's lag is gone, whatever else failed on the way.
PromisesKept ==
    <>[](/\ \A e \in Events :
              /\ promise[e] # "pending"
              /\ promise[e] = "resolved" /\ (Alone(e) \/ apiFaults = 0) => e \in Stored
         /\ committed[Partition] = Len(log))
=============================================================================
