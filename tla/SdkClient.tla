----------------------------- MODULE SdkClient -----------------------------
(***************************************************************************)
(* The browser and Node SDK (sdk/src/client.ts): events are queued, taken  *)
(* in batches by a full queue, a timer, flush() or close(), and every batch*)
(* is posted with retries on its own; batches in flight overlap.  JavaScript*)
(* runs one callback at a time, so an action is what runs between awaits.  *)
(* The ingestion API is external: it may accept a batch, and its answer may*)
(* be lost, be a server error, or refuse the batch.                        *)
(***************************************************************************)
EXTENDS Integers, Sequences, SequencesExt

CONSTANTS
    MaxEvents,      \* bound: calls of track, identify and page
    BatchSize,      \* batchSize
    MaxRetries      \* maxRetries

ASSUME SdkAssumption ==
    MaxEvents \in Nat /\ BatchSize \in Nat \ {0} /\ MaxRetries \in Nat

Events == 1 .. MaxEvents

VARIABLES
    tracked,        \* events given to the SDK so far: 1 .. tracked
    queue,          \* this.queue; the waiter of an event is its promise
    timer,          \* this.flushTimer is armed
    flights,        \* batches taken by flush, in order: events, attempt, at, answer
    promise,        \* event -> the state of the promise the caller holds
    accepted,       \* API: event -> times it accepted the event
    lost            \* API: event -> times an answer that accepted it got lost

vars == <<tracked, queue, timer, flights, promise, accepted, lost>>

Answers == {"none", "ok", "lost", "busy", "refused"}

Init ==
    /\ tracked = 0
    /\ queue = <<>>
    /\ timer = FALSE
    /\ flights = <<>>
    /\ promise = [e \in Events |-> "none"]
    /\ accepted = [e \in Events |-> 0]
    /\ lost = [e \in Events |-> 0]

\* flush(): the queue becomes a batch whose first attempt is on its way.
TimerKept(q) == timer                       \* mutant: the timer is not cleared
TimerAfterTake(q) == FALSE

QueueKept(q) == q                           \* mutant: the queue is not emptied
QueueAfterTake(q) == <<>>

Take(q) ==
    /\ flights' = Append(flights,
           [events |-> q, attempt |-> 0, at |-> "sent", answer |-> "none"])
    /\ queue' = QueueAfterTake(q)
    /\ timer' = TimerAfterTake(q)

\* The condition under which enqueue flushes at once instead of arming the timer.
Full(q) == Len(q) >= BatchSize

\* scheduleFlush(): the timer after an event was pushed on the queue.
NotArmed(q) == timer                        \* mutant: it is not set
Armed(q) == TRUE

\* enqueue(): push the event and its waiter, then flush or arm the timer.
Track ==
    /\ tracked < MaxEvents
    /\ LET e == tracked + 1
           q == Append(queue, e)
       IN  /\ tracked' = e
           /\ promise' = [promise EXCEPT ![e] = "pending"]
           /\ IF Full(q) THEN Take(q)
              ELSE queue' = q /\ timer' = Armed(q) /\ UNCHANGED flights
    /\ UNCHANGED <<accepted, lost>>

\* The timer of scheduleFlush fires.
TimerFires ==
    /\ timer
    /\ IF queue = <<>> THEN timer' = FALSE /\ UNCHANGED <<queue, flights>>
       ELSE Take(queue)
    /\ UNCHANGED <<tracked, promise, accepted, lost>>

\* flush() by the application: nothing happens on an empty queue.
Flush ==
    /\ queue # <<>>
    /\ Take(queue)
    /\ UNCHANGED <<tracked, promise, accepted, lost>>

\* close(): clear the timer, flush what is queued.  Batches in flight go on.
Close ==
    /\ IF queue = <<>> THEN timer' = FALSE /\ UNCHANGED <<queue, flights>>
       ELSE Take(queue)
    /\ UNCHANGED <<tracked, promise, accepted, lost>>

Bump(count, es) == [e \in Events |-> count[e] + (IF e \in es THEN 1 ELSE 0)]
SettleAll(es, how) ==                       \* mutant: every waiter, not the batch's
    [e \in Events |-> IF promise[e] = "pending" THEN how ELSE promise[e]]
Settle(es, how) == [e \in Events |-> IF e \in es THEN how ELSE promise[e]]

\* send() caught an error: one attempt more, then a backoff or the end.
GivesUp(attempt) == attempt > MaxRetries

\* The answer to the attempt of batch f on its way.  Every failure, a refusal
\* (4xx) included, is thrown inside the try block and caught for a retry.
Answer(f, a) ==
    /\ flights[f].at = "sent"
    /\ LET es == ToSet(flights[f].events)
           n == flights[f].attempt + 1
       IN  /\ accepted' = IF a \in {"ok", "lost"} THEN Bump(accepted, es) ELSE accepted
           /\ lost' = IF a = "lost" THEN Bump(lost, es) ELSE lost
           /\ CASE a = "ok" ->
                     /\ flights' = [flights EXCEPT ![f].at = "done", ![f].answer = a]
                     /\ promise' = Settle(es, "resolved")
                [] a # "ok" /\ GivesUp(n) ->
                     /\ flights' = [flights EXCEPT
                            ![f].at = "done", ![f].answer = a, ![f].attempt = n]
                     /\ promise' = Settle(es, "rejected")
                [] a # "ok" /\ ~GivesUp(n) ->
                     /\ flights' = [flights EXCEPT
                            ![f].at = "backoff", ![f].answer = a, ![f].attempt = n]
                     /\ UNCHANGED promise
    /\ UNCHANGED <<tracked, queue, timer>>

\* The backoff delay of batch f is over: the next attempt is on its way.
Retry(f) ==
    /\ flights[f].at = "backoff"
    /\ flights' = [flights EXCEPT ![f].at = "sent"]
    /\ UNCHANGED <<tracked, queue, timer, promise, accepted, lost>>

Next ==
    \/ Track \/ TimerFires \/ Flush \/ Close
    \/ \E f \in DOMAIN flights :
        Retry(f) \/ \E a \in Answers \ {"none"} : Answer(f, a)

Spec == Init /\ [][Next]_vars

-----------------------------------------------------------------------------
TypeOK ==
    /\ tracked \in 0 .. MaxEvents
    /\ queue \in Seq(Events)
    /\ timer \in BOOLEAN
    /\ flights \in Seq([events : Seq(Events), attempt : 0 .. MaxRetries + 1,
                        at : {"sent", "backoff", "done"}, answer : Answers])
    /\ promise \in [Events -> {"none", "pending", "resolved", "rejected"}]
    /\ accepted \in [Events -> Nat]
    /\ lost \in [Events -> Nat]

\* The events of batch f, and of f while it is not done.
Batch(f) == ToSet(flights[f].events)
InFlight(f) == IF flights[f].at = "done" THEN {} ELSE Batch(f)

\* No event waits without a way out: a queue that holds events has its timer
\* armed, whatever mix of full queues, flush() and close() came before, and
\* only a queue with events waits for the timer.
TimerGuardsQueue == (queue # <<>>) <=> timer

\* No event is forgotten or sent by two batches: a pending event is in the
\* queue or in exactly one unfinished batch, and a settled one in neither.
EveryPendingIsSomewhere ==
    \A e \in Events :
        LET holders == {f \in DOMAIN flights : e \in InFlight(f)} IN
        promise[e] = "pending" <=>
            \/ e \in ToSet(queue) /\ holders = {}
            \/ e \notin ToSet(queue) /\ \E f \in DOMAIN flights : holders = {f}

\* A caller is told the truth: a resolved event was accepted, and once more
\* for each answer that got lost; one that is not resolved was accepted only by
\* answers that got lost, at most one per attempt.
AcceptedAsAnswered ==
    \A e \in Events :
        /\ accepted[e] = lost[e] + (IF promise[e] = "resolved" THEN 1 ELSE 0)
        /\ accepted[e] <= MaxRetries + 1

\* What makes the two inductive.  A tracked event is in the queue, or for good
\* in one batch.  The promises of a batch are settled together when it is done,
\* and each attempt lost at most one answer.
Untouched(e) == accepted[e] = 0 /\ lost[e] = 0
PromiseOf(f) ==
    IF flights[f].at # "done" THEN "pending"
    ELSE IF flights[f].answer = "ok" THEN "resolved" ELSE "rejected"
TrackedIsPlaced ==
    \A e \in Events :
        IF e > tracked
        THEN /\ promise[e] = "none" /\ Untouched(e)
             /\ e \notin ToSet(queue) /\ \A f \in DOMAIN flights : e \notin Batch(f)
        ELSE e \in ToSet(queue) \/ \E f \in DOMAIN flights : e \in Batch(f)
QueuedIsPending ==
    \A e \in ToSet(queue) :
        /\ promise[e] = "pending" /\ Untouched(e)
        /\ \A f \in DOMAIN flights : e \notin Batch(f)
BatchesApart ==
    \A f, g \in DOMAIN flights : f # g => Batch(f) \cap Batch(g) = {}
BatchAgrees ==
    \A f \in DOMAIN flights :
        /\ flights[f].attempt <= MaxRetries \/ PromiseOf(f) = "rejected"
        /\ \A e \in Batch(f) :
            /\ promise[e] = PromiseOf(f)
            /\ lost[e] <= flights[f].attempt
            /\ accepted[e] = lost[e] + (IF promise[e] = "resolved" THEN 1 ELSE 0)

\* No event waits without a way out, none is forgotten, none is in two batches
\* and every caller is told the truth, whatever the order of full queues,
\* timers, flush(), answers and retries.
IInv ==
    /\ TypeOK /\ TimerGuardsQueue
    /\ TrackedIsPlaced /\ QueuedIsPending /\ BatchesApart /\ BatchAgrees
    /\ EveryPendingIsSomewhere /\ AcceptedAsAnswered

\* "rejects 4xx without retry" (sdk/src/client.test.ts:78): after a refusal
\* the batch is done.
RefusedIsNotRetried ==
    \A f \in DOMAIN flights : flights[f].answer = "refused" => flights[f].at = "done"
=============================================================================
