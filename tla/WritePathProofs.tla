-------------------------- MODULE WritePathProofs --------------------------
(***************************************************************************)
(* Theorems about SdkClient, for any number of events and retries and any  *)
(* batch size: no event is forgotten or in two batches, no queue waits     *)
(* without a timer, and callers are told the truth.  Then about WritePath, *)
(* the SDK, the API and the consumer put together: each keeps the invariant*)
(* it was proved to have alone (IngestApiProofs, ConsumerProofs), KPIs     *)
(* over-count by the failures only, and the whole implements Delivery.     *)
(***************************************************************************)
EXTENDS WritePath, FiniteSetTheorems, TLAPS

\* The modules of the parts, with their theorems.
P == INSTANCE IngestApiProofs WITH
    Requests <- Attempts, Size <- [r \in Attempts |-> r[2]],
    pc <- handler, faults <- apiFaults
G == INSTANCE ConsumerProofs WITH
    Partitions <- {Partition}, MaxLog <- MaxEvents * (MaxRetries + 1),
    Malformed <- {}, Unwritable <- {}, MaxRebalances <- 0, MaxStops <- 0,
    logEnd <- [p \in {Partition} |-> Len(log)], faults <- groupFaults

USE SdkAssumption

\* IInv without the two statements that follow from the rest.
Core ==
    /\ TypeOK /\ TimerGuardsQueue
    /\ TrackedIsPlaced /\ QueuedIsPending /\ BatchesApart /\ BatchAgrees

Flight == [events : Seq(Events), attempt : 0 .. MaxRetries + 1,
           at : {"sent", "backoff", "done"}, answer : Answers]

-----------------------------------------------------------------------------
LEMMA AppendSet ==
  ASSUME NEW S, NEW q \in Seq(S), NEW e \in S
  PROVE  /\ Append(q, e) \in Seq(S)
         /\ Append(q, e) # <<>>
         /\ ToSet(Append(q, e)) = ToSet(q) \cup {e}
<1>1. /\ Append(q, e) \in Seq(S)
      /\ Append(q, e) # <<>>
      /\ DOMAIN Append(q, e) = DOMAIN q \cup {Len(q) + 1}
      /\ Append(q, e)[Len(q) + 1] = e
      /\ \A i \in DOMAIN q : Append(q, e)[i] = q[i]
  OBVIOUS
<1> QED
  BY <1>1 DEF ToSet

LEMMA ToSetIn ==
  ASSUME NEW S, NEW q \in Seq(S)
  PROVE  ToSet(q) \subseteq S
BY DEF ToSet

LEMMA EmptySet == ToSet(<<>>) = {}
BY DEF ToSet

LEMMA ElementOf ==
  ASSUME NEW S, NEW q \in Seq(S), NEW i \in DOMAIN q
  PROVE  q[i] \in S
OBVIOUS

LEMMA TypedFlight ==
  ASSUME NEW x \in Flight
  PROVE  /\ x.events \in Seq(Events) /\ x.attempt \in Nat /\ x.attempt <= MaxRetries + 1
         /\ x.at \in {"sent", "backoff", "done"} /\ x.answer \in Answers
BY DEF Flight

LEMMA TypedState ==
  TypeOK =>
    /\ tracked \in 0 .. MaxEvents /\ queue \in Seq(Events)
    /\ flights \in Seq(Flight)
    /\ promise \in [Events -> {"none", "pending", "resolved", "rejected"}]
    /\ accepted \in [Events -> Nat] /\ lost \in [Events -> Nat]
BY DEF TypeOK, Flight

\* What the type says of one batch.
LEMMA FlightOf ==
  ASSUME TypeOK, NEW f \in DOMAIN flights
  PROVE  /\ flights[f] \in Flight
         /\ flights[f].events \in Seq(Events)
         /\ flights[f].attempt \in Nat /\ flights[f].attempt <= MaxRetries + 1
         /\ flights[f].answer \in Answers
         /\ Batch(f) \subseteq Events
<1>1. flights[f] \in Flight
  BY TypedState, ElementOf
<1>2. /\ flights[f].events \in Seq(Events)
      /\ flights[f].attempt \in Nat /\ flights[f].attempt <= MaxRetries + 1
      /\ flights[f].answer \in Answers
  BY <1>1, TypedFlight
<1> QED
  BY <1>1, <1>2, ToSetIn DEF Batch

LEMMA ReplaceFlight ==
  ASSUME flights \in Seq(Flight), NEW f \in DOMAIN flights, NEW x \in Flight,
         flights' = [flights EXCEPT ![f] = x]
  PROVE  /\ flights' \in Seq(Flight) /\ DOMAIN flights' = DOMAIN flights
         /\ flights'[f] = x
         /\ \A g \in DOMAIN flights \ {f} : flights'[g] = flights[g]
OBVIOUS

\* The batches after a take: the old ones and one that holds q.
LEMMA AppendFlight ==
  ASSUME flights \in Seq(Flight), NEW x \in Flight, flights' = Append(flights, x)
  PROVE  /\ flights' \in Seq(Flight)
         /\ DOMAIN flights' = DOMAIN flights \cup {Len(flights) + 1}
         /\ Len(flights) + 1 \notin DOMAIN flights
         /\ flights'[Len(flights) + 1] = x
         /\ \A f \in DOMAIN flights : flights'[f] = flights[f]
OBVIOUS

-----------------------------------------------------------------------------
LEMMA Derived == Core => EveryPendingIsSomewhere /\ AcceptedAsAnswered
<1> SUFFICES ASSUME Core PROVE EveryPendingIsSomewhere /\ AcceptedAsAnswered
  OBVIOUS
<1> USE DEF Core
<1>0. /\ tracked \in 0 .. MaxEvents /\ flights \in Seq(Flight) /\ queue \in Seq(Events)
      /\ promise \in [Events -> {"none", "pending", "resolved", "rejected"}]
      /\ accepted \in [Events -> Nat] /\ lost \in [Events -> Nat]
  BY TypedState
<1>1. ASSUME NEW e \in Events
      PROVE  LET holders == {f \in DOMAIN flights : e \in InFlight(f)} IN
             promise[e] = "pending" <=>
               \/ e \in ToSet(queue) /\ holders = {}
               \/ e \notin ToSet(queue) /\ \E f \in DOMAIN flights : holders = {f}
  <2> DEFINE holders == {f \in DOMAIN flights : e \in InFlight(f)}
  <2>1. CASE e \in ToSet(queue)
    BY <2>1 DEF QueuedIsPending, InFlight
  <2>2. CASE e \notin ToSet(queue) /\ \E f \in DOMAIN flights : e \in Batch(f)
    <3> PICK f \in DOMAIN flights : e \in Batch(f)
      BY <2>2
    <3>1. \A g \in DOMAIN flights : e \in Batch(g) => g = f
      BY DEF BatchesApart
    <3>2. promise[e] = PromiseOf(f)
      BY DEF BatchAgrees
    <3>3. CASE flights[f].at = "done"
      <4>1. holders = {}
        BY <3>1, <3>3 DEF InFlight
      <4> QED
        BY <4>1, <3>2, <3>3, <2>2 DEF PromiseOf
    <3>4. CASE flights[f].at # "done"
      <4>1. holders = {f}
        BY <3>1, <3>4 DEF InFlight
      <4> QED
        BY <4>1, <3>2, <3>4, <2>2 DEF PromiseOf
    <3> QED
      BY <3>3, <3>4
  <2>3. CASE e \notin ToSet(queue) /\ \A f \in DOMAIN flights : e \notin Batch(f)
    <3>1. promise[e] = "none"
      BY <2>3 DEF TrackedIsPlaced
    <3>2. holders = {}
      BY <2>3 DEF InFlight
    <3> QED
      BY <3>1, <3>2, <2>3
  <2> QED
    BY <2>1, <2>2, <2>3
<1>2. ASSUME NEW e \in Events
      PROVE  /\ accepted[e] = lost[e] + (IF promise[e] = "resolved" THEN 1 ELSE 0)
             /\ accepted[e] <= MaxRetries + 1
  <2>1. CASE e \in ToSet(queue) \/ e > tracked
    BY <2>1, <1>0 DEF QueuedIsPending, TrackedIsPlaced, Untouched
  <2>2. CASE \E f \in DOMAIN flights : e \in Batch(f)
    <3> PICK f \in DOMAIN flights : e \in Batch(f)
      BY <2>2
    <3>1. /\ flights[f].attempt \in Nat /\ flights[f].attempt <= MaxRetries + 1
          /\ flights[f].attempt <= MaxRetries \/ PromiseOf(f) = "rejected"
          /\ promise[e] = PromiseOf(f)
          /\ lost[e] <= flights[f].attempt
          /\ accepted[e] = lost[e] + (IF promise[e] = "resolved" THEN 1 ELSE 0)
      BY FlightOf DEF BatchAgrees
    <3>2. lost[e] \in Nat /\ accepted[e] \in Nat
      BY <1>0
    <3> QED
      BY <3>1, <3>2
  <2> QED
    BY <2>1, <2>2, <1>0 DEF TrackedIsPlaced, Events
<1> QED
  BY <1>1, <1>2 DEF EveryPendingIsSomewhere, AcceptedAsAnswered

-----------------------------------------------------------------------------
LEMMA CoreInit == Init => Core
<1> SUFFICES ASSUME Init PROVE Core
  OBVIOUS
<1>1. DOMAIN flights = {} /\ ToSet(queue) = {}
  BY EmptySet DEF Init
<1>2. TypeOK
  <2>1. /\ queue \in Seq(Events)
        /\ flights \in Seq([events : Seq(Events), attempt : 0 .. MaxRetries + 1,
                            at : {"sent", "backoff", "done"}, answer : Answers])
    BY DEF Init
  <2>2. tracked = 0 /\ timer = FALSE
    BY DEF Init
  <2>4. tracked \in 0 .. MaxEvents
    BY <2>2
  <2>5. timer \in BOOLEAN
    BY <2>2
  <2>6. promise \in [Events -> {"none", "pending", "resolved", "rejected"}]
    BY DEF Init
  <2>3. accepted \in [Events -> Nat] /\ lost \in [Events -> Nat]
    BY DEF Init
  <2> QED
    BY <2>1, <2>3, <2>4, <2>5, <2>6 DEF TypeOK
<1>3. TimerGuardsQueue
  BY DEF Init, TimerGuardsQueue
<1> QED
  BY <1>1, <1>2, <1>3 DEF Core, Init, TrackedIsPlaced, QueuedIsPending, BatchesApart,
                          BatchAgrees, Untouched, Events

\* Taking q as a batch, where q is what the queue holds after an event was, or
\* was not, pushed: everything that is said of the queue is then said of it.
LEMMA TakeCore ==
  ASSUME Core, NEW q \in Seq(Events), Take(q),
         tracked' \in 0 .. MaxEvents, UNCHANGED <<accepted, lost>>,
         promise' \in [Events -> {"none", "pending", "resolved", "rejected"}],
         \A e \in ToSet(q) :
            /\ promise'[e] = "pending" /\ Untouched(e)
            /\ \A f \in DOMAIN flights : e \notin Batch(f),
         \A e \in Events \ ToSet(q) : promise'[e] = promise[e],
         \A e \in Events :
            IF e > tracked' THEN e > tracked /\ e \notin ToSet(q)
            ELSE e \in ToSet(q) \/ \E f \in DOMAIN flights : e \in Batch(f)
  PROVE  Core'
<1> DEFINE x == [events |-> q, attempt |-> 0, at |-> "sent", answer |-> "none"]
<1> PICK n : n = Len(flights) + 1
  OBVIOUS
<1>0. /\ queue' = <<>> /\ timer' = FALSE /\ flights' = Append(flights, x)
  BY DEF Take, QueueAfterTake, TimerAfterTake
<1>1. x \in Flight /\ flights \in Seq(Flight)
  BY TypedState DEF Core, Flight, Answers
<1>2. /\ flights' \in Seq(Flight)
      /\ DOMAIN flights' = DOMAIN flights \cup {n}
      /\ n \notin DOMAIN flights
      /\ flights'[n] = x
      /\ \A f \in DOMAIN flights : flights'[f] = flights[f]
  BY <1>0, <1>1, AppendFlight
<1>3. /\ Batch(n)' = ToSet(q)
      /\ \A f \in DOMAIN flights : Batch(f)' = Batch(f) /\ PromiseOf(f)' = PromiseOf(f)
  BY <1>2 DEF Batch, PromiseOf
<1>4. ToSet(queue') = {}
  BY <1>0, EmptySet
<1>5. TypeOK' /\ TimerGuardsQueue'
  <2>1. flights' \in Seq([events : Seq(Events), attempt : 0 .. MaxRetries + 1,
                          at : {"sent", "backoff", "done"}, answer : Answers])
    BY <1>2 DEF Flight
  <2>2. queue' = <<>> /\ timer' = FALSE
    BY <1>0
  <2>3. queue' \in Seq(Events)
    BY <2>2
  <2>4. timer' \in BOOLEAN
    BY <2>2
  <2> QED
    BY <2>1, <2>2, <2>3, <2>4 DEF Core, TypeOK, TimerGuardsQueue
<1>6. TrackedIsPlaced'
  BY <1>2, <1>3, <1>4 DEF Core, TrackedIsPlaced, Untouched
<1>7. QueuedIsPending'
  BY <1>4 DEF QueuedIsPending
<1>8. BatchesApart'
  BY <1>2, <1>3 DEF Core, BatchesApart
<1>9. BatchAgrees'
  <2>1. ASSUME NEW f \in DOMAIN flights
        PROVE  /\ (flights[f].attempt <= MaxRetries \/ PromiseOf(f) = "rejected")'
               /\ \A e \in Batch(f)' :
                   /\ promise'[e] = PromiseOf(f)'
                   /\ lost'[e] <= flights'[f].attempt
                   /\ accepted'[e] = lost'[e] + (IF promise'[e] = "resolved" THEN 1 ELSE 0)
    <3>1. Batch(f) \subseteq Events \ ToSet(q)
      BY FlightOf DEF Core
    <3> QED
      BY <3>1, <1>2, <1>3 DEF Core, BatchAgrees
  <2>2. /\ flights'[n].attempt <= MaxRetries
        /\ \A e \in Batch(n)' :
            /\ promise'[e] = PromiseOf(n)'
            /\ lost'[e] <= flights'[n].attempt
            /\ accepted'[e] = lost'[e] + (IF promise'[e] = "resolved" THEN 1 ELSE 0)
    BY <1>2, <1>3 DEF PromiseOf, Untouched
  <2> QED
    BY <2>1, <2>2, <1>2 DEF BatchAgrees
<1> QED
  BY <1>5, <1>6, <1>7, <1>8, <1>9 DEF Core

\* The queue as it is: the timer, flush() and close().
LEMMA TakeQueue ==
  ASSUME Core, Take(queue), UNCHANGED <<tracked, promise, accepted, lost>>
  PROVE  Core'
BY TakeCore DEF Core, TypeOK, QueuedIsPending, TrackedIsPlaced

\* An event is pushed, and taken at once with what waits before it, or not.
LEMMA TrackCore == Core /\ Track => Core'
<1> SUFFICES ASSUME Core, Track PROVE Core'
  OBVIOUS
<1> DEFINE d == tracked + 1
           q == Append(queue, d)
<1>0. /\ tracked \in 0 .. MaxEvents /\ queue \in Seq(Events) /\ flights \in Seq(Flight)
      /\ promise \in [Events -> {"none", "pending", "resolved", "rejected"}]
  BY TypedState DEF Core
<1>1. /\ d \in Events /\ d > tracked /\ tracked' = d
      /\ promise' = [promise EXCEPT ![d] = "pending"]
      /\ UNCHANGED <<accepted, lost>>
  BY <1>0 DEF Track, Events
<1>2. q \in Seq(Events) /\ q # <<>> /\ ToSet(q) = ToSet(queue) \cup {d}
  BY <1>0, <1>1, AppendSet
<1>3. /\ promise' \in [Events -> {"none", "pending", "resolved", "rejected"}]
      /\ promise'[d] = "pending"
      /\ \A e \in Events \ {d} : promise'[e] = promise[e]
  BY <1>0, <1>1
<1>4. ToSet(queue) \subseteq Events /\ d \notin ToSet(queue)
  BY <1>0, <1>1, ToSetIn DEF Core, TrackedIsPlaced
<1>5. \A e \in ToSet(q) :
         /\ promise'[e] = "pending" /\ Untouched(e)
         /\ \A f \in DOMAIN flights : e \notin Batch(f)
  BY <1>1, <1>2, <1>3, <1>4 DEF Core, TrackedIsPlaced, QueuedIsPending
<1>6. \A e \in Events :
         IF e > tracked' THEN e > tracked /\ e \notin ToSet(q)
         ELSE e \in ToSet(q) \/ \E f \in DOMAIN flights : e \in Batch(f)
  <2> SUFFICES ASSUME NEW e \in Events
               PROVE  IF e > d THEN e > tracked /\ e \notin ToSet(q)
                      ELSE e \in ToSet(q) \/ \E f \in DOMAIN flights : e \in Batch(f)
    BY <1>1
  <2>1. CASE e > d
    BY <2>1, <1>0, <1>2 DEF Core, TrackedIsPlaced, Events
  <2>2. CASE e = d
    BY <2>2, <1>0, <1>2
  <2>3. CASE e < d
    BY <2>3, <1>0, <1>2 DEF Core, TrackedIsPlaced, Events
  <2> QED
    BY <2>1, <2>2, <2>3, <1>0 DEF Events
<1> HIDE DEF d, q
<1>7. CASE Take(q)
  BY <1>1, <1>2, <1>3, <1>4, <1>5, <1>6, <1>7, TakeCore DEF Events
<1>8. CASE queue' = q /\ timer' = TRUE /\ UNCHANGED flights
  <2>1. \A f \in DOMAIN flights : Batch(f)' = Batch(f) /\ PromiseOf(f)' = PromiseOf(f)
    BY <1>8 DEF Batch, PromiseOf
  <2>2. TypeOK' /\ TimerGuardsQueue'
    <3>1. tracked' \in 0 .. MaxEvents
      BY <1>1 DEF Events
    <3> QED
      BY <3>1, <1>1, <1>2, <1>3, <1>8 DEF Core, TypeOK, TimerGuardsQueue
  <2>3. TrackedIsPlaced'
    <3> SUFFICES ASSUME NEW e \in Events
                 PROVE  IF e > tracked'
                        THEN /\ promise'[e] = "none" /\ Untouched(e)'
                             /\ e \notin ToSet(q)
                             /\ \A f \in DOMAIN flights : e \notin Batch(f)
                        ELSE e \in ToSet(q) \/ \E f \in DOMAIN flights : e \in Batch(f)
      BY <1>8, <2>1 DEF TrackedIsPlaced
    <3>1. CASE e > tracked'
      <4>1. e > tracked /\ e \notin ToSet(q) /\ e # d
        BY <3>1, <1>1, <1>2, <1>6
      <4>2. /\ promise[e] = "none" /\ Untouched(e)
            /\ \A f \in DOMAIN flights : e \notin Batch(f)
        BY <4>1 DEF Core, TrackedIsPlaced
      <4>3. promise'[e] = "none" /\ Untouched(e)'
        BY <4>1, <4>2, <1>1, <1>3 DEF Untouched
      <4> QED
        BY <3>1, <4>1, <4>2, <4>3
    <3>2. CASE ~(e > tracked')
      BY <3>2, <1>6
    <3> QED
      BY <3>1, <3>2
  <2>4. QueuedIsPending'
    BY <2>1, <1>1, <1>5, <1>8 DEF QueuedIsPending, Untouched
  <2>5. BatchesApart'
    BY <2>1, <1>8 DEF Core, BatchesApart
  <2>6. BatchAgrees'
    <3>1. \A f \in DOMAIN flights : Batch(f) \subseteq Events \ {d}
      BY FlightOf, <1>2, <1>5 DEF Core
    <3> QED
      BY <3>1, <2>1, <1>1, <1>3, <1>8 DEF Core, BatchAgrees
  <2> QED
    BY <2>2, <2>3, <2>4, <2>5, <2>6 DEF Core
<1> QED
  BY <1>7, <1>8 DEF Track, Armed, d, q

\* An answer: only the promises and the counters of its batch change.
LEMMA AnswerCore ==
  ASSUME Core, NEW f \in DOMAIN flights, NEW a \in Answers \ {"none"}, Answer(f, a)
  PROVE  Core'
<1> DEFINE es == Batch(f)
           n == flights[f].attempt + 1
<1>0. /\ flights \in Seq(Flight) /\ flights[f] \in Flight
      /\ promise \in [Events -> {"none", "pending", "resolved", "rejected"}]
      /\ accepted \in [Events -> Nat] /\ lost \in [Events -> Nat]
  BY TypedState, FlightOf DEF Core
<1>1. es \subseteq Events /\ flights[f].attempt \in Nat
  BY FlightOf DEF Core
<1>2. /\ flights[f].at = "sent" /\ UNCHANGED <<tracked, queue, timer>>
      /\ accepted' = IF a \in {"ok", "lost"} THEN Bump(accepted, es) ELSE accepted
      /\ lost' = IF a = "lost" THEN Bump(lost, es) ELSE lost
  BY DEF Answer, Batch
<1>3. \/ /\ a = "ok"
         /\ flights' = [flights EXCEPT ![f].at = "done", ![f].answer = a]
         /\ promise' = Settle(es, "resolved")
      \/ /\ a # "ok" /\ n > MaxRetries
         /\ flights' = [flights EXCEPT ![f].at = "done", ![f].answer = a, ![f].attempt = n]
         /\ promise' = Settle(es, "rejected")
      \/ /\ a # "ok" /\ n <= MaxRetries
         /\ flights' = [flights EXCEPT ![f].at = "backoff", ![f].answer = a, ![f].attempt = n]
         /\ promise' = promise
  <2>1. CASE a = "ok"
    BY <2>1 DEF Answer, Batch
  <2>2. CASE a # "ok" /\ GivesUp(n)
    BY <2>2, Zenon DEF Answer, GivesUp, Batch
  <2>3. CASE a # "ok" /\ ~GivesUp(n)
    <3>1. /\ flights' = [flights EXCEPT ![f].at = "backoff", ![f].answer = a, ![f].attempt = n]
          /\ promise' = promise
      BY <2>3 DEF Answer
    <3>2. n <= MaxRetries
      BY <2>3, <1>1 DEF GivesUp
    <3> QED
      BY <2>3, <3>1, <3>2
  <2> QED
    BY <2>1, <2>2, <2>3
<1>4. /\ flights[f].attempt \in Nat /\ flights[f].attempt <= MaxRetries
      /\ PromiseOf(f) = "pending"
      /\ \A e \in es : promise[e] = "pending" /\ lost[e] <= flights[f].attempt
                       /\ accepted[e] = lost[e]
  BY <1>0, <1>1, <1>2 DEF Core, BatchAgrees, PromiseOf
<1>5. /\ flights' \in Seq(Flight) /\ DOMAIN flights' = DOMAIN flights
      /\ \A g \in DOMAIN flights \ {f} : flights'[g] = flights[g]
      /\ flights'[f].events = flights[f].events
      /\ flights'[f].attempt = IF a = "ok" THEN flights[f].attempt ELSE n
      /\ flights'[f].at = IF a = "ok" \/ n > MaxRetries THEN "done" ELSE "backoff"
      /\ flights'[f].answer = a
  <2>1. CASE a = "ok"
    <3>1. flights' = [flights EXCEPT ![f] = [flights[f] EXCEPT !.at = "done", !.answer = a]]
      BY <1>0, <1>3, <2>1
    <3>2. [flights[f] EXCEPT !.at = "done", !.answer = a] \in Flight
      BY <1>0 DEF Flight
    <3> HIDE DEF n
    <3> QED
      BY <3>1, <3>2, <1>0, <2>1, ReplaceFlight DEF Flight
  <2>2. CASE a # "ok"
    <3> PICK where : where = IF n > MaxRetries THEN "done" ELSE "backoff"
      OBVIOUS
    <3>0. n \in 0 .. MaxRetries + 1 /\ where \in {"sent", "backoff", "done"} /\ a \in Answers
      BY <1>4
    <3> HIDE DEF n
    <3>1. flights' = [flights EXCEPT ![f] =
                        [flights[f] EXCEPT !.at = where, !.answer = a, !.attempt = n]]
      <4>1. CASE n > MaxRetries
        <5>1. ~(n <= MaxRetries)
          BY <4>1, <1>4 DEF n
        <5>2. flights' = [flights EXCEPT ![f].at = "done", ![f].answer = a, ![f].attempt = n]
          BY <5>1, <1>3, <2>2
        <5> QED
          BY <4>1, <5>2, <1>0
      <4>2. CASE ~(n > MaxRetries)
        BY <4>2, <1>0, <1>3, <2>2
      <4> QED
        BY <4>1, <4>2
    <3>2. [flights[f] EXCEPT !.at = where, !.answer = a, !.attempt = n] \in Flight
      BY <1>0, <3>0 DEF Flight
    <3> QED
      BY <3>1, <3>2, <1>0, <2>2, ReplaceFlight DEF Flight
  <2> QED
    BY <2>1, <2>2
<1>6. \A g \in DOMAIN flights :
         /\ Batch(g)' = Batch(g)
         /\ g # f => PromiseOf(g)' = PromiseOf(g)
  BY <1>5 DEF Batch, PromiseOf
<1>7. PromiseOf(f)' = IF a = "ok" THEN "resolved"
                      ELSE IF n > MaxRetries THEN "rejected" ELSE "pending"
  BY <1>5 DEF PromiseOf
<1>8. /\ promise' \in [Events -> {"none", "pending", "resolved", "rejected"}]
      /\ \A e \in Events : promise'[e] = IF e \in es THEN PromiseOf(f)' ELSE promise[e]
  BY <1>0, <1>1, <1>3, <1>4, <1>7 DEF Settle
<1>9. /\ accepted' \in [Events -> Nat] /\ lost' \in [Events -> Nat]
      /\ \A e \in Events \ es : accepted'[e] = accepted[e] /\ lost'[e] = lost[e]
      /\ \A e \in es : lost'[e] = lost[e] + (IF a = "lost" THEN 1 ELSE 0)
      /\ \A e \in es : accepted'[e] = accepted[e] + (IF a \in {"ok", "lost"} THEN 1 ELSE 0)
  <2> HIDE DEF es
  <2>1. ASSUME NEW count \in [Events -> Nat]
        PROVE  /\ Bump(count, es) \in [Events -> Nat]
               /\ \A e \in Events \ es : Bump(count, es)[e] = count[e]
               /\ \A e \in es : Bump(count, es)[e] = count[e] + 1
    BY ONLY <1>1 DEF Bump
  <2>2. \A e \in es : lost[e] \in Nat /\ accepted[e] \in Nat
    BY ONLY <1>0, <1>1
  <2>3. /\ lost' \in [Events -> Nat] /\ \A e \in Events \ es : lost'[e] = lost[e]
        /\ \A e \in es : lost'[e] = lost[e] + (IF a = "lost" THEN 1 ELSE 0)
    <3>1. CASE a = "lost"
      BY ONLY <3>1, <1>0, <1>2, <2>1
    <3>2. CASE a # "lost"
      BY ONLY <3>2, <1>0, <1>2, <2>2
    <3> QED
      BY <3>1, <3>2
  <2>4. /\ accepted' \in [Events -> Nat] /\ \A e \in Events \ es : accepted'[e] = accepted[e]
        /\ \A e \in es : accepted'[e] = accepted[e] + (IF a \in {"ok", "lost"} THEN 1 ELSE 0)
    <3>1. CASE a \in {"ok", "lost"}
      BY ONLY <3>1, <1>0, <1>2, <2>1
    <3>2. CASE a \notin {"ok", "lost"}
      BY ONLY <3>2, <1>0, <1>2, <2>2
    <3> QED
      BY <3>1, <3>2
  <2> QED
    BY <2>3, <2>4
<1> HIDE DEF es, n
<1>10. TypeOK' /\ TimerGuardsQueue'
  <2>1. flights' \in Seq([events : Seq(Events), attempt : 0 .. MaxRetries + 1,
                          at : {"sent", "backoff", "done"}, answer : Answers])
    BY <1>5 DEF Flight
  <2> QED
    BY <2>1, <1>2, <1>8, <1>9 DEF Core, TypeOK, TimerGuardsQueue
<1>11. \A e \in ToSet(queue) : e \in Events \ es
  <2>1. queue \in Seq(Events)
    BY DEF Core, TypeOK
  <2> QED
    BY <2>1, ToSetIn DEF Core, QueuedIsPending, es
<1>12. TrackedIsPlaced'
  <2>1. \A e \in Events : e > tracked => e \notin es
    BY DEF Core, TrackedIsPlaced, es
  <2> QED
    BY <2>1, <1>2, <1>5, <1>6, <1>8, <1>9 DEF Core, TrackedIsPlaced, Untouched
<1>13. QueuedIsPending'
  <2> SUFFICES ASSUME NEW e \in ToSet(queue)
               PROVE  /\ promise'[e] = "pending" /\ Untouched(e)'
                      /\ \A g \in DOMAIN flights : e \notin Batch(g)
    BY <1>2, <1>5, <1>6 DEF QueuedIsPending
  <2> QED
    BY <1>8, <1>9, <1>11 DEF Core, QueuedIsPending, Untouched
<1>14. BatchesApart'
  BY <1>5, <1>6 DEF Core, BatchesApart
<1>15. BatchAgrees'
  <2> SUFFICES ASSUME NEW g \in DOMAIN flights
               PROVE  /\ flights'[g].attempt <= MaxRetries \/ PromiseOf(g)' = "rejected"
                      /\ \A e \in Batch(g) :
                          /\ promise'[e] = PromiseOf(g)'
                          /\ lost'[e] <= flights'[g].attempt
                          /\ accepted'[e] =
                                lost'[e] + (IF promise'[e] = "resolved" THEN 1 ELSE 0)
    BY <1>5, <1>6 DEF BatchAgrees
  <2>1. CASE g # f
    <3>1. Batch(g) \cap es = {}
      BY <2>1 DEF Core, BatchesApart, es
    <3>2. Batch(g) \subseteq Events
      BY FlightOf DEF Core
    <3>3. /\ flights'[g] = flights[g] /\ PromiseOf(g)' = PromiseOf(g)
          /\ \A e \in Batch(g) :
                promise'[e] = promise[e] /\ accepted'[e] = accepted[e] /\ lost'[e] = lost[e]
      BY <2>1, <3>1, <3>2, <1>5, <1>6, <1>8, <1>9
    <3> QED
      BY <3>3 DEF Core, BatchAgrees
  <2>2. CASE g = f
    <3>1. flights'[f].attempt <= MaxRetries \/ PromiseOf(f)' = "rejected"
      BY <1>0, <1>4, <1>5, <1>7 DEF n
    <3>2. ASSUME NEW e \in es
          PROVE  /\ promise'[e] = PromiseOf(f)'
                 /\ lost'[e] <= flights'[f].attempt
                 /\ accepted'[e] = lost'[e] + (IF promise'[e] = "resolved" THEN 1 ELSE 0)
      <4>1. e \in Events /\ lost[e] \in Nat
        BY <1>0, <1>1 DEF es
      <4>2. CASE a = "ok"
        BY <4>1, <4>2, <1>1, <1>4, <1>5, <1>7, <1>8, <1>9
      <4>3. CASE a # "ok"
        <5>1. promise'[e] = PromiseOf(f)' /\ promise'[e] # "resolved"
          BY <4>1, <4>3, <1>7, <1>8
        <5>2. lost'[e] <= flights'[f].attempt /\ accepted'[e] = lost'[e]
          <6>1. CASE a = "lost"
            <7>1. lost'[e] = lost[e] + 1 /\ accepted'[e] = accepted[e] + 1
              BY <6>1, <1>9
            <7>2. flights'[f].attempt = flights[f].attempt + 1
              BY <6>1, <1>5 DEF n
            <7>3. lost[e] <= flights[f].attempt /\ accepted[e] = lost[e]
              BY <1>4
            <7> QED
              BY ONLY <7>1, <7>2, <7>3, <4>1, <1>1
          <6>2. CASE a # "lost"
            BY <6>2, <4>1, <4>3, <1>4, <1>5, <1>9 DEF n
          <6> QED
            BY <6>1, <6>2
        <5> QED
          BY <5>1, <5>2, <4>1, <1>9
      <4> QED
        BY <4>2, <4>3
    <3> QED
      BY <2>2, <3>1, <3>2 DEF es
  <2> QED
    BY <2>1, <2>2
<1> QED
  BY <1>10, <1>12, <1>13, <1>14, <1>15 DEF Core

LEMMA RetryCore ==
  ASSUME Core, NEW f \in DOMAIN flights, Retry(f)
  PROVE  Core'
<1>0. flights \in Seq(Flight) /\ flights[f] \in Flight /\ flights[f].at = "backoff"
  BY TypedState, FlightOf DEF Core, Retry
<1>1. /\ flights' \in Seq(Flight) /\ DOMAIN flights' = DOMAIN flights
      /\ \A g \in DOMAIN flights :
            /\ flights'[g].events = flights[g].events
            /\ flights'[g].attempt = flights[g].attempt
            /\ flights'[g].answer = flights[g].answer
            /\ flights'[g].at = "done" <=> flights[g].at = "done"
      /\ UNCHANGED <<tracked, queue, timer, promise, accepted, lost>>
  <2>1. flights' = [flights EXCEPT ![f] = [flights[f] EXCEPT !.at = "sent"]]
    BY <1>0 DEF Retry
  <2>2. [flights[f] EXCEPT !.at = "sent"] \in Flight
    BY <1>0 DEF Flight
  <2>3. /\ flights' \in Seq(Flight) /\ DOMAIN flights' = DOMAIN flights
        /\ flights'[f] = [flights[f] EXCEPT !.at = "sent"]
        /\ \A g \in DOMAIN flights \ {f} : flights'[g] = flights[g]
    BY <2>1, <2>2, <1>0, ReplaceFlight
  <2>4. /\ flights'[f].events = flights[f].events
        /\ flights'[f].attempt = flights[f].attempt
        /\ flights'[f].answer = flights[f].answer
        /\ flights'[f].at = "sent"
    BY <2>3, <1>0 DEF Flight
  <2> QED
    BY <2>3, <2>4, <1>0 DEF Retry
<1>2. \A g \in DOMAIN flights : Batch(g)' = Batch(g) /\ PromiseOf(g)' = PromiseOf(g)
  BY <1>1 DEF Batch, PromiseOf
<1>3. TypeOK'
  <2>1. flights' \in Seq([events : Seq(Events), attempt : 0 .. MaxRetries + 1,
                          at : {"sent", "backoff", "done"}, answer : Answers])
    BY <1>1 DEF Flight
  <2> QED
    BY <2>1, <1>1 DEF Core, TypeOK
<1>4. TimerGuardsQueue' /\ QueuedIsPending' /\ TrackedIsPlaced' /\ BatchesApart'
  BY <1>1, <1>2 DEF Core, TimerGuardsQueue, TrackedIsPlaced, QueuedIsPending, BatchesApart,
                    Untouched
<1>5. BatchAgrees'
  BY <1>1, <1>2 DEF Core, BatchAgrees
<1> QED
  BY <1>3, <1>4, <1>5 DEF Core

LEMMA CoreStutter == Core /\ UNCHANGED vars => Core'
<1> SUFFICES ASSUME Core, UNCHANGED vars PROVE Core'
  OBVIOUS
<1>1. UNCHANGED <<tracked, queue, timer, flights, promise, accepted, lost>>
  BY DEF vars
<1>2. \A f : Batch(f)' = Batch(f) /\ PromiseOf(f)' = PromiseOf(f)
  BY <1>1 DEF Batch, PromiseOf
<1>3. TypeOK' /\ TimerGuardsQueue'
  BY <1>1 DEF Core, TypeOK, TimerGuardsQueue
<1>4. TrackedIsPlaced' /\ QueuedIsPending' /\ BatchesApart' /\ BatchAgrees'
  BY <1>1, <1>2 DEF Core, TrackedIsPlaced, QueuedIsPending, BatchesApart, BatchAgrees, Untouched
<1> QED
  BY <1>3, <1>4 DEF Core

LEMMA CoreStep == Core /\ [Next]_vars => Core'
<1> SUFFICES ASSUME Core, [Next]_vars PROVE Core'
  OBVIOUS
<1>1. CASE Track
  BY <1>1, TrackCore
<1>2. CASE TimerFires
  BY <1>2, TakeQueue DEF TimerFires, Core, TimerGuardsQueue
<1>3. CASE Flush
  BY <1>3, TakeQueue DEF Flush
<1>4. CASE Close
  <2>1. CASE queue # <<>>
    BY <1>4, <2>1, TakeQueue DEF Close
  <2>2. CASE queue = <<>>
    <3>1. UNCHANGED vars
      BY <1>4, <2>2 DEF Close, Core, TypeOK, TimerGuardsQueue, vars
    <3> QED
      BY <3>1, CoreStutter
  <2> QED
    BY <2>1, <2>2
<1>5. ASSUME NEW f \in DOMAIN flights, Retry(f) PROVE Core'
  BY <1>5, RetryCore
<1>6. ASSUME NEW f \in DOMAIN flights, NEW a \in Answers \ {"none"}, Answer(f, a) PROVE Core'
  BY <1>6, AnswerCore
<1>7. CASE UNCHANGED vars
  BY <1>7, CoreStutter
<1> QED
  BY <1>1, <1>2, <1>3, <1>4, <1>5, <1>6, <1>7 DEF Next

\* The invariant holds in every reachable state: a queue with events has its
\* timer armed, a tracked event is in the queue or in one batch for good, and
\* what its caller is told is what the API answered.
THEOREM Invariant == Spec => []IInv
<1>1. Core => IInv
  BY Derived DEF Core, IInv
<1> QED
  BY CoreInit, CoreStep, <1>1, PTL DEF Spec

\* No event is forgotten, none is sent by two batches.
THEOREM EventsArePlaced == Spec => []EveryPendingIsSomewhere
<1>1. Core => EveryPendingIsSomewhere
  BY Derived
<1> QED
  BY CoreInit, CoreStep, <1>1, PTL DEF Spec

\* A caller is told the truth, and at most one copy is sent per attempt.
THEOREM CallersAreToldTheTruth == Spec => []AcceptedAsAnswered
<1>1. Core => AcceptedAsAnswered
  BY Derived
<1> QED
  BY CoreInit, CoreStep, <1>1, PTL DEF Spec

-----------------------------------------------------------------------------
(* The parts of the write path are the modules the theorems are about.     *)

LEMMA Assumptions ==
  /\ P!IngestAssumption /\ G!ConsumerAssumption
  /\ IsFiniteSet(Workers) /\ MaxFaults \in Nat
<1> USE WritePathAssumption
<1>1. P!IngestAssumption
  BY DEF P!IngestAssumption, Attempts
<1>2. MaxEvents * (MaxRetries + 1) \in Nat
  OBVIOUS
<1>3. G!IsFiniteSet({Partition}) /\ G!IsFiniteSet(Workers)
  BY FS_Singleton DEF G!IsFiniteSet, IsFiniteSet
<1>4. G!ConsumerAssumption
  BY <1>2, <1>3 DEF G!ConsumerAssumption
<1> QED
  BY <1>1, <1>4

USE WritePathAssumption

LEMMA ApiInit == Api!Init => P!Init
BY DEF Api!Init, P!Init

\* The steps of the API.
LEMMA ApiActions ==
  /\ \A r \in Attempts, p \in Processes : Api!Arrive(r, p) => P!Arrive(r, p)
  /\ \A r \in Attempts : Api!Handle(r) => P!Handle(r)
  /\ \A p \in Processes :
      /\ Api!Deliver(p) => P!Deliver(p)
      /\ Api!DeliveryFails(p) => P!DeliveryFails(p)
      /\ Api!Crash(p) => P!Crash(p)
  /\ Api!Revoke => P!Revoke
<1> USE DEF Api!Goto, P!Goto, Api!Respond, P!Respond, Api!Awaits, P!Awaits,
            Api!handlers, P!handlers
<1>1. ASSUME NEW r \in Attempts, NEW p \in Processes, Api!Arrive(r, p)
      PROVE  P!Arrive(r, p)
  BY <1>1 DEF Api!Arrive, P!Arrive
<1>2. ASSUME NEW r \in Attempts, Api!Handle(r)
      PROVE  P!Handle(r)
  <2>1. CASE Api!Lookup(r)
    BY <2>1 DEF P!Handle, Api!Lookup, P!Lookup, Api!Found, P!Found
  <2>2. CASE Api!Limit(r)
    BY <2>2 DEF P!Handle, Api!Limit, P!Limit
  <2>3. CASE Api!Send(r)
    BY <2>3 DEF P!Handle, Api!Send, P!Send, Api!Index, P!Index, Api!IsLast, P!IsLast,
                Api!AfterLastSend, P!AfterLastSend, Api!Single, P!Single
  <2>4. CASE Api!Raises(r)
    BY <2>4 DEF P!Handle, Api!Raises, P!Raises
  <2> QED
    BY <1>2, <2>1, <2>2, <2>3, <2>4 DEF Api!Handle
<1>3. ASSUME NEW p \in Processes
      PROVE  /\ Api!Deliver(p) => P!Deliver(p)
             /\ Api!DeliveryFails(p) => P!DeliveryFails(p)
             /\ Api!Crash(p) => P!Crash(p)
  <2>1. Api!Deliver(p) => P!Deliver(p)
    BY DEF Api!Deliver, P!Deliver
  <2>2. Api!DeliveryFails(p) => P!DeliveryFails(p)
    BY DEF Api!DeliveryFails, P!DeliveryFails
  <2>3. Api!Crash(p) => P!Crash(p)
    BY DEF Api!Crash, P!Crash, Api!Serving, P!Serving
  <2> QED
    BY <2>1, <2>2, <2>3
<1>4. Api!Revoke => P!Revoke
  BY DEF Api!Revoke, P!Revoke
<1> QED
  BY <1>1, <1>2, <1>3, <1>4

LEMMA ApiSteps ==
  ASSUME \/ ApiStep
         \/ \E f \in DOMAIN flights : Reaches(f) /\ Attempt(f) \in Attempts
         \/ UNCHANGED api
  PROVE  [P!Next]_P!vars
<1>1. CASE ApiStep
  BY <1>1, ApiActions DEF ApiStep, P!Next
<1>2. CASE \E f \in DOMAIN flights : Reaches(f) /\ Attempt(f) \in Attempts
  BY <1>2, ApiActions DEF Reaches, P!Next
<1>3. CASE UNCHANGED api
  BY <1>3 DEF api, P!vars, P!handlers
<1> QED
  BY <1>1, <1>2, <1>3

LEMMA SumsAgree ==
  ASSUME NEW f
  PROVE  Group!SumFunction(f) = G!SumFunction(f) /\ SumFunction(f) = G!SumFunction(f)
BY DEF SumFunction, SumFunctionOnSet, FoldFunctionOnSet, MapThenFoldSet,
       Group!SumFunction, Group!SumFunctionOnSet, Group!FoldFunctionOnSet, Group!MapThenFoldSet,
       G!SumFunction, G!SumFunctionOnSet, G!FoldFunctionOnSet, G!MapThenFoldSet

LEMMA GroupInit == Group!Init => G!Init
BY DEF Group!Init, G!Init, Group!EmptyBuffer, G!EmptyBuffer, Group!Records, G!Records,
       Group!Offsets, G!Offsets, Group!NoPending, G!NoPending, Group!NoOffset, G!NoOffset

\* The steps of the consumer.
LEMMA GroupActions ==
  ASSUME NEW w \in Workers
  PROVE  /\ Group!JoinGroup(w) => G!JoinGroup(w)
         /\ Group!WorkerStep(w) => G!WorkerStep(w)
         /\ Group!Crash(w) => G!Crash(w)
<1> USE DEF Group!Records, G!Records, Group!Offsets, G!Offsets, Group!WellFormed, G!WellFormed,
            Group!EmptyBuffer, G!EmptyBuffer, Group!NoPending, G!NoPending,
            Group!NoOffset, G!NoOffset, Group!Live, G!Live, Group!Owned, G!Owned,
            Group!Buffered, G!Buffered, Group!HasPending, G!HasPending,
            Group!PendingPartitions, G!PendingPartitions,
            Group!broker, G!broker, Group!tables, G!tables, Group!memory, G!memory,
            Group!counters, G!counters, Group!ProcessEnds, G!ProcessEnds,
            Group!StoreRows, G!StoreRows, Group!Applied, G!Applied,
            Group!CommitOffset, G!CommitOffset,
            Group!RestoredBuffer, G!RestoredBuffer, Group!AfterRaise, G!AfterRaise
<1>1. Group!JoinGroup(w) => G!JoinGroup(w)
  BY DEF Group!JoinGroup, G!JoinGroup, Group!ResumeOffset, G!ResumeOffset
<1>2. Group!Poll(w) => G!Poll(w)
  BY SumsAgree DEF Group!Poll, G!Poll, Group!Fetchable, G!Fetchable, Group!NewRows, G!NewRows,
       Group!LastOffset, G!LastOffset, Group!Max, G!Max, Group!ShouldFlush, G!ShouldFlush,
       Group!SumFunction, Group!SumFunctionOnSet, Group!FoldFunctionOnSet, Group!MapThenFoldSet,
       G!SumFunction, G!SumFunctionOnSet, G!FoldFunctionOnSet, G!MapThenFoldSet
<1>3. Group!InsertOk(w) => G!InsertOk(w)
  BY DEF Group!InsertOk, G!InsertOk
<1>4. Group!InsertRaises(w) => G!InsertRaises(w)
  BY DEF Group!InsertRaises, G!InsertRaises
<1>5. Group!CommitOk(w) => G!CommitOk(w)
  BY DEF Group!CommitOk, G!CommitOk
<1>6. Group!CommitRaises(w) => G!CommitRaises(w)
  BY DEF Group!CommitRaises, G!CommitRaises
<1>7. Group!Start(w) \/ Group!LeaveLoop(w) \/ Group!Close(w) => G!WorkerStep(w)
  BY DEF Group!Start, G!Start, Group!LeaveLoop, G!LeaveLoop, Group!Close, G!Close,
         G!WorkerStep
<1>8. Group!Crash(w) => G!Crash(w)
  BY DEF Group!Crash, G!Crash
<1> QED
  BY <1>1, <1>2, <1>3, <1>4, <1>5, <1>6, <1>7, <1>8 DEF Group!WorkerStep, G!WorkerStep

\* Their invariants.
LEMMA ApiInvariant == P!IInv => Api!IInv
<1> USE DEF P!Events, Api!Events, P!EventsOf, Api!EventsOf, P!Logged, Api!Logged,
            P!Accumulated, Api!Accumulated, P!Single, Api!Single
<1>1. P!TypeOK => Api!TypeOK
  BY DEF P!TypeOK, Api!TypeOK
<1>2. P!SingleAckIsDurable /\ P!AckedIsKept => Api!SingleAckIsDurable /\ Api!AckedIsKept
  BY DEF P!SingleAckIsDurable, Api!SingleAckIsDurable, P!AckedIsKept, Api!AckedIsKept,
         P!ToSet, Api!ToSet
<1>3. P!BodyOrderKept => Api!BodyOrderKept
  BY DEF P!BodyOrderKept, Api!BodyOrderKept, P!Ordered, Api!Ordered
<1>4. P!RefusedLeavesNothing => Api!RefusedLeavesNothing
  BY DEF P!RefusedLeavesNothing, Api!RefusedLeavesNothing, P!ToSet, Api!ToSet
<1>5. P!HandlersAgree => Api!HandlersAgree
  BY DEF P!HandlersAgree, Api!HandlersAgree, P!HandlerAgrees, Api!HandlerAgrees
<1>6. P!SentInOrder => Api!SentInOrder
  BY DEF P!SentInOrder, Api!SentInOrder, P!Ordered, Api!Ordered, P!ToSet, Api!ToSet
<1>7. P!SentIsKept => Api!SentIsKept
  BY DEF P!SentIsKept, Api!SentIsKept, P!ToSet, Api!ToSet
<1> QED
  BY <1>1, <1>2, <1>3, <1>4, <1>5, <1>6, <1>7 DEF P!IInv, Api!IInv

LEMMA GroupInvariant == G!IInv => Group!IInv
<1> USE DEF Group!Records, G!Records, Group!Offsets, G!Offsets, Group!WellFormed, G!WellFormed,
            Group!EmptyBuffer, G!EmptyBuffer, Group!NoOffset, G!NoOffset,
            Group!Owned, G!Owned, Group!PendingPartitions, G!PendingPartitions,
            Group!CommitOffset, G!CommitOffset
<1>1. G!TypeOK => Group!TypeOK
  BY DEF G!TypeOK, Group!TypeOK, G!Locations, Group!Locations
<1>2. G!NoLoss => Group!NoLoss
  BY DEF G!NoLoss, Group!NoLoss
<1>3. G!PassedIsCovered => Group!PassedIsCovered
  BY DEF G!PassedIsCovered, Group!PassedIsCovered, G!Covered, Group!Covered
<1>4. G!CommitsWithEmptyBuffer => Group!CommitsWithEmptyBuffer
  BY DEF G!CommitsWithEmptyBuffer, Group!CommitsWithEmptyBuffer
<1>5. G!WithinLog => Group!WithinLog
  BY DEF G!WithinLog, Group!WithinLog, G!Published, Group!Published, G!Buffered, Group!Buffered
<1>6. G!BuffersInOrder => Group!BuffersInOrder
  BY SumsAgree DEF G!BuffersInOrder, Group!BuffersInOrder, G!BufferedRows, Group!BufferedRows
<1>7. G!CopiesAccounted => Group!CopiesAccounted
  BY SumsAgree DEF G!CopiesAccounted, Group!CopiesAccounted, G!Extra, Group!Extra, G!ToCome,
     Group!ToCome, G!Ways, Group!Ways, G!Undisturbed, Group!Undisturbed, G!Unowned, Group!Unowned,
     G!CopiesAllowed, Group!CopiesAllowed,
     Group!SumFunction, Group!SumFunctionOnSet, Group!FoldFunctionOnSet, Group!MapThenFoldSet,
     G!SumFunction, G!SumFunctionOnSet, G!FoldFunctionOnSet, G!MapThenFoldSet
<1>8. G!OffsetsInOrder => Group!OffsetsInOrder
  BY DEF G!OffsetsInOrder, Group!OffsetsInOrder
<1> QED
  BY <1>1, <1>2, <1>3, <1>4, <1>5, <1>6, <1>7, <1>8 DEF G!IInv, G!DataInv, Group!IInv,
     Group!DataInv

-----------------------------------------------------------------------------
(* Batches.                                                                *)

LEMMA AppendDistinct ==
  ASSUME NEW S, NEW q \in Seq(S), NEW e \in S, IsInjective(q), e \notin ToSet(q)
  PROVE  IsInjective(Append(q, e)) /\ Len(Append(q, e)) = Len(q) + 1
<1>1. /\ DOMAIN Append(q, e) = DOMAIN q \cup {Len(q) + 1}
      /\ Append(q, e)[Len(q) + 1] = e
      /\ \A i \in DOMAIN q : Append(q, e)[i] = q[i]
      /\ Len(Append(q, e)) = Len(q) + 1
  OBVIOUS
<1>2. \A i \in DOMAIN q : q[i] # e
  BY DEF ToSet
<1> QED
  BY <1>1, <1>2 DEF IsInjective

LEMMA TakeOrder ==
  ASSUME TypeOK, BatchesInOrder, NEW q \in Seq(Events), Take(q), IsInjective(q),
         Len(q) \in 1 .. BatchSize, Len(flights) + 1 <= tracked'
  PROVE  BatchesInOrder'
<1> DEFINE x == [events |-> q, attempt |-> 0, at |-> "sent", answer |-> "none"]
<1>1. queue' = <<>> /\ flights' = Append(flights, x)
  BY DEF Take, QueueAfterTake
<1>2. x \in Flight /\ flights \in Seq(Flight)
  BY TypedState DEF Flight, Answers
<1>3. /\ DOMAIN flights' = DOMAIN flights \cup {Len(flights) + 1}
      /\ flights'[Len(flights) + 1] = x
      /\ \A f \in DOMAIN flights : flights'[f] = flights[f]
  BY <1>1, <1>2, AppendFlight
<1>4. Len(flights') = Len(flights) + 1 /\ Len(queue') = 0 /\ Len(flights) \in Nat
  BY <1>1, <1>2
<1>5. IsInjective(queue')
  BY <1>1 DEF IsInjective
<1>6. x.events = q
  OBVIOUS
<1> HIDE DEF x
<1> QED
  BY <1>3, <1>4, <1>5, <1>6 DEF BatchesInOrder

\* What an answer leaves of its batch: an attempt more unless it is "ok".
LEMMA AnswerEffect ==
  ASSUME Core, NEW f \in DOMAIN flights, NEW a \in Answers \ {"none"}, Answer(f, a)
  PROVE  \E x \in Flight :
            /\ flights' = [flights EXCEPT ![f] = x] /\ x.events = flights[f].events
            /\ x.attempt = flights[f].attempt + (IF a = "ok" THEN 0 ELSE 1)
            /\ x.at # "sent"
<1> DEFINE n == flights[f].attempt + 1
           y == [flights[f] EXCEPT !.at = "done", !.answer = a]
           z(at2) == [flights[f] EXCEPT !.at = at2, !.answer = a, !.attempt = n]
<1>0. TypeOK /\ flights[f] \in Flight
  BY FlightOf DEF Core
<1>1. y \in Flight /\ y.events = flights[f].events /\ y.attempt = flights[f].attempt /\ y.at = "done"
  BY <1>0 DEF Flight
<1>2. flights[f].attempt <= MaxRetries
  BY DEF Answer, Core, BatchAgrees, PromiseOf
<1>3. n \in 0 .. MaxRetries + 1
  BY <1>0, <1>2 DEF Flight
<1>4. \A at2 \in {"backoff", "done"} :
        z(at2) \in Flight /\ z(at2).events = flights[f].events /\ z(at2).attempt = n /\ z(at2).at = at2
  BY <1>0, <1>3 DEF Flight
<1>5. \/ flights' = [flights EXCEPT ![f] = y] /\ a = "ok"
      \/ a # "ok" /\ \E at2 \in {"backoff", "done"} : flights' = [flights EXCEPT ![f] = z(at2)]
  BY DEF Answer
<1>6. flights[f].attempt + 0 = flights[f].attempt
  BY <1>0 DEF Flight
<1>7. CASE flights' = [flights EXCEPT ![f] = y] /\ a = "ok"
  <2> HIDE DEF y
  <2> QED
    BY <1>1, <1>6, <1>7
<1>8. CASE a # "ok" /\ \E at2 \in {"backoff", "done"} : flights' = [flights EXCEPT ![f] = z(at2)]
  <2> HIDE DEF z
  <2> QED
    BY <1>4, <1>8
<1> QED
  BY <1>5, <1>7, <1>8

LEMMA BatchesStep ==
  ASSUME Core, BatchesInOrder, [Next]_vars
  PROVE  BatchesInOrder'
<1>0. /\ TypeOK /\ queue \in Seq(Events) /\ flights \in Seq(Flight)
      /\ tracked \in 0 .. MaxEvents /\ Len(queue) \in Nat /\ Len(flights) \in Nat
  BY TypedState DEF Core
<1>1. CASE Track
  <2> DEFINE e == tracked + 1
             q == Append(queue, e)
  <2>1. e \in Events /\ tracked' = e /\ e > tracked
    BY <1>0, <1>1 DEF Track, Events
  <2>2. e \notin ToSet(queue)
    BY <2>1 DEF Core, TrackedIsPlaced
  <2>3. /\ q \in Seq(Events) /\ IsInjective(q)
        /\ Len(q) = Len(queue) + 1
    BY <1>0, <2>1, <2>2, AppendDistinct, AppendSet DEF BatchesInOrder
  <2>4. CASE Full(q)
    <3>1. Take(q)
      BY <1>1, <2>4 DEF Track
    <3>2. Len(q) \in 1 .. BatchSize /\ Len(flights) + 1 <= tracked'
      BY <1>0, <2>1, <2>3 DEF BatchesInOrder
    <3> HIDE DEF q
    <3> QED
      BY <1>0, <2>3, <3>1, <3>2, TakeOrder
  <2>5. CASE ~Full(q)
    <3>1. queue' = q /\ UNCHANGED flights
      BY <1>1, <2>5 DEF Track
    <3>2. Len(q) < BatchSize
      BY <2>3, <2>5, <1>0 DEF Full
    <3> HIDE DEF q
    <3> QED
      BY <1>0, <2>1, <2>3, <3>1, <3>2 DEF BatchesInOrder
  <2> QED
    BY <2>4, <2>5
<1>2. CASE queue # <<>> /\ Take(queue) /\ UNCHANGED tracked
  <2>1. Len(queue) \in 1 .. BatchSize /\ Len(flights) + 1 <= tracked
    BY <1>0, <1>2 DEF BatchesInOrder
  <2> QED
    BY <1>0, <1>2, <2>1, TakeOrder DEF BatchesInOrder
<1>3. CASE UNCHANGED <<tracked, queue, flights>>
  BY <1>3 DEF BatchesInOrder
<1>4. ASSUME NEW f \in DOMAIN flights, UNCHANGED <<tracked, queue>>,
             NEW x \in Flight, x.events = flights[f].events,
             flights' = [flights EXCEPT ![f] = x]
      PROVE  BatchesInOrder'
  <2>1. /\ DOMAIN flights' = DOMAIN flights
        /\ \A g \in DOMAIN flights : flights'[g].events = flights[g].events
        /\ Len(flights') = Len(flights)
    BY <1>0, <1>4
  <2> QED
    BY <1>4, <2>1 DEF BatchesInOrder
<1>5. ASSUME NEW f \in DOMAIN flights, Retry(f) PROVE BatchesInOrder'
  <2> DEFINE x == [flights[f] EXCEPT !.at = "sent"]
  <2>1. x \in Flight /\ x.events = flights[f].events
    BY <1>0, FlightOf DEF Flight
  <2>2. flights' = [flights EXCEPT ![f] = x] /\ UNCHANGED <<tracked, queue>>
    BY <1>5 DEF Retry
  <2> HIDE DEF x
  <2> QED
    BY <1>4, <2>1, <2>2
<1>6. ASSUME NEW f \in DOMAIN flights, NEW a \in Answers \ {"none"}, Answer(f, a)
      PROVE  BatchesInOrder'
  <2>1. PICK x \in Flight : x.events = flights[f].events /\ flights' = [flights EXCEPT ![f] = x]
    BY <1>6, AnswerEffect
  <2> QED
    BY <1>4, <1>6, <2>1 DEF Answer
<1> QED
  BY <1>1, <1>2, <1>3, <1>5, <1>6 DEF Next, vars, TimerFires, Flush, Close

\* Batches stay, and so do their events; attempts are counted up.
LEMMA FlightsGrow ==
  ASSUME Core, [Next]_vars
  PROVE  /\ DOMAIN flights \subseteq DOMAIN flights'
         /\ \A f \in DOMAIN flights : flights'[f].events = flights[f].events
         /\ \A f \in DOMAIN flights :
             flights'[f].attempt \in {flights[f].attempt, flights[f].attempt + 1}
<1>0. flights \in Seq(Flight) /\ \A f \in DOMAIN flights : flights[f] \in Flight
  BY TypedState, FlightOf DEF Core
<1>1. ASSUME NEW q, Take(q) 
      PROVE  /\ DOMAIN flights \subseteq DOMAIN flights'
             /\ \A f \in DOMAIN flights : flights'[f] = flights[f]
  BY <1>0, <1>1 DEF Take
<1>2. CASE Track \/ TimerFires \/ Flush \/ Close \/ UNCHANGED vars
  BY <1>1, <1>2 DEF Track, TimerFires, Flush, Close, vars
<1>3. ASSUME NEW f \in DOMAIN flights, Retry(f)
      PROVE  /\ DOMAIN flights' = DOMAIN flights
             /\ \A g \in DOMAIN flights : /\ flights'[g].events = flights[g].events
                                          /\ flights'[g].attempt = flights[g].attempt
  BY <1>0, <1>3 DEF Retry, Flight
<1>4. ASSUME NEW f \in DOMAIN flights, NEW a \in Answers \ {"none"}, Answer(f, a)
      PROVE  /\ DOMAIN flights' = DOMAIN flights
             /\ \A g \in DOMAIN flights :
                 /\ flights'[g].events = flights[g].events
                 /\ flights'[g].attempt \in {flights[g].attempt, flights[g].attempt + 1}
  <2>1. PICK x \in Flight :
            /\ flights' = [flights EXCEPT ![f] = x] /\ x.events = flights[f].events
            /\ x.attempt \in {flights[f].attempt + 0, flights[f].attempt + 1}
    BY <1>4, AnswerEffect
  <2>2. /\ DOMAIN flights' = DOMAIN flights /\ flights'[f] = x
        /\ \A g \in DOMAIN flights \ {f} : flights'[g] = flights[g]
    BY ONLY <1>0, <2>1
  <2>3. flights[f].attempt \in Nat /\ flights[f].attempt + 0 = flights[f].attempt
    BY <1>0 DEF Flight
  <2>4. ASSUME NEW g \in DOMAIN flights
        PROVE  /\ flights'[g].events = flights[g].events
               /\ flights'[g].attempt \in {flights[g].attempt, flights[g].attempt + 1}
    <3>1. CASE g = f
      BY ONLY <3>1, <2>1, <2>2, <2>3
    <3>2. CASE g # f
      BY ONLY <3>2, <2>2, <2>4
    <3> QED
      BY <3>1, <3>2
  <2> QED
    BY <2>2, <2>4
<1> QED
  BY <1>2, <1>3, <1>4 DEF Next

-----------------------------------------------------------------------------
(* What the log holds.                                                     *)

\* What the SDK, the API and their meeting say; and all that is kept.
Known == Core /\ P!Core /\ BatchesInOrder /\ AttemptsKnown
PathCore ==
    /\ Known /\ G!IInv /\ FailuresCounted
    /\ rebalances = 0 /\ cuts \in 0 .. MaxFaults

LEMMA AttemptFacts ==
  \A r \in Attempts :
    /\ r[1] \in Events /\ r[2] \in 1 .. BatchSize /\ r[3] \in 0 .. MaxRetries
    /\ r = <<r[1], r[2], r[3]>>
    /\ [q \in Attempts |-> q[2]][r] = r[2]
BY DEF Attempts

LEMMA ApiTyped ==
  P!Core =>
    /\ handler \in [Attempts -> {"out", "lookup", "limit", "send", "delivery", "answered"}]
    /\ answer \in [Attempts -> {"none", "202", "401", "429", "500", "lost"}]
    /\ next \in [Attempts -> Nat]
    /\ log \in Seq(P!Events) /\ accumulated \in [Processes -> Seq(P!Events)]
    /\ apiFaults \in Nat /\ P!TypeOK
<1> SUFFICES ASSUME P!Core, P!TypeOK
             PROVE  /\ handler \in [Attempts -> {"out", "lookup", "limit", "send", "delivery", "answered"}]
                    /\ answer \in [Attempts -> {"none", "202", "401", "429", "500", "lost"}]
                    /\ next \in [Attempts -> Nat]
                    /\ log \in Seq(P!Events) /\ accumulated \in [Processes -> Seq(P!Events)]
                    /\ apiFaults \in Nat
  BY DEF P!Core
<1> QED
  BY DEF P!TypeOK

LEMMA ApiEvents ==
  \A x \in P!Events :
    /\ x[1] \in Attempts /\ x[2] \in 1 .. x[1][2] /\ x = <<x[1], x[2]>>
<1> SUFFICES ASSUME NEW x \in P!Events
             PROVE  x[1] \in Attempts /\ x[2] \in 1 .. x[1][2] /\ x = <<x[1], x[2]>>
  OBVIOUS
<1>1. /\ x[1] \in Attempts /\ x[2] \in 1 .. [q \in Attempts |-> q[2]][x[1]]
      /\ x = <<x[1], x[2]>>
  BY P!EventFacts, Assumptions
<1> QED
  BY <1>1, AttemptFacts

\* An event that was handed to a producer is one of an attempt the SDK made,
\* and of a request that was not refused.
LEMMA SentEvent ==
  ASSUME Known, NEW x \in P!Logged \cup P!Accumulated
  PROVE  /\ x[1] \in Attempts /\ x = <<<<x[1][1], x[1][2], x[1][3]>>, x[2]>>
         /\ x[1][1] \in DOMAIN flights
         /\ x[1][2] = Len(flights[x[1][1]].events)
         /\ x[2] \in DOMAIN flights[x[1][1]].events
         /\ x[1][3] \in 0 .. MaxRetries /\ x[1][3] <= flights[x[1][1]].attempt
         /\ Origin(x) \in Batch(x[1][1]) /\ Origin(x) \in Events
         /\ answer[x[1]] \notin {"401", "429"} /\ handler[x[1]] # "out"
<1>1. x \in P!Events
  BY Assumptions, ApiTyped, P!Sets DEF Known
<1>2. /\ x[1] \in Attempts /\ x[2] \in 1 .. x[1][2] /\ x = <<x[1], x[2]>>
      /\ x[1] = <<x[1][1], x[1][2], x[1][3]>> /\ x[1][3] \in 0 .. MaxRetries
      /\ x[1][2] \in Nat
  BY <1>1, ApiEvents, AttemptFacts
<1>3. x[2] < next[x[1]]
  BY DEF Known, P!Core, P!SentInOrder
<1>4. next[x[1]] # 1 /\ P!HandlerAgrees(x[1])
  BY <1>2, <1>3, ApiTyped DEF Known, P!Core, P!HandlersAgree
<1>5. handler[x[1]] # "out" /\ answer[x[1]] \notin {"401", "429"}
  BY <1>4 DEF P!HandlerAgrees
<1>6. /\ x[1][1] \in DOMAIN flights
      /\ x[1][2] = Len(flights[x[1][1]].events)
      /\ x[1][3] <= flights[x[1][1]].attempt
  BY <1>2, <1>5 DEF Known, AttemptsKnown
<1>7. flights[x[1][1]].events \in Seq(Events) /\ Batch(x[1][1]) \subseteq Events
  BY <1>6, FlightOf DEF Known, Core
<1>8. x[2] \in DOMAIN flights[x[1][1]].events
  BY <1>2, <1>6, <1>7
<1>9. Origin(x) \in Batch(x[1][1])
  BY <1>8 DEF Origin, Batch, ToSet
<1> QED
  BY <1>2, <1>5, <1>6, <1>7, <1>8, <1>9

\* A tracked event has one place in one batch.
LEMMA SameOrigin ==
  ASSUME Known, NEW x \in P!Logged \cup P!Accumulated, NEW y \in P!Logged \cup P!Accumulated,
         Origin(x) = Origin(y)
  PROVE  /\ x[1][1] = y[1][1] /\ x[1][2] = y[1][2] /\ x[2] = y[2]
         /\ x[1][3] = y[1][3] => x = y
<1>1. /\ x[1][1] \in DOMAIN flights /\ y[1][1] \in DOMAIN flights
      /\ Origin(x) \in Batch(x[1][1]) /\ Origin(y) \in Batch(y[1][1])
      /\ x[2] \in DOMAIN flights[x[1][1]].events /\ y[2] \in DOMAIN flights[y[1][1]].events
      /\ x[1][2] = Len(flights[x[1][1]].events) /\ y[1][2] = Len(flights[y[1][1]].events)
      /\ x = <<<<x[1][1], x[1][2], x[1][3]>>, x[2]>>
      /\ y = <<<<y[1][1], y[1][2], y[1][3]>>, y[2]>>
  BY SentEvent
<1>2. x[1][1] = y[1][1]
  BY <1>1 DEF Known, Core, BatchesApart
<1>3. IsInjective(flights[x[1][1]].events)
  BY <1>1 DEF Known, BatchesInOrder
<1>4. x[2] = y[2]
  BY <1>1, <1>2, <1>3 DEF IsInjective, Origin
<1>5. x[1][2] = y[1][2]
  BY <1>1, <1>2
<1>6. x[1][3] = y[1][3] => x = y
  BY <1>1, <1>2, <1>4, <1>5, Zenon
<1> QED
  BY <1>2, <1>4, <1>5, <1>6

LEMMA LogDistinct ==
  ASSUME Known, NEW i \in DOMAIN log, NEW j \in DOMAIN log, log[i] = log[j]
  PROVE  i = j
<1>1. log \in Seq(P!Events) /\ P!Ordered(log)
  BY ApiTyped DEF Known, P!Core, P!BodyOrderKept
<1>2. i \in Nat /\ j \in Nat
  BY <1>1
<1>3. log[i][2] \in Nat
  BY <1>1, ApiEvents, AttemptFacts
<1>4. ~(i < j) /\ ~(j < i)
  BY <1>1, <1>3 DEF P!Ordered
<1> QED
  BY <1>2, <1>4

LEMMA LogEntry == \A i \in DOMAIN log : log[i] \in P!Logged
BY DEF P!Logged, P!ToSet

\* The entries of one event come from different attempts.
LEMMA OneEntryPerAttempt ==
  ASSUME Known, NEW i \in DOMAIN log, NEW j \in DOMAIN log,
         Origin(log[i]) = Origin(log[j]), log[i][1][3] = log[j][1][3]
  PROVE  i = j
BY LogEntry, SameOrigin, LogDistinct

\* The log has room for every event, once per attempt.
LEMMA LogFits == Known => Len(log) <= MaxEvents * (MaxRetries + 1)
<1> SUFFICES ASSUME Known PROVE Len(log) <= MaxEvents * (MaxRetries + 1)
  OBVIOUS
<1> DEFINE D == 1 .. Len(log)
           T == Events \X (0 .. MaxRetries)
           h == [i \in D |-> <<Origin(log[i]), log[i][1][3]>>]
<1>1. Len(log) \in Nat /\ D = DOMAIN log
  BY ApiTyped DEF Known
<1>2. \A i \in D : Origin(log[i]) \in Events /\ log[i][1][3] \in 0 .. MaxRetries
  BY <1>1, LogEntry, SentEvent
<1>3. h \in [D -> T]
  BY <1>2
<1>4. \A i, j \in D : h[i] = h[j] => i = j
  BY <1>1, OneEntryPerAttempt
<1>5. h \in Injection(D, T)
  <2> HIDE DEF h, D, T
  <2> QED
    BY <1>3, <1>4 DEF Injection, IsInjective
<1>6. IsFiniteSet(Events) /\ Cardinality(Events) = MaxEvents
  <2>1. 1 \in Int /\ MaxEvents \in Int
    OBVIOUS
  <2>2. IsFiniteSet(1 .. MaxEvents)
        /\ Cardinality(1 .. MaxEvents) = IF 1 > MaxEvents THEN 0 ELSE MaxEvents - 1 + 1
    BY <2>1, FS_Interval, Zenon
  <2> QED
    BY <2>2 DEF Events
<1>7. IsFiniteSet(0 .. MaxRetries) /\ Cardinality(0 .. MaxRetries) = MaxRetries + 1
  <2>1. 0 \in Int /\ MaxRetries \in Int
    OBVIOUS
  <2>2. IsFiniteSet(0 .. MaxRetries)
        /\ Cardinality(0 .. MaxRetries) = IF 0 > MaxRetries THEN 0 ELSE MaxRetries - 0 + 1
    BY <2>1, FS_Interval, Zenon
  <2> QED
    BY <2>2
<1>8. IsFiniteSet(T) /\ Cardinality(T) = MaxEvents * (MaxRetries + 1)
  BY <1>6, <1>7, FS_Product, Zenon
<1>9. Cardinality(D) = Len(log)
  <2>1. 1 \in Int /\ Len(log) \in Int
    BY <1>1
  <2>2. Cardinality(D) = IF 1 > Len(log) THEN 0 ELSE Len(log) - 1 + 1
    BY <2>1, FS_Interval, Zenon
  <2> QED
    BY <1>1, <2>2
<1>10. Cardinality(D) <= Cardinality(T)
  <2> HIDE DEF h, D, T
  <2> QED
    BY <1>5, <1>8, FS_Injection, Zenon
<1> QED
  BY <1>8, <1>9, <1>10

-----------------------------------------------------------------------------
(* The steps of the path.                                                  *)

LEMMA AttemptSent ==
  ASSUME Known, NEW f \in DOMAIN flights, flights[f].at = "sent"
  PROVE  Attempt(f) \in Attempts /\ flights[f].attempt \in 0 .. MaxRetries
<1>1. /\ flights \in Seq(Flight) /\ Len(queue) \in Nat /\ tracked \in 0 .. MaxEvents
      /\ flights[f].attempt \in Nat
  BY TypedState, FlightOf DEF Known, Core
<1>2. f \in 1 .. Len(flights) /\ Len(flights) \in Nat
  BY <1>1
<1>3. f \in Events
  BY <1>1, <1>2 DEF Known, BatchesInOrder, Events
<1>4. Len(flights[f].events) \in 1 .. BatchSize
  BY DEF Known, BatchesInOrder
<1>5. flights[f].attempt <= MaxRetries
  BY DEF Known, Core, BatchAgrees, PromiseOf
<1> QED
  BY <1>1, <1>3, <1>4, <1>5 DEF Attempt, Attempts

LEMMA ReachesEffect ==
  ASSUME Known, NEW f \in DOMAIN flights, Reaches(f)
  PROVE  /\ Attempt(f) \in Attempts
         /\ handler' = [handler EXCEPT ![Attempt(f)] = "lookup"]
         /\ UNCHANGED <<vars, group, cuts, answer, log, apiFaults>>
<1>1. Attempt(f) \in Attempts
  BY AttemptSent DEF Reaches
<1> QED
  BY <1>1 DEF Reaches, Api!Arrive, Api!Goto

\* A request gets one answer, and a failed one takes a fault.
LEMMA ApiAnswers ==
  ASSUME Known, ApiStep
  PROVE  /\ apiFaults' \in {apiFaults, apiFaults + 1}
         /\ \A r \in Attempts : handler[r] = "out" => handler'[r] = "out"
         /\ \A r \in Attempts :
             \/ answer'[r] = answer[r]
             \/ /\ answer[r] = "none" /\ handler[r] # "out"
                /\ answer'[r] \in {"500", "lost"} => apiFaults' = apiFaults + 1
<1>0. /\ handler \in [Attempts -> {"out", "lookup", "limit", "send", "delivery", "answered"}]
      /\ answer \in [Attempts -> {"none", "202", "401", "429", "500", "lost"}]
      /\ \A r \in Attempts : handler[r] # "answered" => answer[r] = "none"
  BY ApiTyped DEF Known, P!Core, P!HandlersAgree, P!HandlerAgrees
<1> DEFINE Fine ==
             /\ apiFaults' \in {apiFaults, apiFaults + 1}
             /\ \A r \in Attempts : handler[r] = "out" => handler'[r] = "out"
             /\ \A r \in Attempts :
                 \/ answer'[r] = answer[r]
                 \/ /\ answer[r] = "none" /\ handler[r] # "out"
                    /\ answer'[r] \in {"500", "lost"} => apiFaults' = apiFaults + 1
<1>1. ASSUME UNCHANGED <<handler, answer, apiFaults>> PROVE Fine
  BY <1>1
<1>2. ASSUME NEW r \in Attempts, NEW s, P!Respond(r, s), handler[r] \notin {"out", "answered"},
             s \notin {"500", "lost"}, UNCHANGED apiFaults
      PROVE  Fine
  BY <1>0, <1>2 DEF P!Respond
<1>3. ASSUME NEW r \in Attempts, P!Respond(r, "500"), handler[r] \notin {"out", "answered"},
             apiFaults' = apiFaults + 1
      PROVE  Fine
  BY <1>0, <1>3 DEF P!Respond
<1>4. ASSUME NEW r \in Attempts, NEW l, P!Goto(r, l), handler[r] # "out", UNCHANGED apiFaults
      PROVE  Fine
  BY <1>0, <1>4 DEF P!Goto
<1>5. ASSUME apiFaults' = apiFaults + 1, UNCHANGED <<handler, answer>> PROVE Fine
  BY <1>5
<1> HIDE DEF Fine
<1>6. ASSUME NEW r \in Attempts, P!Handle(r) PROVE Fine
  <2>1. CASE P!Lookup(r)
    BY <2>1, <1>2, <1>4 DEF P!Lookup
  <2>2. CASE P!Limit(r)
    BY <2>2, <1>2, <1>4 DEF P!Limit
  <2>3. CASE P!Send(r)
    BY <2>3, <1>1, <1>2, <1>4 DEF P!Send, P!AfterLastSend
  <2>4. CASE P!Raises(r)
    BY <2>4, <1>3 DEF P!Raises
  <2> QED
    BY <1>6, <2>1, <2>2, <2>3, <2>4 DEF P!Handle
<1>7. ASSUME NEW p \in Processes, P!Deliver(p) \/ P!DeliveryFails(p) PROVE Fine
  <2> DEFINE r == Head(accumulated[p])[1]
  <2>1. r \in Attempts
    <3>1. accumulated[p] \in Seq(P!Events) /\ accumulated[p] # <<>>
      BY <1>7, ApiTyped DEF Known, P!Deliver, P!DeliveryFails
    <3>2. Head(accumulated[p]) \in P!Events
      BY <3>1
    <3> QED
      BY <3>2, ApiEvents
  <2> HIDE DEF r
  <2>2. CASE P!Deliver(p)
    <3>1. /\ UNCHANGED apiFaults
          /\ IF handler[r] = "delivery" THEN P!Respond(r, "202") ELSE UNCHANGED <<handler, answer>>
      BY <2>2 DEF P!Deliver, P!Awaits, r
    <3> QED
      BY <3>1, <2>1, <1>1, <1>2
  <2>3. CASE P!DeliveryFails(p)
    <3>1. /\ apiFaults' = apiFaults + 1
          /\ IF handler[r] = "delivery" THEN P!Respond(r, "500") ELSE UNCHANGED <<handler, answer>>
      BY <2>3 DEF P!DeliveryFails, P!Awaits, r
    <3> QED
      BY <3>1, <2>1, <1>3, <1>5
  <2> QED
    BY <1>7, <2>2, <2>3
<1>8. ASSUME NEW p \in Processes, P!Crash(p) PROVE Fine
  <2>1. /\ apiFaults' = apiFaults + 1
        /\ handler' = [r \in Attempts |-> IF r \in P!Serving(p) THEN "answered" ELSE handler[r]]
        /\ answer' = [r \in Attempts |-> IF r \in P!Serving(p) THEN "lost" ELSE answer[r]]
    BY <1>8 DEF P!Crash
  <2>2. \A r \in P!Serving(p) : handler[r] \notin {"out", "answered"}
    <3> SUFFICES ASSUME NEW r \in Attempts, handler[r] = "out", at[r] = p PROVE FALSE
      BY DEF P!Serving
    <3>1. at[r] = NoProcess
      BY DEF Known, P!Core, P!HandlersAgree, P!HandlerAgrees
    <3> QED
      BY <3>1
  <2> QED
    BY <1>0, <2>1, <2>2 DEF Fine
<1>9. CASE P!Revoke
  BY <1>1, <1>9 DEF P!Revoke, P!handlers
<1> QED
  BY <1>6, <1>7, <1>8, <1>9, ApiActions DEF ApiStep, Fine

\* The steps of the SDK along the path.
LEMMA ClientSteps ==
  ASSUME PathNext
  PROVE  [Next]_vars
<1>1. ASSUME NEW f \in DOMAIN flights, NEW s, Answer(f, Outcome(s)) PROVE Next
  BY <1>1 DEF Outcome, Next, Answers
<1>2. ASSUME NEW f \in DOMAIN flights, Answered(f) PROVE Next
  BY <1>1, <1>2 DEF Answered
<1>3. ASSUME NEW f \in DOMAIN flights, Cut(f) PROVE Next
  BY <1>3 DEF Cut, Next, Answers
<1>4. CASE ClientStep
  BY <1>4 DEF ClientStep, Next
<1>5. CASE ApiStep \/ GroupStep \/ \E f \in DOMAIN flights : Reaches(f)
  BY <1>5 DEF ApiStep, GroupStep, Reaches
<1> QED
  BY <1>2, <1>3, <1>4, <1>5 DEF PathNext

\* Those of the API.
LEMMA ApiPathSteps ==
  ASSUME Known, PathNext
  PROVE  [P!Next]_P!vars
<1>1. CASE ApiStep
  BY <1>1, ApiSteps
<1>2. ASSUME NEW f \in DOMAIN flights, Reaches(f) PROVE [P!Next]_P!vars
  BY <1>2, AttemptSent, ApiSteps DEF Reaches
<1>3. CASE UNCHANGED api
  BY <1>3, ApiSteps
<1> QED
  BY <1>1, <1>2, <1>3 DEF PathNext, ClientStep, GroupStep, Answered, Cut

LEMMA KnownStep == Known /\ [PathNext]_all => Known'
<1> SUFFICES ASSUME Known, [PathNext]_all PROVE Known'
  OBVIOUS
<1>1. [Next]_vars /\ [P!Next]_P!vars
  <2>1. CASE PathNext
    BY <2>1, ClientSteps, ApiPathSteps
  <2>2. CASE UNCHANGED all
    BY <2>2, ApiSteps DEF all
  <2> QED
    BY <2>1, <2>2
<1>2. Core' /\ P!Core'
  BY <1>1, CoreStep, P!CoreStep, Assumptions DEF Known
<1>3. BatchesInOrder'
  BY <1>1, BatchesStep DEF Known
<1>4. AttemptsKnown'
  <2>1. /\ DOMAIN flights \subseteq DOMAIN flights'
        /\ \A f \in DOMAIN flights : flights'[f].events = flights[f].events
        /\ \A f \in DOMAIN flights : flights[f].attempt <= flights'[f].attempt
                                     /\ flights[f].attempt \in Nat /\ flights'[f].attempt \in Int
    <3>1. \A f \in DOMAIN flights : flights[f].attempt \in Nat
      BY FlightOf DEF Known, Core
    <3> QED
      BY <3>1, <1>1, FlightsGrow DEF Known
  <2>2. ASSUME NEW r \in Attempts, handler[r] # "out"
        PROVE  /\ r[1] \in DOMAIN flights'
               /\ r[2] = Len(flights'[r[1]].events)
               /\ r[3] <= flights'[r[1]].attempt
    <3>1. /\ r[1] \in DOMAIN flights
          /\ r[2] = Len(flights[r[1]].events)
          /\ r[3] <= flights[r[1]].attempt
      BY <2>2 DEF Known, AttemptsKnown
    <3>2. r[3] \in Nat
      BY AttemptFacts
    <3> QED
      BY <3>1, <3>2, <2>1
  <2>3. CASE \A r \in Attempts : handler[r] = "out" => handler'[r] = "out"
    BY <2>2, <2>3 DEF AttemptsKnown
  <2>4. ASSUME NEW f \in DOMAIN flights, Reaches(f) PROVE AttemptsKnown'
    <3>1. /\ Attempt(f) \in Attempts /\ UNCHANGED flights
          /\ handler' = [handler EXCEPT ![Attempt(f)] = "lookup"]
      BY <2>4, ReachesEffect DEF vars
    <3>2. ASSUME NEW r \in Attempts, r = Attempt(f)
          PROVE  /\ r[1] \in DOMAIN flights'
                 /\ r[2] = Len(flights'[r[1]].events)
                 /\ r[3] <= flights'[r[1]].attempt
      <4>1. r[1] = f /\ r[2] = Len(flights[f].events) /\ r[3] = flights[f].attempt
        BY <3>2 DEF Attempt
      <4>2. flights[f].attempt \in Nat
        BY FlightOf DEF Known, Core
      <4> QED
        BY <4>1, <4>2, <3>1
    <3>3. \A r \in Attempts : r # Attempt(f) => handler'[r] = handler[r]
      BY <3>1, ApiTyped DEF Known
    <3> QED
      BY <2>2, <3>2, <3>3 DEF AttemptsKnown
  <2>5. CASE ApiStep
    BY <2>3, <2>5, ApiAnswers
  <2>6. CASE UNCHANGED api
    BY <2>3, <2>6 DEF api
  <2> QED
    BY <2>4, <2>5, <2>6 DEF PathNext, ClientStep, GroupStep, Answered, Cut, all
<1> QED
  BY <1>2, <1>3, <1>4 DEF Known

LEMMA LogTyped == P!Core => log \in Seq(P!Events)
BY ApiTyped

\* Those of the consumer: what the API appends is there to be fetched.
LEMMA GroupPathSteps ==
  ASSUME Known, [PathNext]_all
  PROVE  [G!Next]_G!vars
<1>1. Known' /\ Len(log') <= MaxEvents * (MaxRetries + 1)
  <2>1. (Known => Len(log) <= MaxEvents * (MaxRetries + 1))'
    BY LogFits, PTL
  <2> QED
    BY <2>1, KnownStep
<1>2. CASE UNCHANGED <<log, group>>
  BY <1>2 DEF group, G!vars, G!broker, G!tables, G!memory, G!counters
<1>3. CASE GroupStep
  BY <1>3, GroupActions DEF GroupStep, G!Next
<1>4. CASE ApiStep
  <2>1. log \in Seq(P!Events) /\ log' \in Seq(P!Events)
    <3>1. (P!Core => log \in Seq(P!Events))'
      BY LogTyped, PTL
    <3> QED
      BY <1>1, <3>1, ApiTyped DEF Known
  <2>2. ASSUME NEW x, log' = Append(log, x) PROVE G!Append(Partition)
    <3>1. Len(log') = Len(log) + 1 /\ Len(log) \in Nat
      BY <2>1, <2>2
    <3>2. Len(log) < MaxEvents * (MaxRetries + 1)
      BY <3>1, <1>1
    <3> QED
      BY <3>1, <3>2, <1>4 DEF ApiStep, group, G!Append, G!tables, G!memory, G!counters
  <2>3. log' = log \/ \E x : log' = Append(log, x)
    <3>1. ASSUME NEW r \in Attempts, Api!Handle(r) PROVE log' = log
      BY <3>1 DEF Api!Handle, Api!Lookup, Api!Limit, Api!Send, Api!Raises
    <3>2. ASSUME NEW p \in Processes, Api!Deliver(p) \/ Api!DeliveryFails(p) \/ Api!Crash(p)
          PROVE  log' = log \/ \E x : log' = Append(log, x)
      BY <3>2 DEF Api!Deliver, Api!DeliveryFails, Api!Crash
    <3>3. CASE Api!Revoke
      BY <3>3 DEF Api!Revoke
    <3> QED
      BY <1>4, <3>1, <3>2, <3>3 DEF ApiStep
  <2> QED
    BY <1>2, <1>4, <2>2, <2>3 DEF ApiStep, G!Next
<1>5. ASSUME NEW f \in DOMAIN flights, Reaches(f) PROVE [G!Next]_G!vars
  BY <1>2, <1>5, ReachesEffect
<1> QED
  BY <1>2, <1>3, <1>4, <1>5 DEF PathNext, ClientStep, Answered, Cut, all, api

-----------------------------------------------------------------------------
(* Failures.                                                               *)

LEMMA CardinalityGrows ==
  ASSUME NEW T, IsFiniteSet(T), NEW a
  PROVE  /\ \A S : S \subseteq T => Cardinality(S) <= Cardinality(T)
         /\ \A S : S \subseteq T \cup {a} => Cardinality(S) <= Cardinality(T) + 1
<1>1. Cardinality(T) \in Nat
  BY FS_CardinalityType
<1>2. /\ IsFiniteSet(T \cup {a})
      /\ Cardinality(T \cup {a}) = IF a \in T THEN Cardinality(T) ELSE Cardinality(T) + 1
  BY FS_AddElement
<1>3. Cardinality(T \cup {a}) <= Cardinality(T) + 1
  BY <1>1, <1>2
<1>4. ASSUME NEW S, S \subseteq T \cup {a}
      PROVE  Cardinality(S) <= Cardinality(T \cup {a}) /\ Cardinality(S) \in Nat
  BY <1>2, <1>4, FS_Subset, FS_CardinalityType
<1>5. ASSUME NEW S, S \subseteq T
      PROVE  Cardinality(S) <= Cardinality(T)
  BY <1>5, FS_Subset
<1>6. Cardinality(T \cup {a}) \in Nat
  BY <1>2, FS_CardinalityType
<1> QED
  BY <1>1, <1>3, <1>4, <1>5, <1>6

LEMMA FailedFinite ==
  ASSUME NEW f
  PROVE  IsFiniteSet(Failed(f)) /\ Cardinality(Failed(f)) \in Nat
<1>1. 0 \in Int /\ MaxRetries \in Int
  OBVIOUS
<1>2. IsFiniteSet(0 .. MaxRetries)
  BY <1>1, FS_Interval
<1>3. Failed(f) \subseteq 0 .. MaxRetries
  BY DEF Failed
<1> QED
  BY <1>2, <1>3, FS_Subset, FS_CardinalityType

LEMMA BatchAttempts ==
  ASSUME Known, NEW f \in DOMAIN flights, NEW a \in 0 .. MaxRetries
  PROVE  <<f, Len(flights[f].events), a>> \in Attempts
<1>1. /\ flights \in Seq(Flight) /\ Len(queue) \in Nat /\ tracked \in 0 .. MaxEvents
  BY TypedState, FlightOf DEF Known, Core
<1>2. f \in 1 .. Len(flights) /\ Len(flights) \in Nat
  BY <1>1
<1>3. f \in Events
  BY <1>1, <1>2 DEF Known, BatchesInOrder, Events
<1>4. Len(flights[f].events) \in 1 .. BatchSize
  BY DEF Known, BatchesInOrder
<1> QED
  BY <1>3, <1>4 DEF Attempts

AttemptsAre ==
  \A f \in DOMAIN flights : \A a \in 0 .. MaxRetries :
    <<f, Len(flights[f].events), a>> \in Attempts

LEMMA AllBatchAttempts == Known => AttemptsAre
BY BatchAttempts DEF AttemptsAre

\* The failures of a batch are counted after a step, if the step adds at most
\* one, and only when it is a failure itself.
LEMMA CountKept ==
  ASSUME NEW T, IsFiniteSet(T), NEW S, NEW m \in Nat, NEW n \in Nat,
         Cardinality(T) <= m, m <= n,
         S \subseteq T \/ (m + 1 <= n /\ \E a : S \subseteq T \cup {a})
  PROVE  Cardinality(S) <= n
<1>1. Cardinality(T) \in Nat
  BY FS_CardinalityType
<1>2. Cardinality(S) \in Nat
  BY FS_Subset, FS_AddElement, FS_CardinalityType
<1>3. CASE S \subseteq T
  <2>1. Cardinality(S) <= Cardinality(T)
    BY <1>3, CardinalityGrows
  <2> QED
    BY <1>1, <1>2, <2>1
<1>4. ASSUME NEW a, m + 1 <= n, S \subseteq T \cup {a}
      PROVE  Cardinality(S) <= n
  <2>1. Cardinality(S) <= Cardinality(T) + 1
    BY <1>4, CardinalityGrows
  <2> QED
    BY <1>1, <1>2, <1>4, <2>1
<1> QED
  BY <1>3, <1>4

\* The SDK goes on to another attempt: what became of the last one counts if
\* it may have left events behind.
LEMMA FailedAnswer ==
  ASSUME Known, NEW f \in DOMAIN flights, NEW a \in Answers \ {"none"}, Answer(f, a),
         UNCHANGED answer, NEW g \in DOMAIN flights
  PROVE  /\ Failed(g)' \subseteq Failed(g) \cup {flights[f].attempt}
         /\ a = "ok" \/ answer[Attempt(f)] \in {"401", "429", "500", "lost"} =>
              Failed(g)' \subseteq Failed(g)
<1>1. PICK x \in Flight :
         /\ flights' = [flights EXCEPT ![f] = x] /\ x.events = flights[f].events
         /\ x.attempt = flights[f].attempt + (IF a = "ok" THEN 0 ELSE 1)
  BY AnswerEffect DEF Known
<1>2. flights \in Seq(Flight) /\ flights[f].attempt \in Nat
  BY TypedState, FlightOf DEF Known, Core
<1>3. CASE g # f
  <2>1. flights'[g] = flights[g]
    BY <1>1, <1>2, <1>3
  <2> QED
    BY <2>1 DEF Failed
<1>4. CASE g = f
  <2>1. /\ flights'[f].events = flights[f].events
        /\ flights'[f].attempt = flights[f].attempt + (IF a = "ok" THEN 0 ELSE 1)
    BY <1>1, <1>2
  <2>2. Failed(f)' \subseteq Failed(f) \cup {flights[f].attempt}
    BY <1>2, <2>1 DEF Failed
  <2>3. CASE a = "ok"
    BY <1>2, <1>4, <2>1, <2>3 DEF Failed
  <2>4. CASE answer[Attempt(f)] \in {"401", "429", "500", "lost"}
    <3>1. flights[f].attempt \in Failed(f)' => flights[f].attempt \in Failed(f)
      BY <2>1, <2>4 DEF Failed, Attempt
    <3> QED
      BY <1>4, <2>2, <3>1
  <2> QED
    BY <1>4, <2>2, <2>3, <2>4
<1> QED
  BY <1>3, <1>4

\* What a step does to the failures of a batch.
NoMore(f) == Failed(f)' \subseteq Failed(f)
OneMore(f) == \E a : Failed(f)' \subseteq Failed(f) \cup {a}
FreshIn(f) == Failed(f)' = {}

LEMMA FailuresKept ==
  ASSUME FailuresCounted, apiFaults + cuts \in Nat, apiFaults' + cuts' \in Nat,
         apiFaults + cuts <= apiFaults' + cuts',
         \/ \A f \in DOMAIN flights : NoMore(f)
         \/ apiFaults + cuts + 1 <= apiFaults' + cuts' /\ \A f \in DOMAIN flights : OneMore(f),
         \A f \in DOMAIN flights' \ DOMAIN flights : FreshIn(f)
  PROVE  FailuresCounted'
<1>1. ASSUME NEW f \in DOMAIN flights
      PROVE  Cardinality(Failed(f)') <= apiFaults' + cuts'
  <2>1. /\ IsFiniteSet(Failed(f)) /\ Cardinality(Failed(f)) <= apiFaults + cuts
    BY FailedFinite DEF FailuresCounted
  <2>2. \/ Failed(f)' \subseteq Failed(f)
        \/ /\ apiFaults + cuts + 1 <= apiFaults' + cuts'
           /\ \E a : Failed(f)' \subseteq Failed(f) \cup {a}
    BY DEF NoMore, OneMore
  <2> QED
    BY <2>1, <2>2, CountKept
<1>2. ASSUME NEW f \in DOMAIN flights' \ DOMAIN flights
      PROVE  Cardinality(Failed(f)') <= apiFaults' + cuts'
  <2>1. Cardinality(Failed(f)') = 0
    BY FS_EmptySet DEF FreshIn
  <2>2. 0 <= apiFaults' + cuts'
    OBVIOUS
  <2> QED
    BY <2>1, <2>2
<1> QED
  BY <1>1, <1>2 DEF FailuresCounted

LEMMA FailuresStep ==
  ASSUME PathCore, [PathNext]_all
  PROVE  FailuresCounted' /\ cuts' \in 0 .. MaxFaults
<1>0. /\ Known /\ cuts \in Nat /\ apiFaults \in Nat /\ groupFaults \in Nat /\ MaxFaults \in Nat
      /\ cuts \in 0 .. MaxFaults
      /\ \A f \in DOMAIN flights : Cardinality(Failed(f)) <= apiFaults + cuts
  <2>1. groupFaults \in Nat
    BY Assumptions DEF PathCore, G!IInv, G!DataInv, G!TypeOK
  <2> QED
    BY <2>1, ApiTyped, Assumptions DEF PathCore, Known, FailuresCounted
<1>1. /\ DOMAIN flights \subseteq DOMAIN flights'
      /\ \A f \in DOMAIN flights : flights'[f].events = flights[f].events
  <2>1. [Next]_vars
    BY ClientSteps DEF all
  <2> QED
    BY <1>0, <2>1, FlightsGrow DEF Known
\* Steps that neither answer a request nor an attempt.
<1>3. ASSUME answer' = answer, NEW f \in DOMAIN flights,
             flights'[f].attempt = flights[f].attempt
      PROVE  NoMore(f)
  BY <1>1, <1>3 DEF Failed, NoMore
<1>4. CASE ClientStep
  <2>1. UNCHANGED <<answer, handler, apiFaults, cuts>>
    BY <1>4 DEF ClientStep, api
  <2>2. \A f \in DOMAIN flights : flights'[f].attempt = flights[f].attempt
    <3>0. flights \in Seq(Flight) /\ \A f \in DOMAIN flights : flights[f] \in Flight
      BY <1>0, TypedState, FlightOf DEF Known, Core
    <3>1. ASSUME NEW q, Take(q) PROVE \A f \in DOMAIN flights : flights'[f] = flights[f]
      BY <3>0, <3>1 DEF Take
    <3>2. ASSUME NEW f \in DOMAIN flights, Retry(f)
          PROVE  \A g \in DOMAIN flights : flights'[g].attempt = flights[g].attempt
      BY <3>0, <3>2 DEF Retry, Flight
    <3> QED
      BY <1>4, <3>1, <3>2 DEF ClientStep, Track, TimerFires, Flush, Close
  <2>3. ASSUME NEW f \in DOMAIN flights' \ DOMAIN flights PROVE FreshIn(f)
    <3>1. Known' /\ flights'[f].attempt \in {0}
      <4>0. flights \in Seq(Flight)
        BY <1>0, TypedState DEF Known, Core
      <4>1. ASSUME NEW q, Take(q) PROVE flights'[f].attempt = 0
        BY <2>3, <4>0, <4>1 DEF Take
      <4>2. ASSUME NEW g \in DOMAIN flights, Retry(g) PROVE FALSE
        BY <2>3, <4>0, <4>2 DEF Retry
      <4>3. Known'
        BY <1>0, KnownStep
      <4> QED
        BY <1>4, <2>3, <4>1, <4>2, <4>3 DEF ClientStep, Track, TimerFires, Flush, Close
    <3>2. ASSUME NEW a \in 0 .. MaxRetries
          PROVE  answer'[<<f, Len(flights'[f].events), a>>] = "none" /\ ~(a < flights'[f].attempt)
      <4>1. AttemptsAre'
        <5>1. (Known => AttemptsAre)'
          BY AllBatchAttempts, PTL
        <5> QED
          BY <3>1, <5>1
      <4> DEFINE r == <<f, Len(flights'[f].events), a>>
      <4>2. r \in Attempts
        BY <4>1 DEF AttemptsAre
      <4>3. r[1] = f
        OBVIOUS
      <4> HIDE DEF r
      <4>4. handler[r] = "out"
        BY <1>0, <4>2, <4>3 DEF Known, AttemptsKnown
      <4>5. answer[r] = "none"
        BY <1>0, <4>2, <4>4 DEF Known, P!Core, P!HandlersAgree, P!HandlerAgrees
      <4> QED
        BY <2>1, <3>1, <4>5 DEF r
    <3> QED
      BY <3>2 DEF Failed, FreshIn
  <2>4. \A f \in DOMAIN flights : NoMore(f)
    BY <1>3, <2>1, <2>2
  <2>5. apiFaults' + cuts' = apiFaults + cuts /\ apiFaults + cuts \in Nat
    BY <1>0, <2>1
  <2>6. \A f \in DOMAIN flights' \ DOMAIN flights : FreshIn(f)
    BY <2>3
  <2> QED
    BY <1>0, <2>1, <2>4, <2>5, <2>6, FailuresKept DEF PathCore
<1>5. CASE GroupStep \/ (\E f \in DOMAIN flights : Reaches(f)) \/ UNCHANGED all
  <2>1. UNCHANGED <<flights, answer, apiFaults, cuts>>
    BY <1>0, <1>5, ReachesEffect DEF GroupStep, all, vars, api
  <2>2. /\ \A f \in DOMAIN flights : flights'[f].attempt = flights[f].attempt
        /\ DOMAIN flights' \ DOMAIN flights = {}
    BY <2>1
  <2>3. \A f \in DOMAIN flights : NoMore(f)
    BY <1>3, <2>1, <2>2
  <2>4. apiFaults' + cuts' = apiFaults + cuts /\ apiFaults + cuts \in Nat
    BY <1>0, <2>1
  <2> QED
    BY <1>0, <2>1, <2>2, <2>3, <2>4, FailuresKept DEF PathCore
<1>6. CASE ApiStep
  <2>0. UNCHANGED <<flights, cuts>>
    BY <1>6 DEF ApiStep, vars
  <2>1. /\ apiFaults' \in {apiFaults, apiFaults + 1}
        /\ \A r \in Attempts :
             \/ answer'[r] = answer[r]
             \/ /\ answer[r] = "none" /\ handler[r] # "out"
                /\ answer'[r] \in {"500", "lost"} => apiFaults' = apiFaults + 1
    BY <1>0, <1>6, ApiAnswers
  <2>2. ASSUME NEW f \in DOMAIN flights, NEW a \in Failed(f)'
        PROVE  a \in Failed(f) \/ (a = flights[f].attempt /\ apiFaults' = apiFaults + 1)
    <3> DEFINE r == <<f, Len(flights[f].events), a>>
    <3>0. a \in 0 .. MaxRetries
      BY DEF Failed
    <3>1. r \in Attempts
      BY <1>0, <3>0, BatchAttempts
    <3>2. /\ answer'[r] \notin {"401", "429"}
          /\ a < flights[f].attempt \/ answer'[r] \in {"500", "lost"}
      BY <2>0 DEF Failed
    <3>3. r[3] = a /\ r[1] = f
      OBVIOUS
    <3>4. a \in Failed(f) <=> /\ answer[r] \notin {"401", "429"}
                              /\ a < flights[f].attempt \/ answer[r] \in {"500", "lost"}
      BY <3>0 DEF Failed
    <3> HIDE DEF r
    <3>5. CASE answer'[r] = answer[r]
      BY <3>2, <3>4, <3>5
    <3>6. CASE answer[r] = "none" /\ handler[r] # "out"
      <4>1. a <= flights[f].attempt
        BY <1>0, <3>1, <3>3, <3>6 DEF Known, AttemptsKnown
      <4>2. flights[f].attempt \in Nat
        BY <1>0, FlightOf DEF Known, Core
      <4>3. CASE a < flights[f].attempt
        BY <3>4, <3>6, <4>3
      <4>4. CASE a = flights[f].attempt
        BY <2>1, <3>1, <3>2, <3>6, <4>2, <4>4
      <4> QED
        BY <3>0, <4>1, <4>2, <4>3, <4>4
    <3> QED
      BY <2>1, <3>1, <3>5, <3>6
  <2>3. CASE apiFaults' = apiFaults
    <3>1. \A f \in DOMAIN flights : NoMore(f)
      BY <1>0, <2>2, <2>3 DEF NoMore
    <3>2. apiFaults' + cuts' = apiFaults + cuts /\ apiFaults + cuts \in Nat
      BY <1>0, <2>0, <2>3
    <3> QED
      BY <2>0, <3>1, <3>2, FailuresKept DEF PathCore
  <2>4. CASE apiFaults' = apiFaults + 1
    <3>1. \A f \in DOMAIN flights : OneMore(f)
      BY <2>2 DEF OneMore
    <3>2. apiFaults' + cuts' = apiFaults + cuts + 1 /\ apiFaults + cuts \in Nat
      BY <1>0, <2>0, <2>4
    <3> QED
      BY <2>0, <3>1, <3>2, FailuresKept DEF PathCore
  <2> QED
    BY <2>1, <2>3, <2>4
<1>7. ASSUME NEW f \in DOMAIN flights, Answered(f) PROVE FailuresCounted'
  <2>1. /\ UNCHANGED <<answer, apiFaults, cuts>>
        /\ handler[Attempt(f)] = "answered" /\ flights[f].at = "sent"
        /\ Answer(f, Outcome(answer[Attempt(f)]))
        /\ Attempt(f) \in Attempts
    BY <1>0, <1>7, AttemptSent DEF Answered, api
  <2>2. Outcome(answer[Attempt(f)]) \in Answers \ {"none"}
    BY DEF Outcome, Answers
  <2>3. answer[Attempt(f)] \in {"202", "401", "429", "500", "lost"}
    BY <1>0, <2>1, ApiTyped DEF Known, P!Core, P!HandlersAgree, P!HandlerAgrees
  <2>4. \/ Outcome(answer[Attempt(f)]) = "ok"
        \/ answer[Attempt(f)] \in {"401", "429", "500", "lost"}
    BY <2>3 DEF Outcome
  <2>5. \A g \in DOMAIN flights : NoMore(g)
    BY <1>0, <2>1, <2>2, <2>4, FailedAnswer DEF NoMore
  <2>6. DOMAIN flights' = DOMAIN flights
    BY <1>0, <2>1, <2>2, AnswerEffect DEF Known
  <2>7. apiFaults' + cuts' = apiFaults + cuts /\ apiFaults + cuts \in Nat
    BY <1>0, <2>1
  <2> QED
    BY <2>5, <2>6, <2>7, FailuresKept DEF PathCore
<1>8. ASSUME NEW f \in DOMAIN flights, Cut(f) PROVE FailuresCounted' /\ cuts' \in 0 .. MaxFaults
  <2> DEFINE a == IF answer[Attempt(f)] = "202" THEN "lost" ELSE "busy"
  <2>1. /\ UNCHANGED <<answer, apiFaults>> /\ cuts' = cuts + 1
        /\ Answer(f, a) /\ FaultsSoFar < MaxFaults
    BY <1>8 DEF Cut, api
  <2>2. a \in Answers \ {"none"}
    BY DEF Answers
  <2> HIDE DEF a
  <2>3. \A g \in DOMAIN flights : OneMore(g)
    BY <1>0, <2>1, <2>2, FailedAnswer DEF OneMore
  <2>4. DOMAIN flights' = DOMAIN flights
    BY <1>0, <2>1, <2>2, AnswerEffect DEF Known
  <2>5. cuts' \in 0 .. MaxFaults
    BY <1>0, <2>1 DEF FaultsSoFar
  <2>6. apiFaults' + cuts' = apiFaults + cuts + 1 /\ apiFaults + cuts \in Nat
    BY <1>0, <2>1
  <2> QED
    BY <2>3, <2>4, <2>5, <2>6, FailuresKept DEF PathCore
<1>9. (\A f \in DOMAIN flights : ~Cut(f)) => cuts' = cuts
  BY ReachesEffect, <1>0 DEF PathNext, ClientStep, ApiStep, GroupStep, Answered, all
<1> QED
  BY <1>0, <1>4, <1>5, <1>6, <1>7, <1>8, <1>9 DEF PathNext

LEMMA PathCoreInit == PathInit => PathCore
<1> SUFFICES ASSUME PathInit PROVE PathCore
  OBVIOUS
<1>1. Core /\ flights = <<>> /\ queue = <<>> /\ tracked = 0
  BY CoreInit DEF PathInit, Init
<1>2. P!Core
  BY Assumptions, ApiInit, P!CoreInit DEF PathInit
<1>3. G!IInv
  BY Assumptions, GroupInit, G!InvInit DEF PathInit
<1>4. BatchesInOrder
  BY <1>1 DEF BatchesInOrder, IsInjective
<1>5. AttemptsKnown
  BY DEF PathInit, Api!Init, AttemptsKnown
<1>6. FailuresCounted
  BY <1>1 DEF FailuresCounted
<1>7. rebalances = 0 /\ cuts \in 0 .. MaxFaults
  BY DEF PathInit, Group!Init
<1> QED
  BY <1>1, <1>2, <1>3, <1>4, <1>5, <1>6, <1>7 DEF PathCore, Known

\* There is one partition and no rebalance takes it away.
LEMMA NoRebalance ==
  ASSUME rebalances = 0, [PathNext]_all
  PROVE  rebalances' = 0
<1>1. ASSUME NEW w \in Workers, Group!JoinGroup(w) PROVE rebalances' = 0
  BY <1>1 DEF Group!JoinGroup
<1>2. ASSUME NEW w \in Workers, Group!WorkerStep(w) \/ Group!Crash(w) PROVE rebalances' = 0
  BY <1>2 DEF Group!WorkerStep, Group!Start, Group!Poll, Group!LeaveLoop, Group!Close,
     Group!InsertOk, Group!InsertRaises, Group!CommitOk, Group!CommitRaises, Group!Crash,
     Group!ProcessEnds, Group!counters
<1>3. CASE GroupStep
  BY <1>1, <1>2, <1>3 DEF GroupStep
<1> QED
  BY <1>3 DEF PathNext, ClientStep, ApiStep, Reaches, Answered, Cut, all, group

LEMMA PathCoreStep == PathCore /\ [PathNext]_all => PathCore'
<1> SUFFICES ASSUME PathCore, [PathNext]_all PROVE PathCore'
  OBVIOUS
<1>1. Known'
  BY KnownStep DEF PathCore
<1>2. G!IInv'
  BY Assumptions, GroupPathSteps, G!InvStep DEF PathCore
<1>3. FailuresCounted' /\ cuts' \in 0 .. MaxFaults
  BY FailuresStep
<1>4. rebalances' = 0
  BY NoRebalance DEF PathCore
<1> QED
  BY <1>1, <1>2, <1>3, <1>4 DEF PathCore

LEMMA PathInvariant == PathCore => PathInv
<1> SUFFICES ASSUME PathCore PROVE PathInv
  OBVIOUS
<1>1. IInv
  BY Derived DEF PathCore, Known, Core, IInv
<1>2. P!IInv
  BY P!Derived, Assumptions DEF PathCore, Known, P!Core, P!IInv
<1> QED
  BY <1>1, <1>2, ApiInvariant, GroupInvariant DEF PathCore, Known, PathInv

\* The components keep their invariants when they are put together, and what
\* each knows of the others is true: the API has seen only attempts the SDK
\* made, and each attempt that may have left a copy behind took a failure.
THEOREM PathHolds == PathSpec => []PathInv
BY PathCoreInit, PathCoreStep, PathInvariant, PTL DEF PathSpec

-----------------------------------------------------------------------------
(* What a KPI counts.                                                      *)

\* The log has at most one entry of an event per attempt, and all of those but
\* the last took a failure.
LEMMA CopiesInLog ==
  ASSUME PathCore, NEW e
  PROVE  LET D == {i \in DOMAIN log : Origin(log[i]) = e}
         IN  IsFiniteSet(D) /\ Cardinality(D) <= 1 + apiFaults + cuts
<1> DEFINE D == {i \in DOMAIN log : Origin(log[i]) = e}
<1>0. Known /\ apiFaults \in Nat /\ cuts \in Nat
  BY ApiTyped, Assumptions DEF PathCore, Known
<1>1. IsFiniteSet(D)
  <2>1. DOMAIN log = 1 .. Len(log) /\ 1 \in Int /\ Len(log) \in Int
    BY <1>0, ApiTyped DEF Known
  <2>2. IsFiniteSet(DOMAIN log)
    BY <2>1, FS_Interval, Zenon
  <2> QED
    BY <2>2, FS_Subset
<1>2. CASE D = {}
  <2>1. Cardinality(D) = 0
    BY <1>2, FS_EmptySet
  <2> QED
    BY <1>0, <1>1, <2>1
<1>3. ASSUME NEW k \in D
      PROVE  Cardinality(D) <= 1 + apiFaults + cuts
  <2> DEFINE f == log[k][1][1]
             T == Failed(f) \cup {flights[f].attempt}
             h == [i \in D |-> log[i][1][3]]
  <2>1. f \in DOMAIN flights /\ flights[f].attempt \in Nat
    <3>1. f \in DOMAIN flights
      BY <1>0, <1>3, LogEntry, SentEvent
    <3> QED
      BY <1>0, <3>1, FlightOf DEF Known, Core
  <2>2. ASSUME NEW i \in D PROVE h[i] \in T
    <3> DEFINE a == log[i][1][3]
    <3>1. log[i][1][1] = f
      BY <1>0, <1>3, LogEntry, SameOrigin
    <3>2. /\ log[i][1] = <<f, Len(flights[f].events), a>>
          /\ a \in 0 .. MaxRetries /\ a <= flights[f].attempt
          /\ answer[log[i][1]] \notin {"401", "429"}
      <4>1. /\ log[i][1] \in Attempts
            /\ log[i][1][2] = Len(flights[log[i][1][1]].events)
            /\ a \in 0 .. MaxRetries /\ a <= flights[log[i][1][1]].attempt
            /\ answer[log[i][1]] \notin {"401", "429"}
        BY <1>0, LogEntry, SentEvent
      <4>2. log[i][1] = <<log[i][1][1], log[i][1][2], a>>
        BY <4>1, AttemptFacts
      <4> QED
        BY <3>1, <4>1, <4>2
    <3> HIDE DEF a
    <3>3. a = flights[f].attempt \/ a < flights[f].attempt
      BY <2>1, <3>2
    <3>4. a < flights[f].attempt => a \in Failed(f)
      BY <3>2 DEF Failed
    <3> QED
      BY <3>3, <3>4 DEF a
  <2>3. \A i, j \in D : h[i] = h[j] => i = j
    BY <1>0, OneEntryPerAttempt
  <2>4. h \in Injection(D, T)
    <3>1. h \in [D -> T]
      BY <2>2
    <3> HIDE DEF h, D, T
    <3> QED
      BY <2>3, <3>1 DEF Injection, IsInjective
  <2>5. IsFiniteSet(Failed(f)) /\ Cardinality(Failed(f)) <= apiFaults + cuts
    BY <2>1, FailedFinite DEF PathCore, FailuresCounted
  <2>6. IsFiniteSet(T) /\ Cardinality(T) <= Cardinality(Failed(f)) + 1
    <3>1. IsFiniteSet(T)
      BY <2>5, FS_AddElement
    <3>2. Cardinality(T) \in {Cardinality(Failed(f)), Cardinality(Failed(f)) + 1}
      BY <2>5, FS_AddElement
    <3>3. Cardinality(Failed(f)) \in Nat
      BY <2>5, FS_CardinalityType
    <3> QED
      BY <3>1, <3>2, <3>3
  <2>7. Cardinality(D) <= Cardinality(T)
    <3> HIDE DEF h, D, T
    <3> QED
      BY <2>4, <2>6, FS_Injection, Zenon
  <2>8. Cardinality(D) \in Nat /\ Cardinality(T) \in Nat /\ Cardinality(Failed(f)) \in Nat
    BY <1>1, <2>5, <2>6, FS_CardinalityType
  <2> HIDE DEF D, T, f
  <2> QED
    BY <1>0, <2>5, <2>6, <2>7, <2>8
<1> QED
  BY <1>1, <1>2, <1>3

LEMMA CopiesBounded == PathCore => CopiesNeedFaults
<1> SUFFICES ASSUME PathCore, NEW e \in Events
             PROVE  Counted(e) <= (1 + apiFaults + cuts) * (1 + groupFaults)
  BY DEF CopiesNeedFaults
<1> DEFINE D == {i \in DOMAIN log : Origin(log[i]) = e}
           F == [i \in D |-> kpi[<<Partition, i - 1>>]]
           c == 1 + groupFaults
           n == 1 + apiFaults + cuts
<1>1. IsFiniteSet(D) /\ Cardinality(D) <= n /\ Cardinality(D) \in Nat
  BY CopiesInLog, FS_CardinalityType
<1>2. groupFaults \in Nat /\ kpi \in [G!Records -> Nat] /\ c \in Nat
  BY Assumptions DEF PathCore, G!IInv, G!DataInv, G!TypeOK
<1>3. apiFaults \in Nat /\ cuts \in Nat /\ n \in Nat
  BY ApiTyped, Assumptions DEF PathCore, Known
<1>4. \A r \in G!Records : kpi[r] <= c
  <2>1. \A r \in G!Records : kpi[r] <= G!CopiesAllowed
    BY Assumptions, G!BoundsHold DEF PathCore, G!DuplicatesNeedFaults
  <2>2. G!CopiesAllowed = c
    BY <1>2 DEF PathCore, G!CopiesAllowed
  <2> QED
    BY <2>1, <2>2
<1>5. ASSUME NEW i \in D PROVE <<Partition, i - 1>> \in G!Records
  <2>1. i \in 1 .. Len(log) /\ Len(log) \in Nat
    BY ApiTyped DEF PathCore, Known
  <2>2. Len(log) <= MaxEvents * (MaxRetries + 1) /\ MaxEvents * (MaxRetries + 1) \in Nat
    BY LogFits DEF PathCore
  <2> DEFINE L == MaxEvents * (MaxRetries + 1)
  <2>3. i - 1 \in 0 .. L - 1
    <3> HIDE DEF L
    <3>1. Len(log) <= L /\ L \in Nat
      BY <2>2 DEF L
    <3> QED
      BY <2>1, <3>1
  <2> QED
    BY <2>3 DEF G!Records, G!Offsets
<1>6. F \in [D -> Nat] /\ \A i \in D : F[i] <= c
  BY <1>2, <1>4, <1>5
<1>7. G!IsFiniteSet(D) /\ G!Cardinality(D) = Cardinality(D)
  <2> HIDE DEF D
  <2> QED
    BY <1>1 DEF G!IsFiniteSet, IsFiniteSet, G!Cardinality, Cardinality
<1>8. G!SumFunction(F) <= c * G!Cardinality(D)
  <2> HIDE DEF D, F, c
  <2> QED
    BY <1>2, <1>6, <1>7, Assumptions, G!SumAtMost
<1>9. SumFunction(F) = G!SumFunction(F)
  BY SumsAgree
<1>10. c * Cardinality(D) <= n * c
  <2>1. \A k, x, y \in Nat : k <= x => y * k <= x * y
    OBVIOUS
  <2> HIDE DEF D, c, n
  <2> QED
    BY <1>1, <1>2, <1>3, <2>1
<1>11. SumFunction(F) <= n * c
  <2>1. SumFunction(F) \in Nat
    <3>1. G!SumFunction(F) \in Nat
      <4> HIDE DEF D, F, c
      <4> QED
        BY <1>6, <1>7, Assumptions, G!SumNat
    <3> QED
      BY <1>9, <3>1
  <2>2. c * Cardinality(D) \in Nat /\ n * c \in Nat
    BY <1>1, <1>2, <1>3
  <2> HIDE DEF D, F, c, n
  <2> QED
    BY <1>7, <1>8, <1>9, <1>10, <2>1, <2>2
<1> QED
  BY <1>11 DEF Counted

\* A KPI counts an event once more only for a failure on its way: of the API
\* or the network for a copy in the log, of the consumer for a second insert.
THEOREM CopiesAreBounded == PathSpec => []CopiesNeedFaults
BY PathCoreInit, PathCoreStep, CopiesBounded, PTL DEF PathSpec

-----------------------------------------------------------------------------
(* The path implements Delivery.                                           *)

\* What is in the log stays the event it was.
LEMMA LoggedStays ==
  ASSUME PathCore, [PathNext]_all, NEW i \in DOMAIN log
  PROVE  flights'[log[i][1][1]].events[log[i][2]] = Origin(log[i])
<1>1. log[i][1][1] \in DOMAIN flights
  BY LogEntry, SentEvent DEF PathCore
<1>2. [Next]_vars
  BY ClientSteps DEF all
<1> QED
  BY <1>1, <1>2, FlightsGrow DEF PathCore, Known, Origin

\* The consumer has only rows of the log.
LEMMA StoredIsLogged ==
  ASSUME PathCore
  PROVE  \A r \in events : r[2] + 1 \in DOMAIN log
<1>1. log \in Seq(P!Events)
  BY ApiTyped DEF PathCore, Known
<1>2. events \subseteq G!Published
  BY Assumptions DEF PathCore, G!IInv, G!DataInv, G!WithinLog
<1>3. ASSUME NEW r \in events PROVE r[2] + 1 \in 1 .. Len(log)
  <2>1. r \in G!Records /\ r[2] < [p \in {Partition} |-> Len(log)][r[1]]
    BY <1>2 DEF G!Published
  <2>2. r[1] = Partition /\ r[2] \in Nat
    BY <2>1 DEF G!Records, G!Offsets
  <2> QED
    BY <1>1, <2>1, <2>2
<1> QED
  BY <1>1, <1>3

\* Steps that append nothing keep what is kept, and what is stored unless the
\* consumer stores more.
LEMMA NothingKept ==
  ASSUME PathCore, [PathNext]_all, log' = log
  PROVE  /\ Kept' = Kept
         /\ events' = events => Stored' = Stored
<1>1. \A i \in DOMAIN log : Origin(log[i])' = Origin(log[i])
  BY LoggedStays DEF Origin
<1>2. Kept' = Kept
  BY <1>1 DEF Kept, Origin
<1>3. ASSUME events' = events PROVE Stored' = Stored
  BY <1>3, <1>1, StoredIsLogged DEF Stored, Origin
<1> QED
  BY <1>2, <1>3

LEMMA OneKept ==
  ASSUME PathCore, UNCHANGED <<flights, events>>, NEW x \in P!Accumulated, log' = Append(log, x)
  PROVE  Kept' = Kept \cup {Origin(x)} /\ Stored' = Stored
<1>1. log \in Seq(P!Events) /\ x \in P!Events
  BY Assumptions, ApiTyped, P!Sets DEF PathCore, Known
<1>2. /\ DOMAIN log' = DOMAIN log \cup {Len(log) + 1}
      /\ \A i \in DOMAIN log : log'[i] = log[i]
      /\ log'[Len(log) + 1] = x
  BY <1>1
<1>3. \A y : Origin(y)' = Origin(y)
  BY DEF Origin
<1>4. Kept' = Kept \cup {Origin(x)}
  BY <1>2 DEF Kept, Origin
<1>5. Stored' = Stored
  <2>1. \A r \in events : r[2] + 1 \in DOMAIN log
    BY StoredIsLogged
  <2>2. \A r \in events : Origin(log[r[2] + 1])' = Origin(log[r[2] + 1])
    <3>1. \A i \in DOMAIN log : Origin(log[i])' = Origin(log[i])
      BY <1>2 DEF Origin
    <3> QED
      BY ONLY <3>1, <2>1
  <2> QED
    BY ONLY <2>2, events' = events DEF Stored
<1> QED
  BY <1>4, <1>5

\* A process hands its oldest event to the broker.
LEMMA LogEffect ==
  ASSUME PathCore, ApiStep
  PROVE  log' = log \/ \E x \in P!Accumulated : log' = Append(log, x)
<1>0. accumulated \in [Processes -> Seq(P!Events)]
  BY ApiTyped DEF PathCore, Known
<1>1. ASSUME NEW r \in Attempts, Api!Handle(r) PROVE log' = log
  BY <1>1 DEF Api!Handle, Api!Lookup, Api!Limit, Api!Send, Api!Raises
<1>2. ASSUME NEW p \in Processes, accumulated[p] # <<>>
      PROVE  Head(accumulated[p]) \in P!Accumulated
  <2>1. accumulated[p] \in Seq(P!Events) /\ 1 \in DOMAIN accumulated[p]
    BY <1>0, <1>2
  <2> QED
    BY <1>2, <2>1 DEF P!Accumulated, P!ToSet
<1>3. ASSUME NEW p \in Processes, Api!Deliver(p) \/ Api!DeliveryFails(p)
      PROVE  log' = log \/ \E x \in P!Accumulated : log' = Append(log, x)
  BY <1>2, <1>3 DEF Api!Deliver, Api!DeliveryFails
<1>4. ASSUME NEW p \in Processes, Api!Crash(p) PROVE log' = log
  BY <1>4 DEF Api!Crash
<1>5. CASE Api!Revoke
  BY <1>5 DEF Api!Revoke
<1> QED
  BY <1>1, <1>3, <1>4, <1>5 DEF ApiStep

LEMMA PathRefinesInit == PathInit => Promise!Init
BY DEF PathInit, Init, Api!Init, Group!Init, Promise!Init, Kept, Stored

LEMMA Stutters ==
  ASSUME PathCore, [PathNext]_all, UNCHANGED <<promise, log, events>>
  PROVE  UNCHANGED Promise!vars
BY NothingKept DEF Promise!vars

LEMMA ClientRefines ==
  ASSUME PathCore, ClientStep
  PROVE  [Promise!Next]_Promise!vars
<1>0. [PathNext]_all /\ UNCHANGED <<log, events>>
  BY DEF PathNext, ClientStep, api, group
<1>1. CASE Track
  <2> DEFINE e == tracked + 1
  <2>1. e \in Events /\ promise[e] = "none" /\ promise' = [promise EXCEPT ![e] = "pending"]
    <3>1. tracked \in 0 .. MaxEvents /\ tracked < MaxEvents
      BY <1>1 DEF Track, PathCore, Known, Core, TypeOK
    <3>2. e \in Events /\ e > tracked
      BY <3>1 DEF Events
    <3>3. promise[e] = "none"
      BY <3>2 DEF PathCore, Known, Core, TrackedIsPlaced
    <3> QED
      BY <1>1, <3>2, <3>3 DEF Track
  <2>2. Kept' = Kept /\ Stored' = Stored
    BY <1>0, NothingKept
  <2> HIDE DEF e
  <2>3. Promise!Track(e)
    BY <2>1, <2>2 DEF Promise!Track
  <2> QED
    BY <2>1, <2>3 DEF Promise!Next
<1>2. CASE TimerFires \/ Flush \/ Close \/ \E f \in DOMAIN flights : Retry(f)
  <2>1. UNCHANGED promise
    BY <1>2 DEF TimerFires, Flush, Close, Retry
  <2> QED
    BY <1>0, <2>1, Stutters
<1> QED
  BY <1>1, <1>2 DEF ClientStep

LEMMA ApiRefines ==
  ASSUME PathCore, ApiStep
  PROVE  [Promise!Next]_Promise!vars
<1>0. [PathNext]_all /\ UNCHANGED <<promise, flights, events>>
  BY DEF PathNext, ApiStep, vars, group
<1>1. CASE log' = log
  BY <1>0, <1>1, Stutters
<1>2. ASSUME NEW x \in P!Accumulated, log' = Append(log, x)
      PROVE  Promise!Next
  <2> DEFINE e == Origin(x)
             f == x[1][1]
  <2>1. f \in DOMAIN flights /\ e \in Batch(f) /\ e \in Events
    BY SentEvent DEF PathCore
  <2>2. promise[e] = PromiseOf(f)
    BY <2>1 DEF PathCore, Known, Core, BatchAgrees
  <2>3. promise[e] # "none"
    BY <2>2 DEF PromiseOf
  <2>4. Kept' = Kept \cup {e} /\ Stored' = Stored
    BY <1>0, <1>2, OneKept
  <2> HIDE DEF e
  <2>5. Promise!Keep(e)
    BY <1>0, <2>3, <2>4 DEF Promise!Keep
  <2> QED
    BY <2>1, <2>5 DEF Promise!Next
<1> QED
  BY <1>1, <1>2, LogEffect

\* The SDK tells the callers of a batch: what is told of a batch of one event
\* that the API accepted is true.
LEMMA AnswerRefines ==
  ASSUME PathCore, [PathNext]_all, UNCHANGED <<log, events>>,
         NEW f \in DOMAIN flights, NEW a \in Answers \ {"none"}, Answer(f, a),
         a = "ok" => answer[Attempt(f)] = "202"
  PROVE  [Promise!Next]_Promise!vars
<1>1. Kept' = Kept /\ Stored' = Stored
  BY NothingKept
<1>2. CASE promise' = promise
  BY <1>2, Stutters
<1>3. ASSUME NEW how \in {"resolved", "rejected"}, promise' = Settle(Batch(f), how),
             how = "resolved" => a = "ok"
      PROVE  Promise!Next
  <2>0. Known /\ flights[f].at = "sent" /\ flights[f].events \in Seq(Events)
    BY FlightOf DEF PathCore, Known, Core, Answer
  <2>1. Batch(f) \in SUBSET {e \in Events : promise[e] = "pending"}
    <3>1. \A e \in Batch(f) : promise[e] = PromiseOf(f)
      BY <2>0 DEF Known, Core, BatchAgrees
    <3>2. PromiseOf(f) = "pending"
      BY <2>0 DEF PromiseOf
    <3>3. Batch(f) \subseteq Events
      BY <2>0, FlightOf DEF Known, Core
    <3> QED
      BY <3>1, <3>2, <3>3
  <2>2. /\ Len(flights[f].events) \in 1 .. BatchSize
        /\ IsInjective(flights[f].events)
    BY <2>0 DEF Known, BatchesInOrder
  <2>3. /\ 1 \in DOMAIN flights[f].events /\ flights[f].events[1] \in Batch(f)
        /\ Batch(f) = {flights[f].events[i] : i \in DOMAIN flights[f].events}
    BY <2>0, <2>2 DEF Batch, ToSet
  <2>4. how = "resolved" => Batch(f) \subseteq Kept \/ \E d, e \in Batch(f) : d # e
    <3> SUFFICES ASSUME answer[Attempt(f)] = "202"
                 PROVE  Batch(f) \subseteq Kept \/ \E d, e \in Batch(f) : d # e
      BY <1>3
    <3>1. CASE Len(flights[f].events) = 1
      <4> DEFINE r == Attempt(f)
      <4>1. r \in Attempts /\ r[2] = 1 /\ r[1] = f
        BY <2>0, <3>1, AttemptSent DEF Attempt
      <4>2. <<r, 1>> \in P!Logged
        <5> HIDE DEF r
        <5>1. r \in P!Single
          BY <4>1, AttemptFacts DEF P!Single
        <5>2. P!EventsOf(r) \subseteq P!Logged
          BY <2>0, <5>1 DEF r, Known, P!Core, P!SingleAckIsDurable
        <5>3. 1 \in 1 .. [q \in Attempts |-> q[2]][r]
          BY <4>1, AttemptFacts
        <5> QED
          BY <5>2, <5>3 DEF P!EventsOf
      <4>3. PICK i \in DOMAIN log : log[i] = <<r, 1>>
        BY <4>2 DEF P!Logged, P!ToSet
      <4>4. Origin(log[i]) = flights[f].events[1]
        <5> HIDE DEF r
        <5> QED
          BY <4>1, <4>3 DEF Origin
      <4>5. Batch(f) = {flights[f].events[1]}
        <5>1. DOMAIN flights[f].events = {1}
          BY <2>0, <3>1
        <5> QED
          BY <2>3, <5>1
      <4> QED
        BY <4>4, <4>5 DEF Kept
    <3>2. CASE Len(flights[f].events) # 1
      <4> DEFINE n == Len(flights[f].events)
      <4>0. n \in Nat /\ n >= 1 /\ n # 1 /\ DOMAIN flights[f].events = 1 .. n
        BY <2>0, <2>2, <3>2
      <4>1. 2 \in DOMAIN flights[f].events
        <5> HIDE DEF n
        <5> QED
          BY <4>0
      <4>2. flights[f].events[1] # flights[f].events[2]
        BY <2>2, <2>3, <4>1 DEF IsInjective
      <4> QED
        BY <2>3, <4>1, <4>2
    <3> QED
      BY <3>1, <3>2
  <2>5. Promise!Settle
    <3> DEFINE S == Batch(f)
    <3>1. S \in (SUBSET {e \in Events : promise[e] = "pending"}) \ {{}}
      <4>1. S # {}
        BY <2>3
      <4> HIDE DEF S
      <4> QED
        BY <2>1, <4>1 DEF S
    <3>2. promise' = [e \in Events |-> IF e \in S THEN how ELSE promise[e]]
      BY <1>3 DEF Settle
    <3>3. how = "resolved" => S \subseteq Kept \/ \E d, e \in S : d # e
      BY <2>4
    <3> HIDE DEF S
    <3> QED
      BY <1>1, <3>1, <3>2, <3>3 DEF Promise!Settle
  <2> QED
    BY <2>5 DEF Promise!Next
<1>4. \/ promise' = promise
      \/ a = "ok" /\ promise' = Settle(Batch(f), "resolved")
      \/ promise' = Settle(Batch(f), "rejected")
  BY DEF Answer, Batch
<1> QED
  BY <1>2, <1>3, <1>4

LEMMA GroupRefines ==
  ASSUME PathCore, GroupStep
  PROVE  [Promise!Next]_Promise!vars
<1>0. [PathNext]_all /\ UNCHANGED <<promise, flights, log>>
  BY DEF PathNext, GroupStep, vars, api
<1>1. PathCore'
  BY <1>0, PathCoreStep
<1>2. events \subseteq events'
  BY <1>0, Assumptions, GroupPathSteps, G!StoreGrows DEF PathCore
<1>3. Kept' = Kept
  BY <1>0, NothingKept
<1>4. Stored \subseteq Stored'
  BY <1>0, <1>2 DEF Stored, Origin
<1>5. Stored' \subseteq Kept
  <2>1. \A r \in events' : r[2] + 1 \in DOMAIN log
    <3>1. (PathCore => \A r \in events : r[2] + 1 \in DOMAIN log)'
      BY StoredIsLogged, PTL
    <3> QED
      BY <1>0, <1>1, <3>1
  <2> QED
    BY <1>0, <2>1 DEF Stored, Kept, Origin
<1>6. CASE Stored' = Stored
  BY <1>0, <1>3, <1>6 DEF Promise!vars
<1>7. CASE Stored' # Stored
  <2> DEFINE S == Stored' \ Stored
  <2>1. S \in (SUBSET (Kept \ Stored)) \ {{}} /\ Stored' = Stored \cup S
    <3>1. S \subseteq Kept \ Stored /\ Stored' = Stored \cup S
      BY <1>4, <1>5
    <3>2. S # {}
      BY <1>4, <1>7
    <3> HIDE DEF S
    <3> QED
      BY <3>1, <3>2
  <2> HIDE DEF S
  <2>2. Promise!Store
    BY <1>0, <1>3, <2>1 DEF Promise!Store
  <2> QED
    BY <2>2 DEF Promise!Next
<1> QED
  BY <1>6, <1>7

LEMMA PathRefinesStep == PathCore /\ [PathNext]_all => [Promise!Next]_Promise!vars
<1> SUFFICES ASSUME PathCore, [PathNext]_all PROVE [Promise!Next]_Promise!vars
  OBVIOUS
<1>1. ASSUME NEW f \in DOMAIN flights, Reaches(f) PROVE [Promise!Next]_Promise!vars
  <2>1. UNCHANGED <<promise, log, events>>
    BY <1>1, ReachesEffect DEF PathCore, vars, group
  <2> QED
    BY <2>1, Stutters
<1>2. ASSUME NEW f \in DOMAIN flights, Answered(f) PROVE [Promise!Next]_Promise!vars
  <2> DEFINE a == Outcome(answer[Attempt(f)])
  <2>1. UNCHANGED <<log, events>> /\ Answer(f, a)
    BY <1>2 DEF Answered, api, group
  <2>2. a \in Answers \ {"none"} /\ (a = "ok" => answer[Attempt(f)] = "202")
    BY DEF Outcome, Answers
  <2> HIDE DEF a
  <2> QED
    BY <2>1, <2>2, AnswerRefines
<1>3. ASSUME NEW f \in DOMAIN flights, Cut(f) PROVE [Promise!Next]_Promise!vars
  <2> DEFINE a == IF answer[Attempt(f)] = "202" THEN "lost" ELSE "busy"
  <2>1. UNCHANGED <<log, events>> /\ Answer(f, a)
    BY <1>3 DEF Cut, api, group
  <2>2. a \in Answers \ {"none"} /\ a # "ok"
    BY DEF Answers
  <2> HIDE DEF a
  <2> QED
    BY <2>1, <2>2, AnswerRefines
<1>4. CASE UNCHANGED all
  <2>1. UNCHANGED <<promise, log, events>>
    BY <1>4 DEF all, vars, api, group
  <2> QED
    BY <2>1, Stutters
<1> QED
  BY <1>1, <1>2, <1>3, <1>4, ClientRefines, ApiRefines, GroupRefines DEF PathNext

\* From track() to ClickHouse, the path implements Delivery: callers are told
\* once, success for an event alone in its batch only when the broker has it,
\* and only what the broker has is stored, for good.
THEOREM PathDelivers == PathSpec => ImplementsDelivery
BY PathCoreInit, PathCoreStep, PathRefinesInit, PathRefinesStep, PTL
   DEF PathSpec, ImplementsDelivery, Promise!Spec
=============================================================================
