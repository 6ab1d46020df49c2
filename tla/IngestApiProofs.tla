-------------------------- MODULE IngestApiProofs --------------------------
(***************************************************************************)
(* Theorems about IngestApi, for any requests, processes and faults: the   *)
(* 202 of a single event is durable, the log keeps the order of a body, a  *)
(* refused request leaves nothing behind.                                  *)
(***************************************************************************)
EXTENDS IngestApi, TLAPS

USE IngestAssumption

\* IInv without the two statements that follow from the rest.
Core ==
    /\ TypeOK /\ SingleAckIsDurable /\ BodyOrderKept
    /\ HandlersAgree /\ SentInOrder /\ SentIsKept

Locations == {"out", "lookup", "limit", "send", "delivery", "answered"}
Statuses == {"none", "202", "401", "429", "500", "lost"}

-----------------------------------------------------------------------------
(* Sequences.                                                              *)

LEMMA AppendFacts ==
  ASSUME NEW S, NEW q \in Seq(S), NEW e \in S
  PROVE  /\ Append(q, e) \in Seq(S)
         /\ ToSet(Append(q, e)) = ToSet(q) \cup {e}
<1>1. /\ Append(q, e) \in Seq(S)
      /\ DOMAIN Append(q, e) = DOMAIN q \cup {Len(q) + 1}
      /\ Append(q, e)[Len(q) + 1] = e
      /\ \A i \in DOMAIN q : Append(q, e)[i] = q[i]
  OBVIOUS
<1> QED
  BY <1>1 DEF ToSet

LEMMA AppendOrdered ==
  ASSUME NEW S, NEW q \in Seq(S), NEW e \in S, Ordered(q),
         \A x \in ToSet(q) : x[1] = e[1] => x[2] < e[2]
  PROVE  Ordered(Append(q, e))
<1> DEFINE n == Len(q) + 1
<1>1. /\ DOMAIN Append(q, e) = DOMAIN q \cup {n}
      /\ Append(q, e)[n] = e
      /\ \A i \in DOMAIN q : Append(q, e)[i] = q[i] /\ i \in Nat /\ i < n
      /\ n \in Nat
  OBVIOUS
<1> HIDE DEF n
<1>2. \A i \in DOMAIN q : q[i] \in ToSet(q)
  BY DEF ToSet
<1>3. SUFFICES ASSUME NEW i \in DOMAIN q \cup {n}, NEW j \in DOMAIN q \cup {n},
                      i < j, Append(q, e)[i][1] = Append(q, e)[j][1]
               PROVE  Append(q, e)[i][2] < Append(q, e)[j][2]
  BY <1>1 DEF Ordered
<1>4. i \in DOMAIN q
  BY <1>1, <1>3
<1>5. CASE j = n
  BY <1>1, <1>2, <1>3, <1>4, <1>5
<1>6. CASE j \in DOMAIN q
  BY <1>1, <1>3, <1>4, <1>6 DEF Ordered
<1> QED
  BY <1>5, <1>6

LEMMA TailFacts ==
  ASSUME NEW S, NEW q \in Seq(S), q # <<>>
  PROVE  /\ Head(q) \in S /\ Tail(q) \in Seq(S)
         /\ ToSet(q) = {Head(q)} \cup ToSet(Tail(q))
<1>1. /\ Head(q) \in S /\ Tail(q) \in Seq(S)
      /\ Head(q) = q[1] /\ 1 \in DOMAIN q
      /\ \A i \in DOMAIN Tail(q) : i + 1 \in DOMAIN q /\ Tail(q)[i] = q[i + 1]
      /\ \A i \in DOMAIN q : i = 1 \/ (i - 1 \in DOMAIN Tail(q) /\ q[i] = Tail(q)[i - 1])
  OBVIOUS
<1>2. ASSUME NEW x \in ToSet(q) PROVE x \in {Head(q)} \cup ToSet(Tail(q))
  <2> PICK i \in DOMAIN q : x = q[i]
    BY DEF ToSet
  <2> QED
    BY <1>1 DEF ToSet
<1>3. {Head(q)} \cup ToSet(Tail(q)) \subseteq ToSet(q)
  BY <1>1 DEF ToSet
<1> QED
  BY <1>1, <1>2, <1>3

LEMMA TailOrdered ==
  ASSUME NEW S, NEW q \in Seq(S), q # <<>>, Ordered(q)
  PROVE  /\ Ordered(Tail(q))
         /\ \A x \in ToSet(Tail(q)) : Head(q)[1] = x[1] => Head(q)[2] < x[2]
<1>1. /\ Head(q) = q[1] /\ 1 \in DOMAIN q
      /\ \A i \in DOMAIN Tail(q) :
            i \in Nat /\ i >= 1 /\ i + 1 \in DOMAIN q /\ Tail(q)[i] = q[i + 1]
  OBVIOUS
<1>2. Ordered(Tail(q))
  <2> SUFFICES ASSUME NEW i \in DOMAIN Tail(q), NEW j \in DOMAIN Tail(q),
                      i < j, Tail(q)[i][1] = Tail(q)[j][1]
               PROVE  Tail(q)[i][2] < Tail(q)[j][2]
    BY DEF Ordered
  <2>1. i + 1 < j + 1
    BY <1>1
  <2> QED
    BY <2>1, <1>1 DEF Ordered
<1>3. ASSUME NEW x \in ToSet(Tail(q)), Head(q)[1] = x[1]
      PROVE  Head(q)[2] < x[2]
  <2> PICK i \in DOMAIN Tail(q) : x = Tail(q)[i]
    BY DEF ToSet
  <2>1. 1 < i + 1
    BY <1>1
  <2> QED
    BY <2>1, <1>1, <1>3 DEF Ordered
<1> QED
  BY <1>2, <1>3

LEMMA EmptyFacts == ToSet(<<>>) = {} /\ Ordered(<<>>)
BY DEF ToSet, Ordered

LEMMA ToSetIn ==
  ASSUME NEW S, NEW q \in Seq(S)
  PROVE  ToSet(q) \subseteq S
BY DEF ToSet

-----------------------------------------------------------------------------
(* Events.                                                                 *)

LEMMA EventFacts ==
  /\ \A r \in Requests : Size[r] \in Nat /\ Size[r] >= 1
  /\ \A e \in Events : /\ e[1] \in Requests /\ e[2] \in 1 .. Size[e[1]]
                       /\ e = <<e[1], e[2]>> /\ e \in EventsOf(e[1])
  /\ \A r \in Requests : \A k \in 1 .. Size[r] : <<r, k>> \in Events
  /\ \A r \in Requests : \A e \in EventsOf(r) : e \in Events /\ e[1] = r
<1>1. \A r \in Requests : Size[r] \in Nat /\ Size[r] >= 1
  OBVIOUS
<1>2. ASSUME NEW e \in Events
      PROVE  /\ e[1] \in Requests /\ e[2] \in 1 .. Size[e[1]]
             /\ e = <<e[1], e[2]>> /\ e \in EventsOf(e[1])
  <2> PICK r \in Requests : e \in {r} \X (1 .. Size[r])
    BY DEF Events, EventsOf
  <2> QED
    BY DEF EventsOf
<1>3. \A r \in Requests : \A k \in 1 .. Size[r] : <<r, k>> \in Events
  BY DEF Events, EventsOf
<1>4. \A r \in Requests : \A e \in EventsOf(r) : e \in Events /\ e[1] = r
  BY DEF Events, EventsOf
<1> QED
  BY <1>1, <1>2, <1>3, <1>4

\* A request with one event has one.
LEMMA SingleFacts ==
  ASSUME NEW r \in Single, NEW e \in Events, e[1] = r
  PROVE  EventsOf(r) = {e}
<1>1. r \in Requests /\ Size[r] = 1
  BY DEF Single
<1>2. e = <<r, 1>>
  BY <1>1, EventFacts
<1>3. EventsOf(r) = {<<r, 1>>}
  BY <1>1 DEF EventsOf
<1> QED
  BY <1>2, <1>3

LEMMA Sets == TypeOK => Logged \subseteq Events /\ Accumulated \subseteq Events
BY ToSetIn DEF TypeOK, Logged, Accumulated

-----------------------------------------------------------------------------
LEMMA Derived == Core => AckedIsKept /\ RefusedLeavesNothing
<1> SUFFICES ASSUME Core PROVE AckedIsKept /\ RefusedLeavesNothing
  OBVIOUS
<1>0. Logged \subseteq Events /\ Accumulated \subseteq Events /\ next \in [Requests -> Nat]
  BY Sets DEF Core, TypeOK
<1>1. ASSUME NEW r \in Requests, answer[r] = "202", faults = 0
      PROVE  EventsOf(r) \subseteq Logged \cup Accumulated
  <2>1. next[r] = Size[r] + 1
    BY <1>1 DEF Core, HandlersAgree, HandlerAgrees
  <2>2. \A e \in EventsOf(r) : e \in Events /\ e[1] = r /\ e[2] < next[r]
    BY <2>1, EventFacts
  <2> QED
    BY <2>2, <1>1 DEF Core, SentIsKept
<1>2. ASSUME NEW r \in Requests, answer[r] \in {"401", "429"} \/ r \in late
      PROVE  EventsOf(r) \cap (Logged \cup Accumulated) = {}
  <2>1. next[r] = 1
    BY <1>2 DEF Core, HandlersAgree, HandlerAgrees
  <2>2. \A e \in EventsOf(r) : e[1] = r /\ ~(e[2] < next[r])
    BY <2>1, EventFacts
  <2> QED
    BY <2>2 DEF Core, SentInOrder
<1> QED
  BY <1>1, <1>2 DEF AckedIsKept, RefusedLeavesNothing

-----------------------------------------------------------------------------
LEMMA CoreInit == Init => Core
<1> SUFFICES ASSUME Init PROVE Core
  OBVIOUS
<1>1. Logged = {} /\ Accumulated = {}
  BY EmptyFacts DEF Init, Logged, Accumulated
<1>2. TypeOK
  <2>1. log \in Seq(Events) /\ accumulated \in [Processes -> Seq(Events)]
    BY DEF Init
  <2>2. /\ revoked \in BOOLEAN
        /\ pc \in [Requests -> {"out", "lookup", "limit", "send", "delivery", "answered"}]
        /\ at \in [Requests -> Processes \cup {NoProcess}]
        /\ answer \in [Requests -> {"none", "202", "401", "429", "500", "lost"}]
        /\ up \in [Processes -> BOOLEAN]
        /\ late \subseteq Requests
    BY DEF Init
  <2>3. next \in [Requests -> Nat] /\ \A r \in Requests : next[r] \in 1 .. Size[r] + 1
    BY DEF Init
  <2>4. faults \in 0 .. MaxFaults
    BY DEF Init
  <2> QED
    BY <2>1, <2>2, <2>3, <2>4 DEF TypeOK
<1>3. BodyOrderKept
  BY EmptyFacts DEF Init, BodyOrderKept
<1>4. SingleAckIsDurable
  BY DEF Init, SingleAckIsDurable, Single
<1>5. HandlersAgree
  BY DEF Init, HandlersAgree, HandlerAgrees
<1>6. SentInOrder
  BY <1>1, EmptyFacts DEF Init, SentInOrder
<1>7. SentIsKept
  <2> SUFFICES ASSUME NEW e \in Events PROVE ~(e[2] < next[e[1]])
    BY DEF SentIsKept
  <2> QED
    BY EventFacts DEF Init
<1> QED
  BY <1>2, <1>3, <1>4, <1>5, <1>6, <1>7 DEF Core

\* A step that moves no event and sends none.
LEMMA QuietCore ==
  ASSUME Core, TypeOK', HandlersAgree', UNCHANGED <<next, accumulated, log>>,
         \A r \in Requests : at'[r] = at[r] \/ pc[r] = "out",
         \A r \in Single : answer'[r] = "202" => answer[r] = "202",
         faults' = 0 => faults = 0
  PROVE  Core'
<1>1. Logged' = Logged /\ Accumulated' = Accumulated
  BY DEF Logged, Accumulated
<1>2. SingleAckIsDurable'
  BY <1>1 DEF Core, SingleAckIsDurable
<1>3. BodyOrderKept'
  BY DEF Core, BodyOrderKept
<1>4. SentIsKept'
  BY <1>1 DEF Core, SentIsKept
<1>5. ASSUME NEW p \in Processes, NEW e \in ToSet(accumulated[p])
      PROVE  at'[e[1]] = p
  <2>1. e \in Accumulated /\ e \in Events
    BY Sets DEF Core, Accumulated
  <2>2. e[2] < next[e[1]] /\ at[e[1]] = p
    BY <2>1 DEF Core, SentInOrder
  <2>3. next[e[1]] # 1 /\ e[1] \in Requests
    BY <2>1, <2>2, EventFacts
  <2>4. pc[e[1]] # "out"
    BY <2>3 DEF Core, HandlersAgree, HandlerAgrees
  <2> QED
    BY <2>2, <2>3, <2>4
<1>6. SentInOrder'
  BY <1>1, <1>5 DEF Core, SentInOrder
<1> QED
  BY <1>2, <1>3, <1>4, <1>6 DEF Core

LEMMA TypedState ==
  TypeOK =>
    /\ pc \in [Requests -> Locations] /\ answer \in [Requests -> Statuses]
    /\ at \in [Requests -> Processes \cup {NoProcess}]
    /\ next \in [Requests -> Nat] /\ \A r \in Requests : next[r] \in 1 .. Size[r] + 1
    /\ accumulated \in [Processes -> Seq(Events)] /\ log \in Seq(Events)
    /\ faults \in Nat /\ faults <= MaxFaults
BY DEF TypeOK, Locations, Statuses

\* What Respond and Goto leave.
LEMMA RespondEffect ==
  ASSUME TypeOK, NEW r \in Requests, NEW s \in Statuses, Respond(r, s)
  PROVE  /\ pc' \in [Requests -> Locations] /\ answer' \in [Requests -> Statuses]
         /\ pc'[r] = "answered" /\ answer'[r] = s
         /\ \A q \in Requests \ {r} : pc'[q] = pc[q] /\ answer'[q] = answer[q]
BY TypedState DEF Respond, Locations

LEMMA GotoEffect ==
  ASSUME TypeOK, NEW r \in Requests, NEW l \in Locations, Goto(r, l)
  PROVE  /\ pc' \in [Requests -> Locations] /\ answer' = answer
         /\ pc'[r] = l
         /\ \A q \in Requests \ {r} : pc'[q] = pc[q]
BY TypedState DEF Goto

LEMMA ArriveCore ==
  ASSUME Core, NEW r \in Requests, NEW p \in Processes, Arrive(r, p)
  PROVE  Core'
<1>0. TypeOK /\ "lookup" \in Locations
  BY DEF Core, Locations
<1>1. /\ pc[r] = "out" /\ at' = [at EXCEPT ![r] = p] /\ at'[r] = p
      /\ \A q \in Requests \ {r} : at'[q] = at[q]
      /\ late' = IF revoked THEN late \cup {r} ELSE late
      /\ UNCHANGED <<revoked, next, up, accumulated, log, faults>>
  BY <1>0, TypedState DEF Arrive
<1>2. /\ pc' \in [Requests -> Locations] /\ answer' = answer
      /\ pc'[r] = "lookup" /\ \A q \in Requests \ {r} : pc'[q] = pc[q]
  BY <1>0, GotoEffect DEF Arrive
<1>3. TypeOK'
  <2>1. at' \in [Requests -> Processes \cup {NoProcess}]
    BY <1>0, <1>1, TypedState
  <2> QED
    BY <1>0, <1>1, <1>2, <2>1 DEF TypeOK, Locations
<1>4. HandlersAgree'
  BY <1>1, <1>2 DEF Core, HandlersAgree, HandlerAgrees
<1> QED
  BY <1>1, <1>2, <1>3, <1>4, QuietCore

\* The steps of a handler that send nothing.
LEMMA HandlerCore ==
  ASSUME Core, NEW r \in Requests,
         \/ Lookup(r) \/ Limit(r) \/ Raises(r)
  PROVE  Core'
<1>0. TypeOK
  BY DEF Core
<1>1. /\ UNCHANGED <<revoked, at, next, up, accumulated, log, late>>
      /\ faults' = faults \/ (faults < MaxFaults /\ faults' = faults + 1)
      /\ pc[r] \in {"lookup", "limit", "send"}
      /\ \/ pc[r] = "lookup" /\ ~revoked /\ Goto(r, "limit")
         \/ pc[r] = "limit" /\ Goto(r, "send")
         \/ pc[r] \in {"lookup", "limit"} /\ \E s \in {"401", "429"} : Respond(r, s)
         \/ Respond(r, "500")
  BY DEF Lookup, Limit, Raises, Found
<1>2. faults' \in 0 .. MaxFaults /\ (faults' = 0 => faults = 0)
  BY <1>0, <1>1, TypedState
<1>3. /\ pc' \in [Requests -> Locations] /\ answer' \in [Requests -> Statuses]
      /\ \A q \in Requests \ {r} : pc'[q] = pc[q] /\ answer'[q] = answer[q]
      /\ \/ pc[r] = "lookup" /\ ~revoked /\ pc'[r] = "limit" /\ answer'[r] = answer[r]
         \/ pc[r] = "limit" /\ pc'[r] = "send" /\ answer'[r] = answer[r]
         \/ /\ pc[r] \in {"lookup", "limit"}
            /\ pc'[r] = "answered" /\ answer'[r] \in {"401", "429"}
         \/ pc'[r] = "answered" /\ answer'[r] = "500"
  <2>1. CASE Goto(r, "limit") /\ pc[r] = "lookup" /\ ~revoked
    BY <2>1, <1>0, GotoEffect, TypedState DEF Locations
  <2>2. CASE Goto(r, "send") /\ pc[r] = "limit"
    BY <2>2, <1>0, GotoEffect, TypedState DEF Locations
  <2>3. CASE pc[r] \in {"lookup", "limit"} /\ \E s \in {"401", "429"} : Respond(r, s)
    <3> PICK s \in {"401", "429"} : Respond(r, s)
      BY <2>3
    <3> QED
      BY <2>3, <1>0, RespondEffect DEF Statuses
  <2>4. CASE Respond(r, "500")
    BY <2>4, <1>0, RespondEffect DEF Statuses
  <2> QED
    BY <1>1, <2>1, <2>2, <2>3, <2>4
<1>4. TypeOK'
  BY <1>0, <1>1, <1>2, <1>3 DEF TypeOK, Locations, Statuses
<1>5. HandlersAgree'
  <2> SUFFICES ASSUME NEW q \in Requests PROVE HandlerAgrees(q)'
    BY DEF HandlersAgree
  <2>1. CASE q # r
    BY <2>1, <1>1, <1>3 DEF Core, HandlersAgree, HandlerAgrees
  <2>2. CASE q = r
    BY <2>2, <1>1, <1>3, EventFacts DEF Core, HandlersAgree, HandlerAgrees
  <2> QED
    BY <2>1, <2>2
<1>6. \A q \in Single : answer'[q] = "202" => answer[q] = "202"
  BY <1>3 DEF Single
<1> QED
  BY <1>1, <1>2, <1>4, <1>5, <1>6, QuietCore

\* An event is handed over: it is accumulated behind those of its body.
LEMMA SendCore ==
  ASSUME Core, NEW r \in Requests, Send(r)
  PROVE  Core'
<1> DEFINE p == at[r]
           e == <<r, next[r]>>
<1>0. /\ TypeOK /\ pc[r] = "send" /\ next[r] <= Size[r] /\ p \in Processes
      /\ answer[r] = "none" /\ r \notin late
  BY DEF Core, HandlersAgree, HandlerAgrees, Send
<1>1. /\ next \in [Requests -> Nat] /\ \A q \in Requests : next[q] \in 1 .. Size[q] + 1
      /\ Size[r] \in Nat
      /\ accumulated \in [Processes -> Seq(Events)] /\ log \in Seq(Events)
      /\ Logged \subseteq Events /\ Accumulated \subseteq Events
      /\ e \in Events
  BY <1>0, TypedState, EventFacts, Sets
<1>2. /\ accumulated' = [accumulated EXCEPT ![p] = Append(@, e)]
      /\ next' = [next EXCEPT ![r] = @ + 1]
      /\ UNCHANGED <<revoked, at, up, log, late, faults>>
  BY DEF Send, Index
<1>3. /\ next' \in [Requests -> Nat] /\ \A q \in Requests : next'[q] \in 1 .. Size[q] + 1
      /\ next'[r] = next[r] + 1
      /\ \A q \in Requests \ {r} : next'[q] = next[q]
  BY <1>0, <1>1, <1>2, EventFacts
<1>4. /\ pc' \in [Requests -> Locations] /\ answer' \in [Requests -> Statuses]
      /\ \A q \in Requests \ {r} : pc'[q] = pc[q] /\ answer'[q] = answer[q]
      /\ \/ /\ next[r] = Size[r] /\ r \in Single
            /\ pc'[r] = "delivery" /\ answer'[r] = "none"
         \/ /\ next[r] = Size[r] /\ r \notin Single
            /\ pc'[r] = "answered" /\ answer'[r] = "202"
         \/ next[r] # Size[r] /\ pc'[r] = "send" /\ answer'[r] = "none"
  <2>1. CASE next[r] = Size[r] /\ r \in Single
    BY <2>1, <1>0, GotoEffect, TypedState DEF Send, IsLast, AfterLastSend, Locations
  <2>2. CASE next[r] = Size[r] /\ r \notin Single
    BY <2>2, <1>0, RespondEffect DEF Send, IsLast, AfterLastSend, Statuses
  <2>3. CASE next[r] # Size[r]
    BY <2>3, <1>0, TypedState DEF Send, IsLast
  <2> QED
    BY <2>1, <2>2, <2>3
<1>5. /\ accumulated'[p] = Append(accumulated[p], e)
      /\ \A q \in Processes \ {p} : accumulated'[q] = accumulated[q]
      /\ accumulated[p] \in Seq(Events)
  BY <1>0, <1>1, <1>2
<1>6. /\ Append(accumulated[p], e) \in Seq(Events)
      /\ ToSet(accumulated'[p]) = ToSet(accumulated[p]) \cup {e}
  <2> HIDE DEF e, p
  <2> QED
    BY <1>1, <1>5, AppendFacts
<1>7. Logged' = Logged /\ Accumulated' = Accumulated \cup {e}
  <2>1. Logged' = Logged
    BY <1>2 DEF Logged
  <2> HIDE DEF e, p
  <2>2. \A q \in Processes \ {p} : ToSet(accumulated'[q]) = ToSet(accumulated[q])
    BY ONLY <1>5
  <2>3. Accumulated' = Accumulated \cup {e}
    BY ONLY <1>0, <1>6, <2>2 DEF Accumulated
  <2> QED
    BY <2>1, <2>3
<1>8. \A x \in Logged \cup Accumulated : x[2] < next[x[1]] /\ x \in Events
  BY <1>1 DEF Core, SentInOrder
<1>9. TypeOK'
  <2>1. accumulated' \in [Processes -> Seq(Events)]
    BY <1>1, <1>2, <1>5, <1>6
  <2> QED
    BY <1>0, <1>2, <1>3, <1>4, <2>1 DEF TypeOK, Locations, Statuses
<1>10. HandlersAgree'
  <2> SUFFICES ASSUME NEW q \in Requests PROVE HandlerAgrees(q)'
    BY DEF HandlersAgree
  <2>1. CASE q # r
    BY <2>1, <1>2, <1>3, <1>4 DEF Core, HandlersAgree, HandlerAgrees
  <2>2. CASE q = r
    BY <2>2, <1>0, <1>1, <1>2, <1>3, <1>4 DEF HandlerAgrees
  <2> QED
    BY <2>1, <2>2
<1>11. SingleAckIsDurable'
  BY <1>4, <1>7 DEF Core, SingleAckIsDurable, Single
<1>12. BodyOrderKept'
  BY <1>2 DEF Core, BodyOrderKept
<1>13. SentInOrder'
  <2>1. \A x \in Logged' \cup Accumulated' : x[2] < next'[x[1]]
    <3> SUFFICES ASSUME NEW x \in Logged \cup Accumulated \cup {e}
                 PROVE  x[2] < next'[x[1]]
      BY <1>7
    <3>1. CASE x = e
      BY <3>1, <1>1, <1>3
    <3>2. CASE x \in Logged \cup Accumulated
      <4>1. x[1] \in Requests /\ x[2] \in Nat /\ x[2] < next[x[1]]
        BY <3>2, <1>8, EventFacts
      <4>2. CASE x[1] = r
        BY <4>1, <4>2, <1>1, <1>3
      <4>3. CASE x[1] # r
        BY <4>1, <4>3, <1>3
      <4> QED
        BY <4>2, <4>3
    <3> QED
      BY <3>1, <3>2
  <2>2. \A x \in Logged', f \in Accumulated' : x[1] = f[1] => x[2] < f[2]
    <3> SUFFICES ASSUME NEW x \in Logged, NEW f \in Accumulated \cup {e}, x[1] = f[1]
                 PROVE  x[2] < f[2]
      BY <1>7
    <3>1. CASE f = e
      BY <3>1, <1>8
    <3>2. CASE f \in Accumulated
      BY <3>2 DEF Core, SentInOrder
    <3> QED
      BY <3>1, <3>2
  <2>3. ASSUME NEW q \in Processes
        PROVE  /\ Ordered(accumulated'[q])
               /\ \A x \in ToSet(accumulated'[q]) : at'[x[1]] = q
    <3>1. CASE q # p
      BY <3>1, <1>2, <1>5 DEF Core, SentInOrder
    <3>2. CASE q = p
      <4>1. \A x \in ToSet(accumulated[p]) : x[1] = r => x[2] < next[r]
        BY <1>0, <1>8 DEF Accumulated
      <4>2. Ordered(accumulated[p])
        BY <1>0 DEF Core, SentInOrder
      <4>3. e[1] = r /\ e[2] = next[r]
        OBVIOUS
      <4> HIDE DEF e
      <4>4. Ordered(Append(accumulated[p], e))
        BY <1>1, <1>5, <4>1, <4>2, <4>3, AppendOrdered
      <4>5. \A x \in ToSet(accumulated'[p]) : at[x[1]] = p
        BY <1>0, <1>6, <4>3 DEF Core, SentInOrder
      <4> QED
        BY <3>2, <4>4, <4>5, <1>2, <1>5
    <3> QED
      BY <3>1, <3>2
  <2> HIDE DEF e, p
  <2> QED
    BY <2>1, <2>2, <2>3 DEF SentInOrder
<1>14. SentIsKept'
  <2> SUFFICES ASSUME faults = 0, NEW x \in Events, x[2] < next'[x[1]]
               PROVE  x \in Logged \cup Accumulated \cup {e}
    BY <1>2, <1>7 DEF SentIsKept
  <2>1. CASE x[2] < next[x[1]]
    BY <2>1 DEF Core, SentIsKept
  <2>2. CASE ~(x[2] < next[x[1]])
    <3>1. x[1] \in Requests /\ x[2] \in Nat /\ x = <<x[1], x[2]>>
      BY EventFacts
    <3>2. x[1] = r
      BY <2>2, <3>1, <1>3
    <3>3. x[2] = next[r]
      BY <2>2, <3>1, <3>2, <1>1, <1>3
    <3> QED
      BY <3>1, <3>2, <3>3
  <2> QED
    BY <2>1, <2>2
<1> QED
  BY <1>9, <1>10, <1>11, <1>12, <1>13, <1>14 DEF Core

\* An event leaves a producer, for the log or for good.
LEMMA LeaveCore ==
  ASSUME Core, NEW p \in Processes, Deliver(p) \/ DeliveryFails(p)
  PROVE  Core'
<1> DEFINE q == accumulated[p]
           e == Head(q)
           r == e[1]
<1>0. TypeOK
  BY DEF Core
<1>1. /\ q # <<>> /\ accumulated' = [accumulated EXCEPT ![p] = Tail(@)]
      /\ UNCHANGED <<revoked, at, next, up, late>>
      /\ \/ log' = Append(log, e) /\ faults' = faults
         \/ /\ log' \in {log, Append(log, e)}
            /\ faults < MaxFaults /\ faults' = faults + 1
      /\ IF pc[r] = "delivery"
         THEN \/ Respond(r, "202") /\ log' = Append(log, e)
              \/ Respond(r, "500")
         ELSE UNCHANGED <<pc, answer>>
  BY DEF Deliver, DeliveryFails, Awaits
<1>2. /\ q \in Seq(Events) /\ log \in Seq(Events)
      /\ accumulated \in [Processes -> Seq(Events)]
      /\ Logged \subseteq Events /\ Accumulated \subseteq Events
  BY <1>0, TypedState, Sets
<1>3. /\ e \in Events /\ Tail(q) \in Seq(Events)
      /\ ToSet(q) = {e} \cup ToSet(Tail(q))
  <2> HIDE DEF q
  <2> QED
    BY <1>1, <1>2, TailFacts
<1>4. /\ Ordered(Tail(q))
      /\ \A x \in ToSet(Tail(q)) : r = x[1] => e[2] < x[2]
  <2>1. Ordered(q)
    BY DEF Core, SentInOrder
  <2> HIDE DEF q
  <2> QED
    BY <2>1, <1>1, <1>2, TailOrdered
<1>5. r \in Requests /\ at[r] = p /\ e \in Accumulated
  BY <1>3, EventFacts DEF Core, SentInOrder, Accumulated
<1> HIDE DEF e
<1>6. /\ accumulated' \in [Processes -> Seq(Events)]
      /\ accumulated'[p] = Tail(q)
      /\ \A s \in Processes \ {p} : accumulated'[s] = accumulated[s]
  <2>1. accumulated' = [accumulated EXCEPT ![p] = Tail(q)]
    BY <1>1
  <2> HIDE DEF q
  <2> QED
    BY <2>1, <1>2, <1>3
<1>7. /\ Accumulated' \subseteq Accumulated
      /\ Accumulated \subseteq Accumulated' \cup {e}
  BY <1>3, <1>6 DEF Accumulated
<1>8. /\ Append(log, e) \in Seq(Events)
      /\ ToSet(Append(log, e)) = Logged \cup {e}
      /\ Ordered(Append(log, e))
  <2>1. \A x \in ToSet(log) : x[1] = e[1] => x[2] < e[2]
    BY <1>5 DEF Core, SentInOrder, Logged
  <2> QED
    BY <2>1, <1>2, <1>3, AppendFacts, AppendOrdered DEF Core, BodyOrderKept, Logged
<1>9. /\ log' \in Seq(Events)
      /\ Logged' = Logged \/ Logged' = Logged \cup {e}
      /\ log' = Append(log, e) => Logged' = Logged \cup {e}
      /\ Ordered(log')
  <2>1. CASE log' = Append(log, e)
    BY <2>1, <1>8 DEF Logged
  <2>2. CASE log' = log
    BY <2>2, <1>1, <1>2, <1>8 DEF Logged, Core, BodyOrderKept
  <2> QED
    BY <2>1, <2>2, <1>1
<1>10. faults' \in 0 .. MaxFaults /\ (faults' = 0 => faults = 0 /\ log' = Append(log, e))
  BY <1>0, <1>1, TypedState
<1>11. /\ pc' \in [Requests -> Locations] /\ answer' \in [Requests -> Statuses]
       /\ \A s \in Requests \ {r} : pc'[s] = pc[s] /\ answer'[s] = answer[s]
       /\ \/ pc'[r] = pc[r] /\ answer'[r] = answer[r]
          \/ /\ pc[r] = "delivery" /\ pc'[r] = "answered"
             /\ answer'[r] = "500" \/ (answer'[r] = "202" /\ e \in Logged')
  <2>1. CASE pc[r] = "delivery" /\ Respond(r, "202") /\ log' = Append(log, e)
    BY <2>1, <1>0, <1>5, <1>9, RespondEffect DEF Statuses
  <2>2. CASE pc[r] = "delivery" /\ Respond(r, "500")
    BY <2>2, <1>0, <1>5, RespondEffect DEF Statuses
  <2>3. CASE UNCHANGED <<pc, answer>>
    BY <2>3, <1>0, TypedState
  <2> QED
    BY <1>1, <2>1, <2>2, <2>3
<1> HIDE DEF q, r
<1>12. TypeOK'
  BY <1>0, <1>1, <1>6, <1>9, <1>10, <1>11 DEF TypeOK, Locations, Statuses
<1>13. HandlersAgree'
  <2> SUFFICES ASSUME NEW s \in Requests PROVE HandlerAgrees(s)'
    BY DEF HandlersAgree
  <2>1. CASE s # r \/ (pc'[r] = pc[r] /\ answer'[r] = answer[r])
    BY <2>1, <1>1, <1>11 DEF Core, HandlersAgree, HandlerAgrees
  <2>2. CASE s = r /\ pc[r] = "delivery" /\ pc'[r] = "answered" /\ answer'[r] \in {"500", "202"}
    BY <2>2, <1>1 DEF Core, HandlersAgree, HandlerAgrees
  <2> QED
    BY <2>1, <2>2, <1>11
<1>14. SingleAckIsDurable'
  <2> SUFFICES ASSUME NEW s \in Single, answer'[s] = "202"
               PROVE  EventsOf(s) \subseteq Logged'
    BY DEF SingleAckIsDurable
  <2>1. CASE answer[s] = "202"
    BY <2>1, <1>9 DEF Core, SingleAckIsDurable
  <2>2. CASE answer[s] # "202"
    <3>1. s \in Requests /\ s = r /\ e \in Logged'
      BY <2>2, <1>11 DEF Single
    <3> QED
      BY <3>1, <1>3, SingleFacts DEF r
  <2> QED
    BY <2>1, <2>2
<1>15. BodyOrderKept'
  BY <1>9 DEF BodyOrderKept
<1>16. SentInOrder'
  <2>1. \A x \in Logged' \cup Accumulated' : x[2] < next'[x[1]]
    BY <1>1, <1>5, <1>7, <1>9 DEF Core, SentInOrder
  <2>2. \A x \in Logged', f \in Accumulated' : x[1] = f[1] => x[2] < f[2]
    <3> SUFFICES ASSUME NEW x \in Logged', NEW f \in Accumulated', x[1] = f[1]
                 PROVE  x[2] < f[2]
      OBVIOUS
    <3>1. CASE x \in Logged
      BY <3>1, <1>7 DEF Core, SentInOrder
    <3>2. CASE x = e
      <4>1. PICK s \in Processes : f \in ToSet(accumulated'[s])
        BY DEF Accumulated
      <4>2. CASE s = p
        BY <3>2, <4>1, <4>2, <1>4, <1>6 DEF r
      <4>3. CASE s # p
        <5>1. at[f[1]] = s
          BY <4>1, <4>3, <1>6 DEF Core, SentInOrder
        <5> QED
          BY <5>1, <4>3, <3>2, <1>5 DEF r
      <4> QED
        BY <4>2, <4>3
    <3> QED
      BY <3>1, <3>2, <1>9
  <2>3. ASSUME NEW s \in Processes
        PROVE  /\ Ordered(accumulated'[s])
               /\ \A x \in ToSet(accumulated'[s]) : at'[x[1]] = s
    <3>1. CASE s # p
      BY <3>1, <1>1, <1>6 DEF Core, SentInOrder
    <3>2. CASE s = p
      <4>1. \A x \in ToSet(accumulated[p]) : at[x[1]] = p
        BY DEF Core, SentInOrder
      <4> QED
        BY <3>2, <4>1, <1>1, <1>3, <1>4, <1>6 DEF q
    <3> QED
      BY <3>1, <3>2
  <2> QED
    BY <2>1, <2>2, <2>3 DEF SentInOrder
<1>17. SentIsKept'
  <2> SUFFICES ASSUME faults' = 0, NEW x \in Events, x[2] < next'[x[1]]
               PROVE  x \in Logged' \cup Accumulated'
    BY DEF SentIsKept
  <2>1. x \in Logged \cup Accumulated
    BY <1>1, <1>10 DEF Core, SentIsKept
  <2> QED
    BY <2>1, <1>7, <1>9, <1>10
<1> QED
  BY <1>12, <1>13, <1>14, <1>15, <1>16, <1>17 DEF Core

LEMMA CrashCore ==
  ASSUME Core, NEW p \in Processes, Crash(p)
  PROVE  Core'
<1>0. TypeOK
  BY DEF Core
<1>1. /\ faults \in Nat /\ faults' = faults + 1 /\ faults' \in 0 .. MaxFaults
      /\ accumulated' = [accumulated EXCEPT ![p] = <<>>]
      /\ up' = [up EXCEPT ![p] = TRUE]
      /\ UNCHANGED <<revoked, at, next, log, late>>
  BY <1>0, TypedState DEF Crash
<1>2. /\ pc' \in [Requests -> Locations] /\ answer' \in [Requests -> Statuses]
      /\ \A r \in Requests :
            \/ r \in Serving(p) /\ pc'[r] = "answered" /\ answer'[r] = "lost"
            \/ pc'[r] = pc[r] /\ answer'[r] = answer[r]
  <2>1. /\ pc' = [r \in Requests |-> IF r \in Serving(p) THEN "answered" ELSE pc[r]]
        /\ answer' = [r \in Requests |-> IF r \in Serving(p) THEN "lost" ELSE answer[r]]
    BY DEF Crash
  <2>2. pc \in [Requests -> Locations] /\ answer \in [Requests -> Statuses]
    BY <1>0, TypedState
  <2>3. "answered" \in Locations /\ "lost" \in Statuses
    BY DEF Locations, Statuses
  <2> QED
    BY <2>1, <2>2, <2>3
<1>3. /\ accumulated' \in [Processes -> Seq(Events)]
      /\ \A q \in Processes : accumulated'[q] = <<>> \/ accumulated'[q] = accumulated[q]
  <2>1. accumulated \in [Processes -> Seq(Events)] /\ <<>> \in Seq(Events)
    BY <1>0, TypedState
  <2> QED
    BY <2>1, <1>1
<1>4. Logged' = Logged /\ Accumulated' \subseteq Accumulated
  <2>1. \A q \in Processes : ToSet(accumulated'[q]) \subseteq ToSet(accumulated[q])
    BY <1>3, EmptyFacts
  <2> QED
    BY <2>1, <1>1 DEF Logged, Accumulated
<1>5. TypeOK'
  <2>1. up' \in [Processes -> BOOLEAN]
    BY <1>0, <1>1 DEF TypeOK
  <2> QED
    BY <2>1, <1>0, <1>1, <1>2, <1>3 DEF TypeOK, Locations, Statuses
<1>6. HandlersAgree'
  <2> SUFFICES ASSUME NEW r \in Requests PROVE HandlerAgrees(r)'
    BY DEF HandlersAgree
  <2>1. CASE pc'[r] = pc[r] /\ answer'[r] = answer[r]
    BY <2>1, <1>1 DEF Core, HandlersAgree, HandlerAgrees
  <2>2. CASE r \in Serving(p) /\ pc'[r] = "answered" /\ answer'[r] = "lost"
    BY <2>2, <1>1 DEF Core, HandlersAgree, HandlerAgrees, Serving
  <2> QED
    BY <2>1, <2>2, <1>2
<1>7. SingleAckIsDurable'
  BY <1>2, <1>4 DEF Core, SingleAckIsDurable, Single
<1>8. BodyOrderKept'
  BY <1>1 DEF Core, BodyOrderKept
<1>9. SentInOrder'
  <2>1. \A q \in Processes :
          /\ Ordered(accumulated'[q])
          /\ \A x \in ToSet(accumulated'[q]) : at[x[1]] = q
    BY <1>3, EmptyFacts DEF Core, SentInOrder
  <2> QED
    BY <2>1, <1>1, <1>4 DEF Core, SentInOrder
<1>10. SentIsKept'
  BY <1>1 DEF SentIsKept
<1> QED
  BY <1>5, <1>6, <1>7, <1>8, <1>9, <1>10 DEF Core

\* Revocation, shutdown and what ends it touch no request and no event.
LEMMA OperatorCore ==
  ASSUME Core,
         \/ Revoke
         \/ \E p \in Processes : Shutdown(p) \/ Restart(p)
         \/ UNCHANGED vars
  PROVE  Core'
<1> DEFINE Untroubled ==
             /\ UNCHANGED <<pc, at, next, answer, accumulated, log, late, faults>>
             /\ revoked' = revoked \/ revoked' = TRUE
             /\ up' \in [Processes -> BOOLEAN]
<1>0. TypeOK
  BY DEF Core
<1>1. Untroubled
  <2>1. CASE Revoke
    BY <2>1, <1>0 DEF Revoke, handlers, TypeOK
  <2>2. ASSUME NEW p \in Processes, Shutdown(p) 
        PROVE  Untroubled
    BY <2>2, <1>0 DEF Shutdown, handlers, TypeOK
  <2>3. ASSUME NEW p \in Processes, Restart(p) 
        PROVE  Untroubled
    <3>1. accumulated[p] = <<>> /\ accumulated' = [accumulated EXCEPT ![p] = <<>>]
      BY <2>3 DEF Restart, Stopped
    <3>2. accumulated' = accumulated
      BY <3>1, <1>0 DEF TypeOK
    <3> QED
      BY <2>3, <3>2, <1>0 DEF Restart, handlers, TypeOK
  <2>4. CASE UNCHANGED vars
    BY <2>4, <1>0 DEF vars, handlers, TypeOK
  <2> QED
    BY <2>1, <2>2, <2>3, <2>4
<1>2. TypeOK'
  BY <1>0, <1>1 DEF TypeOK
<1>3. HandlersAgree'
  BY <1>1 DEF Core, HandlersAgree, HandlerAgrees
<1> QED
  BY <1>1, <1>2, <1>3, QuietCore

LEMMA CoreStep == Core /\ [Next]_vars => Core'
<1> SUFFICES ASSUME Core, [Next]_vars PROVE Core'
  OBVIOUS
<1>1. ASSUME NEW r \in Requests, Handle(r) PROVE Core'
  BY <1>1, HandlerCore, SendCore DEF Handle
<1>2. ASSUME NEW r \in Requests, NEW p \in Processes, Arrive(r, p) PROVE Core'
  BY <1>2, ArriveCore
<1>3. ASSUME NEW p \in Processes, Deliver(p) \/ DeliveryFails(p) PROVE Core'
  BY <1>3, LeaveCore
<1>4. ASSUME NEW p \in Processes, Crash(p) PROVE Core'
  BY <1>4, CrashCore
<1>5. CASE Revoke \/ (\E p \in Processes : Shutdown(p) \/ Restart(p)) \/ UNCHANGED vars
  BY <1>5, OperatorCore
<1> QED
  BY <1>1, <1>2, <1>3, <1>4, <1>5 DEF Next

\* What is acknowledged is where it should be, in order, and what was refused
\* left nothing: for any requests, processes, failures and shutdowns.
THEOREM Invariant == Spec => []IInv
<1>1. Core => IInv
  BY Derived DEF Core, IInv
<1> QED
  BY CoreInit, CoreStep, <1>1, PTL DEF Spec

\* The 202 of a single event is never taken back: the broker has the event.
THEOREM SingleAcksAreDurable == Spec => []SingleAckIsDurable
<1>1. Core => SingleAckIsDurable
  BY DEF Core
<1> QED
  BY CoreInit, CoreStep, <1>1, PTL DEF Spec

\* Without a fault, what a 202 counts is in the log or still to be delivered.
THEOREM AcksAreKept == Spec => []AckedIsKept
<1>1. Core => AckedIsKept
  BY Derived
<1> QED
  BY CoreInit, CoreStep, <1>1, PTL DEF Spec

\* The log keeps the order of every body.
THEOREM OrderIsKept == Spec => []BodyOrderKept
<1>1. Core => BodyOrderKept
  BY DEF Core
<1> QED
  BY CoreInit, CoreStep, <1>1, PTL DEF Spec

\* A refused request, and one that came after the revocation, leaves no event.
THEOREM RefusalsLeaveNothing == Spec => []RefusedLeavesNothing
<1>1. Core => RefusedLeavesNothing
  BY Derived
<1> QED
  BY CoreInit, CoreStep, <1>1, PTL DEF Spec
=============================================================================
