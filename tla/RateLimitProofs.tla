--------------------------- MODULE RateLimitProofs ---------------------------
(***************************************************************************)
(* Theorems about RateLimit, for every number of requests, rate, burst,    *)
(* cost and delay up to Slack: types, the bound on what is granted, and    *)
(* that the limiter is the ideal bucket while its time moves forward.      *)
(***************************************************************************)
EXTENDS RateLimit, TLAPS

USE RateLimitAssumption

-----------------------------------------------------------------------------
(* Arithmetic the script rests on.                                         *)

\* The greater and the lesser of two numbers (Redis' math.max and math.min).
LEMMA MaxOfTwo ==
    ASSUME NEW a \in Int, NEW b \in Int
    PROVE  Max({a, b}) = IF a >= b THEN a ELSE b
<1> DEFINE m == IF a >= b THEN a ELSE b
<1>1. m \in {a, b} /\ \A y \in {a, b} : m >= y
  OBVIOUS
<1>2. \A x \in {a, b} : (\A y \in {a, b} : x >= y) => x = m
  OBVIOUS
<1> QED BY <1>1, <1>2 DEF Max

LEMMA MinOfTwo ==
    ASSUME NEW a \in Int, NEW b \in Int
    PROVE  Min({a, b}) = IF a <= b THEN a ELSE b
<1> DEFINE m == IF a <= b THEN a ELSE b
<1>1. m \in {a, b} /\ \A y \in {a, b} : m <= y
  OBVIOUS
<1>2. \A x \in {a, b} : (\A y \in {a, b} : x <= y) => x = m
  OBVIOUS
<1> QED BY <1>1, <1>2 DEF Min

\* Products of the rate and a number of ticks, which the SMT solver does not
\* handle on its own.
LEMMA RateTimes ==
    /\ \A x \in Nat : Rate * x \in Nat /\ x * Rate = Rate * x
    /\ \A x \in Int : Rate * x \in Int /\ x * Rate = Rate * x
    /\ \A x, y \in Int : Rate * (x + y) = Rate * x + Rate * y
    /\ \A x, y \in Int : x <= y => Rate * x <= Rate * y
<1>1. Rate \in Nat
  OBVIOUS
<1>2. \A x, y \in Int : x <= y => Rate * x <= Rate * y
  <2> SUFFICES ASSUME NEW x \in Int, NEW y \in Int, x <= y PROVE Rate * x <= Rate * y
    OBVIOUS
  <2>1. Rate * (y - x) >= 0
    BY <1>1
  <2>2. Rate * (y - x) = Rate * y - Rate * x
    BY <1>1
  <2> QED BY <2>1, <2>2, <1>1
<1> QED BY <1>1, <1>2

\* An empty bucket is full again after Ttl - Slack ticks.
LEMMA TtlFills == Ttl \in Nat /\ Ttl > Slack /\ Rate * (Ttl - Slack) >= Burst
<1> DEFINE c == (Burst + Rate - 1) \div Rate
           m == (Burst + Rate - 1) % Rate
<1>1. Rate \in Nat /\ Rate > 0 /\ Burst \in Nat /\ Burst > 0 /\ Slack \in Nat
  OBVIOUS
<1>2. c \in Int /\ m \in 0 .. Rate - 1 /\ Burst + Rate - 1 = Rate * c + m
  BY <1>1
<1>3. Rate * c >= Burst
  BY <1>1, <1>2
<1>4. c > 0
  <2> SUFFICES ASSUME c <= 0 PROVE FALSE
    BY <1>2
  <2>1. Rate * c <= Rate * 0
    BY <1>2, RateTimes
  <2> QED BY <2>1, <1>3, <1>1
<1>5. Ttl = c + Slack
  BY DEF Ttl, Ceil
<1> HIDE DEF c
<1> QED BY <1>1, <1>2, <1>3, <1>4, <1>5

\* The refill adds at most what the time since ts is worth, and stays within
\* the burst; a missing key starts a full bucket.
LEMMA RefillBounds ==
    ASSUME TypeOK, NEW now \in 0 .. MaxClock
    PROVE  /\ Elapsed(now) = IF now >= ts THEN now - ts ELSE 0
           /\ Refilled(now) \in 0 .. Burst
           /\ ~Exists => Refilled(now) = Burst
           /\ Exists => Refilled(now) <= tokens + Rate * Elapsed(now)
           /\ Exists => Refilled(now) = Min({Burst, tokens + Rate * Elapsed(now)})
<1>1. now \in Int /\ ts \in Int /\ tokens \in 0 .. Burst /\ Burst \in Nat
  BY DEF TypeOK
<1>2. Elapsed(now) = IF now >= ts THEN now - ts ELSE 0
  BY <1>1, MaxOfTwo DEF Elapsed
<1>3. Elapsed(now) \in Nat
  BY <1>1, <1>2
<1>4. Rate * Elapsed(now) \in Nat /\ Elapsed(now) * Rate = Rate * Elapsed(now)
  BY <1>3, RateTimes
<1> DEFINE full == tokens + Rate * Elapsed(now)
<1>5. full \in Nat /\ tokens + Elapsed(now) * Rate = full
  BY <1>1, <1>4
<1>6. Exists => Refilled(now) = Min({Burst, full})
  BY <1>5 DEF Refilled
<1>7. Min({Burst, full}) = IF Burst <= full THEN Burst ELSE full
  <2> HIDE DEF full
  <2> QED BY <1>1, <1>5, MinOfTwo
<1>8. ~Exists => Refilled(now) = Burst
  BY DEF Refilled
<1> HIDE DEF full
<1>9. Refilled(now) \in 0 .. Burst /\ (Exists => Refilled(now) <= full)
  BY <1>1, <1>5, <1>6, <1>7, <1>8
<1> QED BY <1>2, <1>6, <1>8, <1>9 DEF full

\* What a script writes: a grant and what is left add up to the refilled bucket,
\* and the regression it adds is that of its own clock value.
LEMMA ScriptEffect ==
    ASSUME TypeOK, NEW r \in Requests, NEW cost \in Costs, Script(r, cost)
    PROVE  /\ arg[r] \in 0 .. MaxClock
           /\ tokens' \in 0 .. Burst /\ granted' \in Nat /\ regressed' \in Nat
           /\ granted' + tokens' = granted + Refilled(arg[r])
           /\ ts' = arg[r] /\ expireAt' = clock + Ttl
           /\ Exists => regressed' = regressed + (IF ts >= arg[r] THEN ts - arg[r] ELSE 0)
           /\ ~Exists => regressed' = regressed
<1> DEFINE now == arg[r]
           filled == Refilled(now)
<1>1. now \in 0 .. MaxClock /\ ts \in 0 .. MaxClock /\ cost \in Nat /\ granted \in Nat
      /\ regressed \in Nat
  BY DEF TypeOK
<1>2. filled \in 0 .. Burst
  BY <1>1, RefillBounds
<1>3. /\ tokens' = filled - (IF filled >= cost THEN cost ELSE 0)
      /\ ts' = now /\ expireAt' = clock + Ttl
      /\ granted' = granted + (IF filled >= cost THEN cost ELSE 0)
      /\ regressed' = regressed + (IF Exists THEN Max({0, ts - now}) ELSE 0)
  BY DEF Script, NewTs
<1>4. Max({0, ts - now}) = IF ts >= now THEN ts - now ELSE 0
  <2>1. 0 \in Int /\ ts - now \in Int
    BY <1>1
  <2> QED BY <2>1, <1>1, MaxOfTwo
<1> HIDE DEF filled
<1>5. tokens' \in 0 .. Burst /\ granted' \in Nat /\ granted' + tokens' = granted + filled
  BY <1>1, <1>2, <1>3
<1>6. /\ Exists => regressed' = regressed + (IF ts >= now THEN ts - now ELSE 0)
      /\ ~Exists => regressed' = regressed
      /\ regressed' \in Nat
  BY <1>1, <1>3, <1>4
<1> QED BY <1>1, <1>3, <1>5, <1>6 DEF filled

-----------------------------------------------------------------------------
(* Types.                                                                  *)

LEMMA TypeInit == Init => TypeOK
BY DEF Init, TypeOK

LEMMA TypeStep == TypeOK /\ [Next]_vars => TypeOK'
<1> SUFFICES ASSUME TypeOK, [Next]_vars PROVE TypeOK'
  OBVIOUS
<1>1. CASE Tick
  BY <1>1 DEF Tick, TypeOK, redis
<1>2. ASSUME NEW r \in Requests, ReadClock(r) PROVE TypeOK'
  BY <1>2 DEF ReadClock, TypeOK, redis
<1>3. ASSUME NEW r \in Requests, NEW cost \in Costs, Script(r, cost) PROVE TypeOK'
  <2>1. /\ tokens' \in 0 .. Burst /\ granted' \in Nat /\ regressed' \in Nat
        /\ ts' \in 0 .. MaxClock /\ expireAt' = clock + Ttl
    BY <1>3, ScriptEffect
  <2>2. expireAt' \in Nat
    BY <2>1, TtlFills DEF TypeOK
  <2>3. clock' = clock /\ pc' = [pc EXCEPT ![r] = "idle"] /\ arg' = [arg EXCEPT ![r] = 0]
    BY <1>3 DEF Script
  <2> QED BY <2>1, <2>2, <2>3 DEF TypeOK
<1>4. CASE UNCHANGED vars
  BY <1>4 DEF TypeOK, vars, redis
<1> QED BY <1>1, <1>2, <1>3, <1>4 DEF Next

\* Every variable keeps its type: the tokens stay between zero and the burst
\* even when a clock value is older than the stored one.
THEOREM TypeCorrect == Spec => []TypeOK
BY TypeInit, TypeStep, PTL DEF Spec

-----------------------------------------------------------------------------
(* The bound.                                                              *)

\* A script that finds no key comes when the bucket would be full, however late
\* its own clock value is: at the start, or a fill time after ts.
LEMMA GoneIsFull ==
    ASSUME IInv, NEW r \in Requests, pc[r] = "sent", ~Exists, expireAt > 0
    PROVE  arg[r] >= ts /\ Rate * (arg[r] - ts) >= Burst
<1>1. /\ clock \in Nat /\ ts \in Nat /\ arg[r] \in Nat /\ expireAt \in Nat
      /\ MaxDelay \in Nat /\ Slack \in Nat /\ MaxDelay <= Slack
  BY DEF IInv, TypeOK
<1>2. ts + Ttl <= expireAt /\ expireAt <= clock /\ clock <= arg[r] + MaxDelay
  BY <1>1 DEF IInv, Exists
<1>3. arg[r] - ts >= Ttl - Slack /\ Ttl - Slack \in Int /\ Ttl - Slack > 0
  BY <1>1, <1>2, TtlFills
<1>4. Rate * (Ttl - Slack) <= Rate * (arg[r] - ts)
  BY <1>1, <1>3, RateTimes
<1>5. Rate * (arg[r] - ts) \in Int /\ Rate * (Ttl - Slack) \in Int /\ Burst \in Int
  BY <1>1, <1>3, RateTimes
<1> QED BY <1>1, <1>3, <1>4, <1>5, TtlFills

\* A script keeps the account of what the bucket has given out.
LEMMA ScriptAccount ==
    ASSUME IInv, NEW r \in Requests, NEW cost \in Costs, Script(r, cost)
    PROVE  granted' + tokens' <= Burst + Rate * (ts' + regressed')
<1> DEFINE now == arg[r]
<1>1. TypeOK /\ pc[r] = "sent"
  BY DEF IInv, Script
<1>2. /\ now \in Nat /\ ts \in Nat /\ tokens \in Nat /\ granted \in Nat
      /\ regressed \in Nat /\ Burst \in Nat
      /\ now \in 0 .. MaxClock
  BY <1>1 DEF TypeOK
<1>3. /\ granted' + tokens' = granted + Refilled(now) /\ ts' = now
      /\ Exists => regressed' = regressed + (IF ts >= now THEN ts - now ELSE 0)
      /\ ~Exists => regressed' = regressed
  BY <1>1, ScriptEffect
<1>4. granted + tokens <= Burst + Rate * (ts + regressed)
  BY DEF IInv
<1>5. Rate * (ts + regressed) \in Nat /\ Rate * (now + regressed') \in Int
  BY <1>2, <1>3, RateTimes
<1>6. CASE Exists
  <2>1. Refilled(now) \in 0 .. Burst /\ Refilled(now) <= tokens + Rate * Elapsed(now)
    BY <1>1, <1>2, <1>6, RefillBounds
  <2>2. Elapsed(now) = (IF now >= ts THEN now - ts ELSE 0) /\ Elapsed(now) \in Nat
    <3>1. Elapsed(now) = IF now >= ts THEN now - ts ELSE 0
      BY <1>1, <1>2, RefillBounds
    <3> HIDE DEF now
    <3> QED BY <3>1, <1>2
  <2>3. now + regressed' = (ts + regressed) + Elapsed(now)
    BY <1>2, <1>3, <1>6, <2>2
  <2>4. Rate * (now + regressed') = Rate * (ts + regressed) + Rate * Elapsed(now)
    BY <1>2, <2>2, <2>3, RateTimes
  <2>5. Rate * Elapsed(now) \in Nat
    BY <2>2, RateTimes
  <2> HIDE DEF now
  <2> QED BY <1>2, <1>3, <1>4, <1>5, <2>1, <2>4, <2>5
<1>7. CASE ~Exists /\ expireAt > 0
  <2>1. Refilled(now) = Burst /\ regressed' = regressed
    BY <1>1, <1>2, <1>3, <1>7, RefillBounds
  <2>2. Rate * (now - ts) >= Burst /\ Rate * (now - ts) \in Int
    <3>1. Rate * (now - ts) >= Burst
      BY <1>1, <1>7, GoneIsFull
    <3>2. now - ts \in Int
      BY <1>2
    <3> QED BY <3>1, <3>2, RateTimes
  <2>3. now + regressed' = (ts + regressed) + (now - ts)
    BY <1>2, <2>1
  <2>4. Rate * (now + regressed') = Rate * (ts + regressed) + Rate * (now - ts)
    BY <1>2, <2>3, RateTimes
  <2> HIDE DEF now
  <2> QED BY <1>2, <1>3, <1>4, <1>5, <2>1, <2>2, <2>4
<1>8. CASE expireAt = 0
  <2>1. ~Exists /\ granted = 0
    BY <1>1, <1>8 DEF Exists, IInv, TypeOK
  <2>2. Refilled(now) = Burst /\ regressed' = regressed
    BY <1>1, <1>2, <1>3, <2>1, RefillBounds
  <2>3. Rate * (now + regressed') \in Nat
    BY <1>2, <2>2, RateTimes
  <2> HIDE DEF now
  <2> QED BY <1>2, <1>3, <2>1, <2>2, <2>3
<1> QED BY <1>1, <1>6, <1>7, <1>8 DEF TypeOK

LEMMA InvInit == Init => IInv
<1> SUFFICES ASSUME Init PROVE IInv
  OBVIOUS
<1>1. TypeOK
  BY TypeInit
<1>2. Rate * (ts + regressed) \in Nat
  BY <1>1, RateTimes DEF TypeOK
<1> QED BY <1>1, <1>2 DEF Init, IInv

LEMMA InvStep == IInv /\ [Next]_vars => IInv'
<1> SUFFICES ASSUME IInv, [Next]_vars PROVE IInv'
  OBVIOUS
<1>1. TypeOK /\ TypeOK'
  BY TypeStep DEF IInv
<1>2. Ttl' = Ttl
  BY DEF Ttl
<1>3. CASE Tick
  <2>1. UNCHANGED <<tokens, ts, expireAt, pc, arg, granted, regressed>> /\ clock' = clock + 1
    BY <1>3 DEF Tick, redis
  <2>2. \A r \in Requests : arg[r] <= clock /\ (pc[r] = "sent" => clock + 1 <= arg[r] + MaxDelay)
    BY <1>1, <1>3 DEF Tick, IInv, TypeOK
  <2> QED BY <1>1, <1>2, <2>1, <2>2 DEF IInv, TypeOK
<1>4. ASSUME NEW r \in Requests, ReadClock(r) PROVE IInv'
  <2>1. UNCHANGED <<clock, tokens, ts, expireAt, granted, regressed>>
    BY <1>4 DEF ReadClock, redis
  <2>2. pc' = [pc EXCEPT ![r] = "sent"] /\ arg' = [arg EXCEPT ![r] = clock]
    BY <1>4 DEF ReadClock
  <2>3. \A q \in Requests : arg'[q] <= clock /\ (pc'[q] = "sent" => clock <= arg'[q] + MaxDelay)
    BY <1>1, <2>2 DEF IInv, TypeOK
  <2> QED BY <1>1, <1>2, <2>1, <2>3 DEF IInv
<1>5. ASSUME NEW r \in Requests, NEW cost \in Costs, Script(r, cost) PROVE IInv'
  <2>1. granted' + tokens' <= Burst + Rate * (ts' + regressed')
    BY <1>5, ScriptAccount
  <2>2. ts' = arg[r] /\ expireAt' = clock + Ttl /\ clock' = clock
    BY <1>1, <1>5, ScriptEffect DEF Script
  <2>3. arg[r] <= clock /\ arg[r] \in Nat /\ clock \in Nat
    BY <1>1 DEF IInv, TypeOK
  <2>4. ts' <= clock' /\ expireAt' > 0 /\ ts' + Ttl <= expireAt'
    BY <2>2, <2>3, TtlFills
  <2>5. pc' = [pc EXCEPT ![r] = "idle"] /\ arg' = [arg EXCEPT ![r] = 0]
    BY <1>5 DEF Script
  <2>6. \A q \in Requests : arg'[q] <= clock /\ (pc'[q] = "sent" => clock <= arg'[q] + MaxDelay)
    BY <1>1, <2>3, <2>5 DEF IInv, TypeOK
  <2>7. expireAt' # 0
    BY <2>4
  <2> QED BY <1>1, <1>2, <2>1, <2>2, <2>4, <2>6, <2>7 DEF IInv
<1>6. CASE UNCHANGED vars
  BY <1>1, <1>2, <1>6 DEF vars, redis, IInv
<1> QED BY <1>3, <1>4, <1>5, <1>6 DEF Next

\* The invariant holds in every reachable state.
THEOREM Invariant == Spec => []IInv
BY InvInit, InvStep, PTL DEF Spec

\* Whatever the interleaving of clock readings and scripts and the expiry of
\* the key, at most a burst, the rate, and the time refilled twice is granted.
THEOREM Bounded == Spec => []GrantBound
<1>1. IInv => GrantBound
  <2> SUFFICES ASSUME IInv PROVE GrantBound
    OBVIOUS
  <2>1. /\ clock \in Nat /\ ts \in Nat /\ regressed \in Nat /\ granted \in Nat
        /\ tokens \in Nat /\ Burst \in Nat /\ ts <= clock
        /\ granted + tokens <= Burst + Rate * (ts + regressed)
    BY DEF IInv, TypeOK
  <2>2. Rate * (ts + regressed) <= Rate * (clock + regressed)
    BY <2>1, RateTimes
  <2>3. Rate * (ts + regressed) \in Nat /\ Rate * (clock + regressed) \in Nat
    BY <2>1, RateTimes
  <2> QED BY <2>1, <2>2, <2>3 DEF GrantBound
<1> QED BY <1>1, Invariant, PTL

-----------------------------------------------------------------------------
(* The ideal bucket.                                                       *)

\* The bucket as the next script will find it refilled at time now.
LEMMA RefillIsIdeal ==
    ASSUME IInv, NEW r \in Requests, pc[r] = "sent", Exists => arg[r] >= ts
    PROVE  LET level == IF expireAt = 0 THEN Burst ELSE tokens
               now == arg[r]
           IN  now >= ts /\ Refilled(now) = Min({Burst, level + Rate * (now - ts)})
<1> DEFINE now == arg[r]
           level == IF expireAt = 0 THEN Burst ELSE tokens
           gain == Rate * (now - ts)
<1>1. /\ TypeOK /\ now \in 0 .. MaxClock /\ now \in Nat /\ ts \in Nat /\ tokens \in Nat
      /\ Burst \in Nat /\ level \in Nat
  BY DEF IInv, TypeOK
<1>2. now - ts \in Int /\ gain \in Int
  <2>1. now - ts \in Int
    BY <1>1
  <2> QED BY <2>1, RateTimes
<1>3. CASE Exists
  <2>1. Elapsed(now) = now - ts
    BY <1>1, <1>3, RefillBounds
  <2>2. expireAt # 0
    BY <1>1, <1>3 DEF Exists, TypeOK
  <2>3. Refilled(now) = Min({Burst, tokens + Rate * Elapsed(now)})
    BY <1>1, <1>3, RefillBounds
  <2> QED BY <1>1, <1>3, <2>1, <2>2, <2>3
<1>4. CASE ~Exists
  <2>1. now >= ts /\ level + gain >= Burst
    <3>1. CASE expireAt > 0
      <4>1. now >= ts /\ gain >= Burst
        BY <1>4, <3>1, GoneIsFull
      <4> HIDE DEF now, gain, level
      <4> QED BY <1>1, <1>2, <4>1
    <3>2. CASE expireAt = 0
      <4>1. ts = 0 /\ level = Burst
        BY <3>2 DEF IInv
      <4>2. gain \in Nat
        BY <1>1, <4>1, RateTimes
      <4> HIDE DEF now, gain, level
      <4> QED BY <1>1, <4>1, <4>2
    <3> QED BY <1>1, <3>1, <3>2 DEF TypeOK
  <2>2. Refilled(now) = Burst
    BY <1>1, <1>4, RefillBounds
  <2>3. Min({Burst, level + gain}) = Burst
    <3> HIDE DEF gain, level
    <3>1. level + gain \in Int /\ Burst \in Int
      BY <1>1, <1>2
    <3> QED BY <3>1, <2>1, MinOfTwo
  <2> QED BY <2>1, <2>2, <2>3
<1> QED BY <1>3, <1>4

\* A script that does not move ts back is a request served by the ideal bucket.
LEMMA ScriptServes ==
    ASSUME IInv, NEW r \in Requests, NEW cost \in Costs, Script(r, cost), regressed' = 0
    PROVE  Ideal!Serve(arg[r], cost)
<1> DEFINE now == arg[r]
           level == IF expireAt = 0 THEN Burst ELSE tokens
           filled == Min({Burst, level + Rate * (now - ts)})
<1>1. TypeOK /\ pc[r] = "sent" /\ now \in Nat /\ ts \in Nat /\ regressed \in Nat /\ clock \in Nat
  BY DEF IInv, TypeOK, Script
<1>2. Exists => now >= ts
  <2>1. Exists => regressed' = regressed + (IF ts >= now THEN ts - now ELSE 0)
    BY <1>1, ScriptEffect
  <2> QED BY <1>1, <2>1
<1>3. now >= ts /\ Refilled(now) = filled
  BY <1>1, <1>2, RefillIsIdeal
<1>4. expireAt' # 0
  <2>1. expireAt' = clock + Ttl
    BY <1>1, ScriptEffect
  <2> QED BY <1>1, <2>1, TtlFills
<1>5. /\ tokens' = filled - (IF filled >= cost THEN cost ELSE 0)
      /\ ts' = now
      /\ granted' = granted + (IF filled >= cost THEN cost ELSE 0)
  BY <1>3 DEF Script, NewTs
<1> HIDE DEF filled
<1>6. /\ now >= ts /\ ts' = now
      /\ (IF expireAt' = 0 THEN Burst ELSE tokens') = filled - (IF filled >= cost THEN cost ELSE 0)
      /\ granted' = granted + (IF filled >= cost THEN cost ELSE 0)
  BY <1>3, <1>4, <1>5
<1>7. filled = Ideal!Min({Burst, level + Rate * (now - ts)})
  BY DEF filled, Min, Ideal!Min
<1> QED BY <1>6, <1>7 DEF Ideal!Serve

\* Every step that does not move ts back is a step of the ideal bucket or leaves
\* it alone: expiry, delay and interleaving are invisible to the requests.
THEOREM Refinement == Spec => ImplementsTokenBucket
<1>1. Init => Ideal!Init
  BY DEF Init, Ideal!Init
<1>2. IInv /\ [Next]_vars => [regressed' = 0 => Ideal!Next]_(Ideal!vars)
  <2> SUFFICES ASSUME IInv, [Next]_vars, regressed' = 0
               PROVE  Ideal!Next \/ UNCHANGED Ideal!vars
    OBVIOUS
  <2>1. CASE Tick
    BY <2>1 DEF Tick, redis, Ideal!vars
  <2>2. ASSUME NEW r \in Requests, ReadClock(r) PROVE UNCHANGED Ideal!vars
    BY <2>2 DEF ReadClock, redis, Ideal!vars
  <2>3. ASSUME NEW r \in Requests, NEW cost \in Costs, Script(r, cost) PROVE Ideal!Next
    <3>1. Ideal!Serve(arg[r], cost)
      BY <2>3, ScriptServes
    <3>2. arg[r] \in 0 .. MaxClock
      BY DEF IInv, TypeOK
    <3> QED BY <3>1, <3>2 DEF Ideal!Next
  <2>4. CASE UNCHANGED vars
    BY <2>4 DEF vars, redis, Ideal!vars
  <2> QED BY <2>1, <2>2, <2>3, <2>4 DEF Next
<1> QED BY <1>1, <1>2, Invariant, PTL DEF Spec, ImplementsTokenBucket
=============================================================================
