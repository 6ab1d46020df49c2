----------------------------- MODULE RateLimit -----------------------------
(***************************************************************************)
(* The per-key rate limit of the ingestion API (ingestion/app/rate_limit.py*)
(* and its use in ingest_api.py).  A request reads its host's clock, then  *)
(* awaits a Redis script that refills and consumes atomically: between the *)
(* two, other requests run and time passes, so scripts may arrive in       *)
(* another order than the clocks were read.  One bucket is modelled: keys  *)
(* share nothing.  Redis runs the script and expires the key.              *)
(*                                                                         *)
(* Time is in ticks and tokens are whole, as with the default settings     *)
(* (1000 per second is one per millisecond of the clock the code reads).   *)
(***************************************************************************)
EXTENDS Integers, FiniteSetsExt

CONSTANTS
    Requests,       \* concurrent requests with the same API key
    Rate,           \* rate_limit_rps, in tokens per tick
    Burst,          \* rate_limit_burst
    Slack,          \* the 60 seconds added to the key's time to live, in ticks
    Costs,          \* events in a request
    MaxDelay,       \* the most ticks from reading the clock to the script
    MaxClock        \* bound: ticks in a run

ASSUME RateLimitAssumption ==
    /\ Rate \in Nat \ {0} /\ Burst \in Nat \ {0}
    /\ Slack \in Nat /\ MaxDelay \in Nat /\ MaxDelay <= Slack
    /\ Costs \subseteq Nat \ {0}
    /\ MaxClock \in Nat

VARIABLES
    clock,          \* the time, on every host
    tokens, ts,     \* Redis: the fields of the key's hash
    expireAt,       \* Redis: when the key goes, 0 if there is none
    pc, arg,        \* request: where consume() is, and the now_ms it read
    granted,        \* history: tokens granted so far
    regressed       \* history: ticks by which ts moved backwards, summed

redis == <<tokens, ts, expireAt>>
vars == <<clock, redis, pc, arg, granted, regressed>>

Init ==
    /\ clock = 0
    /\ tokens = 0 /\ ts = 0 /\ expireAt = 0
    /\ pc = [r \in Requests |-> "idle"]
    /\ arg = [r \in Requests |-> 0]
    /\ granted = 0 /\ regressed = 0

\* Time passes; a script is never delayed for longer than MaxDelay.
Tick ==
    /\ clock < MaxClock
    /\ \A r \in Requests : pc[r] = "sent" => clock < arg[r] + MaxDelay
    /\ clock' = clock + 1
    /\ UNCHANGED <<redis, pc, arg, granted, regressed>>

\* consume(): now_ms is read and the script is sent.
ReadClock(r) ==
    /\ pc[r] = "idle"
    /\ pc' = [pc EXCEPT ![r] = "sent"]
    /\ arg' = [arg EXCEPT ![r] = clock]
    /\ UNCHANGED <<clock, redis, granted, regressed>>

Exists == clock < expireAt
Ceil(a, b) == (a + b - 1) \div b

\* The key's time to live: the time an empty bucket takes to fill, and Slack.
TtlNoFill == Slack                          \* mutant: without the fill time
Ttl == Ceil(Burst, Rate) + Slack

\* math.max(0, now_ms - ts_ms)
ElapsedUnclamped(now) == now - ts           \* mutant: no clamp at zero
Elapsed(now) == Max({0, now - ts})

\* Tokens after the refill: a missing key starts a full bucket.
Refilled(now) ==
    IF Exists THEN Min({Burst, tokens + Elapsed(now) * Rate}) ELSE Burst

\* The time of the last refill is stored whether or not it is newer.
TsKept(now) == ts                           \* mutant: ts not written
NewTs(now) == now

\* The script: refill, consume cost if there is enough, store, expire.  The
\* answer is 202 or, from _enforce_rate_limit, 429.
Script(r, cost) ==
    /\ pc[r] = "sent"
    /\ LET now == arg[r]
           allowed == Refilled(now) >= cost
       IN  /\ tokens' = Refilled(now) - (IF allowed THEN cost ELSE 0)
           /\ ts' = NewTs(now)
           /\ granted' = granted + (IF allowed THEN cost ELSE 0)
           /\ regressed' = regressed + (IF Exists THEN Max({0, ts - now}) ELSE 0)
    /\ expireAt' = clock + Ttl
    /\ pc' = [pc EXCEPT ![r] = "idle"]
    /\ arg' = [arg EXCEPT ![r] = 0]
    /\ UNCHANGED clock

Next == Tick \/ \E r \in Requests : ReadClock(r) \/ \E cost \in Costs : Script(r, cost)

Spec == Init /\ [][Next]_vars

-----------------------------------------------------------------------------
TypeOK ==
    /\ clock \in 0 .. MaxClock
    /\ tokens \in 0 .. Burst
    /\ ts \in 0 .. MaxClock
    /\ expireAt \in Nat
    /\ pc \in [Requests -> {"idle", "sent"}]
    /\ arg \in [Requests -> 0 .. MaxClock]
    /\ granted \in Nat
    /\ regressed \in Nat

\* What was granted is what the bucket has given out: one burst, the rate
\* since the start, and the time refilled twice because an older clock value
\* was stored over a newer one.  A key that expires early would break it.
GrantBound == granted <= Burst + Rate * (clock + regressed)

\* The strengthening: stored tokens count as given out, against ts instead of
\* the clock, and a bucket lives until the refill would have filled it.
IInv ==
    /\ TypeOK
    /\ granted + tokens <= Burst + Rate * (ts + regressed)
    /\ ts <= clock
    /\ expireAt > 0 => ts + Ttl <= expireAt
    /\ expireAt = 0 => granted = 0 /\ regressed = 0 /\ tokens = 0 /\ ts = 0
    /\ \A r \in Requests : arg[r] <= clock /\ (pc[r] = "sent" => clock <= arg[r] + MaxDelay)

\* As long as no script has stored an older time than it found, the limiter is
\* the ideal bucket: no request can tell that the key expired and was made anew,
\* or that a script was late.
Ideal == INSTANCE TokenBucket WITH
    level <- IF expireAt = 0 THEN Burst ELSE tokens,
    at <- ts
ImplementsTokenBucket ==
    Ideal!Init /\ [][regressed' = 0 => Ideal!Next]_(Ideal!vars)
=============================================================================
