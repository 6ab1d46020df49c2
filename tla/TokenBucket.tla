---------------------------- MODULE TokenBucket ----------------------------
(***************************************************************************)
(* The ideal token bucket a key's rate limit stands for: it starts full,   *)
(* gains Rate tokens per tick up to Burst between two requests, and grants *)
(* only tokens that are there.  It never expires and its time only moves   *)
(* forward.                                                                *)
(***************************************************************************)
EXTENDS Integers, FiniteSetsExt

CONSTANTS
    Rate,           \* tokens gained per tick
    Burst,          \* size of the bucket
    Costs,          \* costs a request may have
    MaxClock        \* bound: the last tick

VARIABLES
    level,          \* tokens left after the last request
    at,             \* the time of the last request
    granted         \* tokens granted so far

vars == <<level, at, granted>>

Init == level = Burst /\ at = 0 /\ granted = 0

\* A request at time now: granted, or refused when it asks for too much.
Serve(now, cost) ==
    LET filled == Min({Burst, level + Rate * (now - at)})
        taken == IF filled >= cost THEN cost ELSE 0
    IN  /\ now >= at
        /\ at' = now
        /\ level' = filled - taken
        /\ granted' = granted + taken

Next == \E now \in 0 .. MaxClock, cost \in Costs : Serve(now, cost)

Spec == Init /\ [][Next]_vars
=============================================================================
