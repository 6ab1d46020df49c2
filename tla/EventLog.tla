------------------------------ MODULE EventLog ------------------------------
(***************************************************************************)
(* What the ingestion consumer promises, whatever processes run it: an     *)
(* append-only log per Kafka partition, a set of records the analytics     *)
(* store holds, and a committed offset per partition that never covers a   *)
(* well-formed record the store does not hold (at-least-once delivery).    *)
(* Committed offsets may move backwards: the promise is about coverage.    *)
(***************************************************************************)
EXTENDS Integers

CONSTANTS
    Partitions,     \* partitions of the topic events.raw
    MaxLog,         \* bound: records ever appended to one partition
    Malformed       \* records the consumer can only skip


Offsets == 0 .. MaxLog - 1
Records == Partitions \X Offsets

VARIABLES
    logEnd,         \* partition -> next offset the broker will assign
    committed,      \* partition -> offset the consumer group resumes from
    events          \* records in the store, duplicates merged

vars == <<logEnd, committed, events>>

WellFormed == Records \ Malformed
Published == {r \in Records : r[2] < logEnd[r[1]]}

\* Every well-formed record below the offsets c is in the store S.
Covers(S, c) == \A r \in WellFormed : r[2] < c[r[1]] => r \in S

Init ==
    /\ logEnd = [p \in Partitions |-> 0]
    /\ committed = [p \in Partitions |-> 0]
    /\ events = {}

Append(p) ==
    /\ logEnd[p] < MaxLog
    /\ logEnd' = [logEnd EXCEPT ![p] = @ + 1]
    /\ UNCHANGED <<committed, events>>

\* Some published well-formed records reach the store.
Store ==
    /\ \E S \in SUBSET (Published \ Malformed) : events' = events \cup S
    /\ UNCHANGED <<logEnd, committed>>

\* New committed offsets are chosen; they cover stored records only.
Commit ==
    /\ \E c \in [Partitions -> 0 .. MaxLog] :
        /\ \A p \in Partitions : c[p] <= logEnd[p]
        /\ Covers(events, c)
        /\ committed' = c
    /\ UNCHANGED <<logEnd, events>>

Next == (\E p \in Partitions : Append(p)) \/ Store \/ Commit

Spec == Init /\ [][Next]_vars
=============================================================================
