------------------------------ MODULE Delivery ------------------------------
(***************************************************************************)
(* What the write path promises to the caller of track(), whatever queues, *)
(* batches, retries and restarts lie between the SDK and ClickHouse.       *)
(***************************************************************************)
CONSTANT Tracked        \* the events that may be tracked

VARIABLES
    told,       \* event -> what the caller knows of it
    kept,       \* events the broker has
    stored      \* events in the events table

vars == <<told, kept, stored>>

Init ==
    /\ told = [e \in Tracked |-> "none"]
    /\ kept = {} /\ stored = {}

Track(e) ==
    /\ told[e] = "none"
    /\ told' = [told EXCEPT ![e] = "pending"]
    /\ UNCHANGED <<kept, stored>>

\* The broker appends an event somebody tracked, perhaps one whose caller was
\* told that it failed.
Keep(e) ==
    /\ told[e] # "none"
    /\ kept' = kept \cup {e}
    /\ UNCHANGED <<told, stored>>

\* The callers of a batch are told, once and all the same.  A caller whose event
\* was alone in its batch is told of success only when the broker has it.
Settle ==
    /\ \E S \in (SUBSET {e \in Tracked : told[e] = "pending"}) \ {{}},
          how \in {"resolved", "rejected"} :
        /\ how = "resolved" => S \subseteq kept \/ \E d, e \in S : d # e
        /\ told' = [e \in Tracked |-> IF e \in S THEN how ELSE told[e]]
    /\ UNCHANGED <<kept, stored>>

Store ==
    /\ \E S \in (SUBSET (kept \ stored)) \ {{}} : stored' = stored \cup S
    /\ UNCHANGED <<told, kept>>

Next == (\E e \in Tracked : Track(e) \/ Keep(e)) \/ Settle \/ Store

Spec == Init /\ [][Next]_vars
=============================================================================
