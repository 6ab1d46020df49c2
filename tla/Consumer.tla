------------------------------ MODULE Consumer ------------------------------
(***************************************************************************)
(* The ingestion consumer (ingestion/app/consumer.py): worker processes of *)
(* one Kafka consumer group poll the topic events.raw, buffer enriched     *)
(* rows, insert them into ClickHouse in micro-batches and then commit the  *)
(* offsets.  The broker's log and group state and the ClickHouse tables    *)
(* are external and modelled from how the consumer uses them.              *)
(*                                                                         *)
(* A step ends where another process can see or disturb the worker: at an  *)
(* await, at the insert call, or at the end of the process.  The loop body *)
(* between getmany and the flush has no await and is one step.             *)
(***************************************************************************)
EXTENDS Integers, FiniteSets, FiniteSetsExt, Functions

CONSTANTS
    Partitions,     \* partitions of the topic events.raw
    Workers,        \* consumer processes of the group
    NoWorker,       \* the owner of an unassigned partition
    MaxLog,         \* bound: records ever appended to one partition
    Malformed,      \* records on which _enrich_row raises
    Unwritable,     \* rows the insert call cannot encode for their column
    BatchMax,       \* BATCH_MAX_ROWS
    MaxFaults,      \* bound: crashes, failed inserts and failed commits
    MaxRebalances,  \* bound: rebalances of workers that hold partitions
    MaxStops        \* bound: graceful stops (SIGTERM)

Offsets == 0 .. MaxLog - 1
Records == Partitions \X Offsets

ASSUME ConsumerAssumption ==
    /\ MaxLog \in Nat
    /\ BatchMax \in Nat \ {0}
    /\ MaxFaults \in Nat /\ MaxRebalances \in Nat /\ MaxStops \in Nat
    /\ IsFiniteSet(Partitions) /\ IsFiniteSet(Workers)
    /\ NoWorker \notin Workers
    /\ Malformed \subseteq Records
    /\ Unwritable \subseteq Records

VARIABLES
    logEnd,         \* broker: partition -> next offset
    committed,      \* broker: partition -> offset the group resumes from
    owner,          \* broker: partition -> the member it is assigned to
    events,         \* ClickHouse: records in `events` after merges
    kpi,            \* ClickHouse: record -> times mv_kpi_hourly counted it
    pc,             \* worker: where run() is
    assigned,       \* worker: partitions it believes are assigned to it
    position,       \* worker: partition -> next offset to fetch
    buffer,         \* worker: record -> copies in self._buffer
    pending,        \* worker: partition -> self._pending_partitions, or NoOffset
    stop,           \* worker: self._stop
    faults, rebalances, stops    \* counters of what happened around them

broker == <<logEnd, committed, owner>>
tables == <<events, kpi>>
memory == <<assigned, position, buffer, pending>>
counters == <<faults, rebalances, stops>>
vars == <<broker, tables, pc, memory, stop, counters>>

NoOffset == -1
EmptyBuffer == [r \in Records |-> 0]
NoPending == [p \in Partitions |-> NoOffset]
Locations == {"down", "poll", "insert", "commit",
              "finalInsert", "finalCommit", "closing"}

WellFormed == Records \ Malformed
Published == {r \in Records : r[2] < logEnd[r[1]]}
Live(w) == pc[w] # "down"
Owned(w) == {p \in Partitions : owner[p] = w}
Buffered(w) == {r \in Records : buffer[w][r] > 0}
BufferedRows(w) == SumFunction(buffer[w])
HasPending(w) == pending[w] # NoPending

Init ==
    /\ logEnd = [p \in Partitions |-> 0]
    /\ committed = [p \in Partitions |-> 0]
    /\ owner = [p \in Partitions |-> NoWorker]
    /\ events = {}
    /\ kpi = EmptyBuffer
    /\ pc = [w \in Workers |-> "down"]
    /\ assigned = [w \in Workers |-> {}]
    /\ position = [w \in Workers |-> [p \in Partitions |-> 0]]
    /\ buffer = [w \in Workers |-> EmptyBuffer]
    /\ pending = [w \in Workers |-> NoPending]
    /\ stop = [w \in Workers |-> FALSE]
    /\ faults = 0 /\ rebalances = 0 /\ stops = 0

-----------------------------------------------------------------------------
(* The broker.                                                             *)

\* The ingestion API appends one event to a partition.
Append(p) ==
    /\ logEnd[p] < MaxLog
    /\ logEnd' = [logEnd EXCEPT ![p] = @ + 1]
    /\ UNCHANGED <<committed, owner, tables, pc, memory, stop, counters>>

\* Where a partition is resumed: at the group's committed offset.
ResumeFromStart(p) == 0                             \* mutant: no group offsets
ResumeOffset(p) == committed[p]

\* w completes a rebalance: it keeps what it owns, gains free partitions (all
\* of them when it is the only member) and resumes all it has from the
\* committed offsets.  There is no rebalance listener: buffer and pending keep
\* what an earlier assignment left there.
JoinGroup(w) ==
    /\ pc[w] \in {"poll", "commit", "finalCommit"}
    /\ Owned(w) # {} => rebalances < MaxRebalances
    /\ \E gained \in (SUBSET Owned(NoWorker)) \ {{}} :
        LET mine == Owned(w) \cup gained IN
        /\ (\A v \in Workers \ {w} : ~Live(v)) => gained = Owned(NoWorker)
        /\ rebalances' = rebalances + (IF Owned(w) # {} THEN 1 ELSE 0)
        /\ owner' = [p \in Partitions |-> IF p \in gained THEN w ELSE owner[p]]
        /\ assigned' = [assigned EXCEPT ![w] = mine]
        /\ position' = [position EXCEPT ![w] =
               [p \in Partitions |-> IF p \in mine THEN ResumeOffset(p) ELSE @[p]]]
    /\ UNCHANGED <<logEnd, committed, tables, pc, buffer, pending, stop, faults, stops>>

\* The coordinator takes w's partitions away (a missed heartbeat while the
\* insert blocks the event loop, or a new member).  w does not know yet.
Evict(w) ==
    /\ rebalances < MaxRebalances
    /\ Owned(w) # {}
    /\ owner' = [p \in Partitions |-> IF owner[p] = w THEN NoWorker ELSE owner[p]]
    /\ rebalances' = rebalances + 1
    /\ UNCHANGED <<logEnd, committed, tables, pc, memory, stop, faults, stops>>

-----------------------------------------------------------------------------
(* The worker.                                                             *)

\* ConsumerWorker.__init__ and consumer.start(), by the restart policy.
Start(w) ==
    /\ pc[w] = "down"
    /\ pc' = [pc EXCEPT ![w] = "poll"]
    /\ UNCHANGED <<broker, tables, memory, stop, counters>>

\* What getmany may return: n[p] records of each partition, at most BatchMax.
Fetchable(w) ==
    {n \in [Partitions -> 0 .. BatchMax] :
        /\ SumFunction(n) <= BatchMax
        /\ \A p \in Partitions :
              n[p] > 0 => p \in assigned[w] /\ position[w][p] + n[p] <= logEnd[p]}

\* The rows a fetch yields: a record _enrich_row raises on is skipped.
NewRowsOfAll(w, n) ==                               \* mutant: no skip
    {r \in Records : /\ position[w][r[1]] <= r[2]
                     /\ r[2] < position[w][r[1]] + n[r[1]]}
NewRows(w, n) ==
    {r \in WellFormed : /\ position[w][r[1]] <= r[2]
                        /\ r[2] < position[w][r[1]] + n[r[1]]}

\* pending[tp] = msg.offset, once per appended row: the last one stays.
LastOffset(rows, p, old) ==
    LET offs == {o \in Offsets : <<p, o>> \in rows}
    IN  IF offs = {} THEN old ELSE Max(offs)

\* should_flush: a full batch, or rows and a second since the last flush.
ShouldFlushLate(rows, elapsed) ==                   \* mutant: > for >=
    rows > BatchMax \/ (rows > 0 /\ elapsed)
ShouldFlushFull(rows, elapsed) == rows >= BatchMax  \* mutant: no time trigger
ShouldFlush(rows, elapsed) == rows >= BatchMax \/ (rows > 0 /\ elapsed)

\* One turn of the loop: getmany, the message loop, the flush decision.
Poll(w) ==
    /\ pc[w] = "poll" /\ ~stop[w]
    /\ \E n \in Fetchable(w), elapsed \in BOOLEAN :
        LET rows == NewRows(w, n)
            buf == [r \in Records |-> buffer[w][r] + (IF r \in rows THEN 1 ELSE 0)]
        IN  /\ position' = [position EXCEPT ![w] =
                               [p \in Partitions |-> @[p] + n[p]]]
            /\ buffer' = [buffer EXCEPT ![w] = buf]
            /\ pending' = [pending EXCEPT ![w] =
                               [p \in Partitions |-> LastOffset(rows, p, @[p])]]
            /\ pc' = [pc EXCEPT ![w] =
                   IF ShouldFlush(SumFunction(buf), elapsed) THEN "insert" ELSE "poll"]
    /\ UNCHANGED <<broker, tables, assigned, stop, counters>>

\* The tables after the rows S of w's buffer are inserted: `events` merges
\* equal rows, the materialized view counts every row of every insert.
StoreRows(w, S) ==
    /\ events' = events \cup S
    /\ kpi' = [r \in Records |-> kpi[r] + (IF r \in S THEN buffer[w][r] ELSE 0)]

\* _flush, the insert: it succeeds and the buffer stays empty.
InsertOk(w) ==
    /\ pc[w] \in {"insert", "finalInsert"}
    /\ Buffered(w) \cap Unwritable = {}
    /\ StoreRows(w, Buffered(w))
    /\ buffer' = [buffer EXCEPT ![w] = EmptyBuffer]
    /\ pc' = [pc EXCEPT ![w] =
           IF @ = "insert" THEN (IF HasPending(w) THEN "commit" ELSE "poll")
                           ELSE (IF HasPending(w) THEN "finalCommit" ELSE "closing")]
    /\ UNCHANGED <<broker, assigned, position, pending, stop, counters>>

\* The buffer after a failed insert: self._buffer = rows + self._buffer.
BufferDropped(w) == EmptyBuffer                     \* mutant: not restored
BufferDoubled(w) == [r \in Records |-> 2 * buffer[w][r]]  \* mutant: not emptied first
RestoredBuffer(w) == buffer[w]

\* Where a raise out of _flush leads: from the loop to the finally block, whose
\* own _flush returns at once on an empty buffer; from there to the close.
RaiseSwallowed(w, buf) ==                           \* mutant: logged, not raised
    IF pc[w] = "insert" THEN "commit" ELSE "closing"
AfterRaise(w, buf) ==
    IF pc[w] \in {"insert", "commit"} /\ buf # EmptyBuffer
    THEN "finalInsert" ELSE "closing"

\* _flush, the insert raises: a row cannot be encoded and nothing is sent, or
\* the server or the connection fails after some of the rows were written.
InsertRaises(w) ==
    /\ pc[w] \in {"insert", "finalInsert"}
    /\ \/ /\ Buffered(w) \cap Unwritable # {}
          /\ UNCHANGED <<tables, faults>>
       \/ /\ Buffered(w) \cap Unwritable = {}
          /\ faults < MaxFaults
          /\ faults' = faults + 1
          /\ \E S \in SUBSET Buffered(w) : StoreRows(w, S)
    /\ buffer' = [buffer EXCEPT ![w] = RestoredBuffer(w)]
    /\ pc' = [pc EXCEPT ![w] = AfterRaise(w, RestoredBuffer(w))]
    /\ UNCHANGED <<broker, assigned, position, pending, stop, rebalances, stops>>

\* The offsets _flush commits: the highest seen per partition, plus one.
CommitOffsetTooFar(w, p) == pending[w][p] + 2       \* mutant: off by one
CommitOffset(w, p) == pending[w][p] + 1

\* The group's offsets after w's commit was applied for the partitions S.
Applied(w, S) ==
    [p \in Partitions |-> IF p \in S THEN CommitOffset(w, p) ELSE committed[p]]

PendingPartitions(w) == {p \in Partitions : pending[w][p] # NoOffset}

\* _flush, the commit: accepted only while w owns every pending partition.
CommitOk(w) ==
    /\ pc[w] \in {"commit", "finalCommit"}
    /\ PendingPartitions(w) \subseteq Owned(w)
    /\ committed' = Applied(w, PendingPartitions(w))
    /\ pending' = [pending EXCEPT ![w] = NoPending]
    /\ pc' = [pc EXCEPT ![w] = IF @ = "commit" THEN "poll" ELSE "closing"]
    /\ UNCHANGED <<logEnd, owner, tables, assigned, position, buffer, stop, counters>>

\* _flush, the commit raises: refused after an eviction, or it fails after
\* the coordinator applied part of it.
CommitRaises(w) ==
    /\ pc[w] \in {"commit", "finalCommit"}
    /\ \/ /\ ~(PendingPartitions(w) \subseteq Owned(w))
          /\ UNCHANGED <<committed, faults>>
       \/ /\ PendingPartitions(w) \subseteq Owned(w)
          /\ faults < MaxFaults
          /\ faults' = faults + 1
          /\ \E S \in SUBSET PendingPartitions(w) : committed' = Applied(w, S)
    /\ pc' = [pc EXCEPT ![w] = AfterRaise(w, buffer[w])]
    /\ UNCHANGED <<logEnd, owner, tables, memory, stop, rebalances, stops>>

\* SIGINT or SIGTERM: _request_stop sets the event.
RequestStop(w) ==
    /\ stops < MaxStops
    /\ Live(w) /\ ~stop[w]
    /\ stop' = [stop EXCEPT ![w] = TRUE]
    /\ stops' = stops + 1
    /\ UNCHANGED <<broker, tables, pc, memory, faults, rebalances>>

\* The loop condition fails: the finally block flushes what is buffered.
LeaveLoop(w) ==
    /\ pc[w] = "poll" /\ stop[w]
    /\ pc' = [pc EXCEPT ![w] =
           IF buffer[w] = EmptyBuffer THEN "closing" ELSE "finalInsert"]
    /\ UNCHANGED <<broker, tables, memory, stop, counters>>

\* The process is gone: its memory is lost and its partitions are free.
ProcessEnds(w) ==
    /\ pc' = [pc EXCEPT ![w] = "down"]
    /\ owner' = [p \in Partitions |-> IF owner[p] = w THEN NoWorker ELSE owner[p]]
    /\ assigned' = [assigned EXCEPT ![w] = {}]
    /\ position' = [position EXCEPT ![w] = [p \in Partitions |-> 0]]
    /\ buffer' = [buffer EXCEPT ![w] = EmptyBuffer]
    /\ pending' = [pending EXCEPT ![w] = NoPending]
    /\ stop' = [stop EXCEPT ![w] = FALSE]
    /\ UNCHANGED <<logEnd, committed, tables, rebalances, stops>>

\* consumer.stop() and the end of main().
Close(w) ==
    /\ pc[w] = "closing"
    /\ ProcessEnds(w)
    /\ UNCHANGED faults

\* The process dies at any point.
Crash(w) ==
    /\ Live(w)
    /\ faults < MaxFaults
    /\ faults' = faults + 1
    /\ ProcessEnds(w)

-----------------------------------------------------------------------------
WorkerStep(w) ==
    \/ Start(w) \/ Poll(w) \/ LeaveLoop(w) \/ Close(w)
    \/ InsertOk(w) \/ InsertRaises(w) \/ CommitOk(w) \/ CommitRaises(w)

Next ==
    \/ \E p \in Partitions : Append(p)
    \/ \E w \in Workers :
        \/ JoinGroup(w) \/ Evict(w) \/ WorkerStep(w)
        \/ RequestStop(w) \/ Crash(w)

\* The event loop runs, the restart policy restarts the process and the group
\* hands out free partitions.  Appends, faults and stops are never forced.
Fairness == \A w \in Workers : WF_vars(WorkerStep(w)) /\ WF_vars(JoinGroup(w))

Spec == Init /\ [][Next]_vars
FairSpec == Spec /\ Fairness

-----------------------------------------------------------------------------
TypeOK ==
    /\ logEnd \in [Partitions -> 0 .. MaxLog]
    /\ committed \in [Partitions -> 0 .. MaxLog]
    /\ owner \in [Partitions -> Workers \cup {NoWorker}]
    /\ events \subseteq Records
    /\ kpi \in [Records -> Nat]
    /\ pc \in [Workers -> Locations]
    /\ assigned \in [Workers -> SUBSET Partitions]
    /\ position \in [Workers -> [Partitions -> 0 .. MaxLog]]
    /\ buffer \in [Workers -> [Records -> Nat]]
    /\ pending \in [Workers -> [Partitions -> Offsets \cup {NoOffset}]]
    /\ stop \in [Workers -> BOOLEAN]
    /\ faults \in 0 .. MaxFaults
    /\ rebalances \in Nat
    /\ stops \in 0 .. MaxStops

\* No event is lost: every well-formed record below a committed offset is in
\* the events table, across crashes, failed inserts, refused commits and
\* partitions changing hands (_flush inserts before it commits).
NoLoss == \A r \in WellFormed : r[2] < committed[r[1]] => r \in events

\* What makes NoLoss inductive.  A worker that has moved past a record, or
\* has noted its offset, has the record in the store or in its buffer.
Covered(w, r) == r \in events \/ buffer[w][r] > 0
PassedIsCovered ==
    \A w \in Workers, r \in WellFormed :
        r[2] < position[w][r[1]] \/ r[2] <= pending[w][r[1]] => Covered(w, r)

\* A worker commits only with nothing left in its buffer.
CommitsWithEmptyBuffer ==
    \A w \in Workers :
        pc[w] \in {"commit", "finalCommit"} => buffer[w] = EmptyBuffer

\* Nobody is past the end of the log, and only published records are kept.
WithinLog ==
    /\ \A p \in Partitions : committed[p] <= logEnd[p]
    /\ \A w \in Workers, p \in Partitions :
        position[w][p] <= logEnd[p] /\ pending[w][p] < logEnd[p]
    /\ events \subseteq Published \ Malformed
    /\ \A w \in Workers : Buffered(w) \subseteq Published \ Malformed

\* The buffer stays under two batches: a flush is due as soon as it holds one
\* full batch, and a poll adds at most one (BATCH_MAX_ROWS).
BufferBounded == \A w \in Workers : BufferedRows(w) < 2 * BatchMax

\* What makes that inductive: a worker that goes on polling has less than one.
BuffersInOrder ==
    \A w \in Workers :
        BufferedRows(w) < (IF pc[w] \in {"down", "poll"} THEN 1 ELSE 2) * BatchMax

\* Over-counting is bounded by what happened: a rebalance that disturbs a
\* worker puts at most one more copy of a record on its way and may have one
\* commit refused, after which what was inserted is inserted again; a crash or
\* a failed call at most repeats the insert of all copies on their way; a
\* graceful stop adds nothing (mv_kpi_hourly counts every inserted row).
CopiesAllowed == (1 + faults) * (1 + rebalances) + rebalances
DuplicatesNeedFaults == \A r \in Records : kpi[r] <= CopiesAllowed

\* What makes it inductive.  The ways in which worker w may still insert record
\* r: the copies in its buffer, and one fetch more.  One way is the owner's.
Ways(w, r) ==
    buffer[w][r] +
    (IF r[1] \in assigned[w] /\ position[w][r[1]] <= r[2] THEN 1 ELSE 0)
Extra(w, r) == IF owner[r[1]] = w /\ Ways(w, r) > 0 THEN Ways(w, r) - 1 ELSE Ways(w, r)

\* No rebalance has disturbed w: its commit will be accepted and covers what w
\* has fetched of r's partition; and if the group would resume below r, which w
\* has fetched, then r is buffered, or inserted and about to be committed.
\* Otherwise r may be fetched once more after w has ended.
Undisturbed(w, r) ==
    /\ assigned[w] \cup PendingPartitions(w) \subseteq Owned(w)
    /\ r[2] < position[w][r[1]] =>
        /\ r[1] \in PendingPartitions(w) => r[2] <= pending[w][r[1]]
        /\ r[1] \in Owned(w) /\ committed[r[1]] <= r[2] =>
            /\ pc[w] \in {"commit", "finalCommit"} \/ buffer[w][r] > 0
            /\ pc[w] = "closing" \/ r[1] \in PendingPartitions(w)
ToCome(w, r) == Ways(w, r) + (IF Undisturbed(w, r) THEN 0 ELSE 1)
Unowned(r) == IF owner[r[1]] = NoWorker /\ committed[r[1]] <= r[2] THEN 1 ELSE 0

CopiesAccounted ==
    /\ \A w \in Workers : Owned(w) \subseteq assigned[w]
    /\ \A r \in WellFormed :
        /\ SumFunction([w \in Workers |-> Extra(w, r)]) <= rebalances
        /\ kpi[r] + SumFunction([w \in Workers |-> ToCome(w, r)]) + Unowned(r)
             <= CopiesAllowed
    /\ \A r \in Malformed : kpi[r] = 0

\* A row the store cannot take holds its partition: its batch fails as a whole,
\* the process ends and starts over, and no committed offset ever passes the
\* row (nothing in _flush or run() sets a bad row aside).
UnwritableHoldsPartition ==
    \A r \in Unwritable \ Malformed : committed[r[1]] <= r[2] /\ r \notin events

\* What goes wrong stays bounded: the rows in memory, the copies in the store,
\* and the progress past a row that cannot be written.
WithinBounds == BufferBounded /\ DuplicatesNeedFaults /\ UnwritableHoldsPartition

\* While no rebalance disturbs a worker that holds partitions, a committed
\* offset never moves backwards, even across crashes and restarts.
CommittedNeverRegresses ==
    [][\A p \in Partitions : rebalances = 0 => committed'[p] >= committed[p]]_vars

\* What makes it inductive: without a rebalance a worker notes and commits the
\* offsets of its own partitions only, and in order.
OffsetsInOrder ==
    rebalances = 0 => \A w \in Workers :
        /\ assigned[w] \cup PendingPartitions(w) \subseteq Owned(w)
        /\ \A p \in Owned(w) : committed[p] <= position[w][p]
        /\ \A p \in PendingPartitions(w) :
            committed[p] <= CommitOffset(w, p) /\ CommitOffset(w, p) <= position[w][p]

\* The inductive invariant: of no loss and the refinement of EventLog, of the
\* bounds, and of the order of commits.
DataInv == TypeOK /\ NoLoss /\ PassedIsCovered /\ CommitsWithEmptyBuffer /\ WithinLog
IInv == DataInv /\ BuffersInOrder /\ CopiesAccounted /\ OffsetsInOrder

\* The workers together implement the at-least-once log.
Log == INSTANCE EventLog
ImplementsEventLog == Log!Spec

\* Once published, a well-formed record is eventually in the events table, with
\* rebalances too: faults are finite and no row is unwritable.  And the group's
\* lag drains: in the end every published well-formed record is
\* below the committed offset, for good, across crashes and graceful stops.  Only
\* a rebalance of a worker that holds partitions may undo it: the pending offsets
\* it keeps from before may be committed last, with no record left to follow.
LagDrains ==
    \A r \in WellFormed :
        /\ (r \in Published) ~> (r \in events)
        /\ <>(rebalances > 0) \/ <>[](r \in Published => r[2] < committed[r[1]])
=============================================================================
