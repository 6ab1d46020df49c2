------------------------------ MODULE PdfJobs ------------------------------
(***************************************************************************)
(* PDF export (api/src/pdf): a request creates a row in pdf_jobs and then  *)
(* adds a job to a BullMQ queue; a worker in the same process renders the  *)
(* dashboard, uploads the file and writes the row.  The row and the queue  *)
(* are two stores that no transaction joins: the process may die, or a     *)
(* call fail, between any two writes.  BullMQ (external) attempts a job    *)
(* Attempts times and takes back, MaxStalls times, a job whose worker died.*)
(*                                                                         *)
(* One API process, as in the compose file, and so one job at a time       *)
(* (BullMQ's default concurrency).  All jobs are for one dashboard.        *)
(***************************************************************************)
EXTENDS Naturals

CONSTANTS
    Jobs,           \* requests for a PDF, each the id of its row and job
    NoJob,          \* the worker has none
    Attempts,       \* `attempts` of queue.add
    MaxStalls,      \* BullMQ: maxStalledCount
    MaxFailures,      \* bound: failed database or Redis calls for a job
    MaxCrashes      \* bound: deaths of the process

ASSUME PdfJobsAssumption ==
    /\ NoJob \notin Jobs
    /\ Attempts \in Nat \ {0}
    /\ {MaxStalls, MaxFailures, MaxCrashes} \subseteq Nat

VARIABLES
    live,           \* Postgres: the dashboard exists
    row,            \* Postgres: pdf_jobs.status
    stored,         \* S3: the jobs whose file is in the bucket
    request,        \* API: where enqueue() is
    queue,          \* Redis: the state of the job
    attempts,       \* Redis: attemptsMade
    stalls,         \* Redis: how often the job was taken back
    worker, stage,  \* worker: its job, and where process() is
    failures,       \* history: calls that failed, per job
    crashes         \* history: deaths of the process

redis == <<queue, attempts, stalls>>
process == <<worker, stage>>
trouble == <<failures, crashes>>
pdfVars == <<live, row, stored, request, redis, process, trouble>>

PdfInit ==
    /\ live = TRUE
    /\ row = [j \in Jobs |-> "none"]
    /\ stored = {}
    /\ request = [j \in Jobs |-> "out"]
    /\ queue = [j \in Jobs |-> "none"]
    /\ attempts = [j \in Jobs |-> 0] /\ stalls = [j \in Jobs |-> 0]
    /\ worker = NoJob /\ stage = "idle"
    /\ failures = [j \in Jobs |-> 0] /\ crashes = 0

Fault(j) ==
    /\ failures[j] < MaxFailures
    /\ failures' = [failures EXCEPT ![j] = @ + 1]
    /\ UNCHANGED crashes

-----------------------------------------------------------------------------
(* The API.                                                                *)

\* enqueue(): the row is created, for any dashboard id: the table has no
\* foreign key.  A failed create leaves nothing.
CreateRow(j) ==
    /\ request[j] = "out"
    /\ row' = [row EXCEPT ![j] = "queued"]
    /\ request' = [request EXCEPT ![j] = "add"]
    /\ UNCHANGED <<live, stored, redis, process, trouble>>

\* queue.add() and the answer.
Add(j) ==
    /\ request[j] = "add"
    /\ queue' = [queue EXCEPT ![j] = "waiting"]
    /\ request' = [request EXCEPT ![j] = "answered"]
    /\ UNCHANGED <<live, row, stored, attempts, stalls, process, trouble>>

\* queue.add() raises, done or not: a 500, and the row stays.
AddFails(j) ==
    /\ request[j] = "add"
    /\ Fault(j)
    /\ queue' \in {queue, [queue EXCEPT ![j] = "waiting"]}
    /\ request' = [request EXCEPT ![j] = "answered"]
    /\ UNCHANGED <<live, row, stored, attempts, stalls, process>>

\* What download() gives a URL for.
Downloadable(j) == row[j] = "done"

\* DashboardsService.delete().
DeleteDashboard ==
    /\ live
    /\ live' = FALSE
    /\ UNCHANGED <<row, stored, request, redis, process, trouble>>

-----------------------------------------------------------------------------
(* The worker: process(), one action per awaited call.                     *)

At(s) == worker # NoJob /\ stage = s
Goto(s) == stage' = s /\ UNCHANGED worker
Leave == worker' = NoJob /\ stage' = "idle"
SetRow(status) == row' = [row EXCEPT ![worker] = status]

\* BullMQ hands the worker a waiting job, in whatever order.
Take(j) ==
    /\ worker = NoJob
    /\ queue[j] = "waiting"
    /\ worker' = j /\ stage' = "start"
    /\ queue' = [queue EXCEPT ![j] = "active"]
    /\ UNCHANGED <<live, row, stored, request, attempts, stalls, trouble>>

WriteRunning ==
    /\ At("start")
    /\ SetRow("running")
    /\ Goto("lookup")
    /\ UNCHANGED <<live, stored, request, redis, trouble>>

\* The first update is outside the try: its error goes to BullMQ at once.
WriteRunningFails ==
    /\ At("start")
    /\ Fault(worker)
    /\ row' \in {row, [row EXCEPT ![worker] = "running"]}
    /\ Goto("throw")
    /\ UNCHANGED <<live, stored, request, redis>>

\* `if (!dashboard) throw`: a job without its dashboard fails.
GoneReturns == "return"                     \* mutant: process() just returns
WhenGone == "catch"

\* The dashboard and its owner are looked up; the dashboard may be gone.
Lookup ==
    /\ At("lookup")
    /\ Goto(IF live THEN "render" ELSE WhenGone)
    /\ UNCHANGED <<live, row, stored, request, redis, trouble>>

\* The browser made the buffer; next is the upload, before the row says so.
DoneAfterRender == "done"                   \* mutant: the row first
AfterRender == "upload"

Render ==
    /\ At("render")
    /\ Goto(AfterRender)
    /\ UNCHANGED <<live, row, stored, request, redis, trouble>>

Upload ==
    /\ At("upload")
    /\ stored' = stored \cup {worker}
    /\ Goto("done")
    /\ UNCHANGED <<live, row, request, redis, trouble>>

\* A lookup, the browser or the upload raises; the file may be there.  These
\* are everyday events and not counted as failures.
TryRaises ==
    /\ At("lookup") \/ At("render") \/ At("upload")
    /\ stored' \in {stored, stored \cup {w \in {worker} : stage = "upload"}}
    /\ Goto("catch")
    /\ UNCHANGED <<live, row, request, redis, trouble>>

\* Nothing that can raise follows the update inside the try.
RaisesAfterDone == "catch"                  \* mutant: something does
AfterDone == "return"

WriteDone ==
    /\ At("done")
    /\ SetRow("done")
    /\ Goto(AfterDone)
    /\ UNCHANGED <<live, stored, request, redis, trouble>>

WriteDoneFails ==
    /\ At("done")
    /\ Fault(worker)
    /\ row' \in {row, [row EXCEPT ![worker] = "done"]}
    /\ Goto("catch")
    /\ UNCHANGED <<live, stored, request, redis>>

\* The catch block: the row says failed, and the error goes on to BullMQ.
RowKept == row[worker]                      \* mutant: the row is not written
RowAfterCatch == "failed"
Swallow == "return"                         \* mutant: the error ends here
AfterCatch == "throw"

WriteFailed ==
    /\ At("catch")
    /\ SetRow(RowAfterCatch)
    /\ Goto(AfterCatch)
    /\ UNCHANGED <<live, stored, request, redis, trouble>>

\* The update in the catch block raises in turn, done or not.
WriteFailedFails ==
    /\ At("catch")
    /\ Fault(worker)
    /\ row' \in {row, [row EXCEPT ![worker] = "failed"]}
    /\ Goto("throw")
    /\ UNCHANGED <<live, stored, request, redis>>

-----------------------------------------------------------------------------
(* BullMQ.                                                                 *)

Return ==
    /\ At("return")
    /\ queue' = [queue EXCEPT ![worker] = "completed"]
    /\ attempts' = [attempts EXCEPT ![worker] = @ + 1]
    /\ Leave
    /\ UNCHANGED <<live, row, stored, request, stalls, trouble>>

\* Is there another attempt after this one?
OneMore(made) == made <= Attempts           \* mutant: one too many
AnotherAttempt(made) == made < Attempts

\* process() raised: after the backoff another attempt, or the job has failed.
Throw ==
    /\ At("throw")
    /\ LET made == attempts[worker] + 1 IN
       /\ queue' = [queue EXCEPT ![worker] = IF AnotherAttempt(made) THEN "delayed" ELSE "failed"]
       /\ attempts' = [attempts EXCEPT ![worker] = made]
    /\ Leave
    /\ UNCHANGED <<live, row, stored, request, stalls, trouble>>

BackoffOver(j) ==
    /\ queue[j] = "delayed"
    /\ queue' = [queue EXCEPT ![j] = "waiting"]
    /\ UNCHANGED <<live, row, stored, request, attempts, stalls, process, trouble>>

\* The lock of a job without a worker runs out.  This is no attempt, but a job
\* that stalls too often fails without a word to process().
Stalled(j) ==
    /\ queue[j] = "active" /\ worker # j
    /\ IF stalls[j] < MaxStalls
       THEN /\ queue' = [queue EXCEPT ![j] = "waiting"]
            /\ stalls' = [stalls EXCEPT ![j] = @ + 1]
       ELSE queue' = [queue EXCEPT ![j] = "failed"] /\ UNCHANGED stalls
    /\ UNCHANGED <<live, row, stored, request, attempts, process, trouble>>

\* The process dies and is started again: its requests and its job are dropped.
ProcessDies ==
    /\ crashes < MaxCrashes
    /\ crashes' = crashes + 1
    /\ request' = [j \in Jobs |-> IF request[j] = "add" THEN "lost" ELSE request[j]]
    /\ Leave
    /\ UNCHANGED <<live, row, stored, redis, failures>>

WorkerStep ==
    \/ \E j \in Jobs : Take(j)
    \/ WriteRunning \/ WriteRunningFails \/ Lookup \/ Render \/ Upload \/ TryRaises
    \/ WriteDone \/ WriteDoneFails \/ WriteFailed \/ WriteFailedFails
    \/ Return \/ Throw

PdfNext ==
    \/ \E j \in Jobs : CreateRow(j) \/ Add(j) \/ AddFails(j) \/ BackoffOver(j) \/ Stalled(j)
    \/ DeleteDashboard \/ ProcessDies
    \/ WorkerStep

\* Awaited calls return or raise, timers fire, and the process is restarted.
PdfFairness ==
    /\ WF_pdfVars(WorkerStep)
    /\ \A j \in Jobs : WF_pdfVars(Add(j) \/ AddFails(j)) /\ WF_pdfVars(BackoffOver(j))
                       /\ WF_pdfVars(Stalled(j))

PdfSpec == PdfInit /\ [][PdfNext]_pdfVars
PdfFairSpec == PdfSpec /\ PdfFairness

-----------------------------------------------------------------------------
\* Every variable has its type: in particular a job is never attempted more
\* than `attempts` times, nor taken back more than maxStalledCount times.
PdfTypeOK ==
    /\ live \in BOOLEAN
    /\ row \in [Jobs -> {"none", "queued", "running", "done", "failed"}]
    /\ stored \subseteq Jobs
    /\ request \in [Jobs -> {"out", "add", "answered", "lost"}]
    /\ queue \in [Jobs -> {"none", "waiting", "active", "delayed", "completed", "failed"}]
    /\ attempts \in [Jobs -> 0 .. Attempts] /\ stalls \in [Jobs -> 0 .. MaxStalls]
    /\ worker \in Jobs \cup {NoJob}
    /\ stage \in {"idle", "start", "lookup", "render", "upload", "done", "catch",
                  "return", "throw"}
    /\ failures \in [Jobs -> 0 .. MaxFailures] /\ crashes \in 0 .. MaxCrashes

\* A URL is only given for a file that is there, whatever attempts, failures
\* and crashes the job went through (the upload comes before the row).
DownloadHasFile == \A j \in Jobs : Downloadable(j) => j \in stored

\* What BullMQ counts as completed is a PDF: an attempt that failed is not
\* hidden from the queue, which would not try again.
CompletedIsDone == \A j \in Jobs : queue[j] = "completed" => row[j] = "done"

\* A PDF that was ready stays so, unless a call failed or the process died: only
\* then is a job with a finished row attempted again, or its row overwritten.
DoneIsFinal ==
    [][\A j \in Jobs : row[j] = "done" /\ row'[j] # "done" => failures[j] + crashes > 0]_pdfVars

\* What may leave a row unfinished for ever: a failed write of the row or of the
\* queue, a death between the two stores, or more deaths than BullMQ forgives.
Excused(j) ==
    \/ failures[j] > 0 \/ request[j] = "lost"
    \/ crashes > MaxStalls

\* A caller that polls a queued or running job does not wait in vain: somebody
\* still holds it, although the row and the queue are never written together.
UnfinishedIsHeld ==
    \A j \in Jobs :
        row[j] \in {"queued", "running"} =>
            \/ request[j] = "add" \/ queue[j] \in {"waiting", "active", "delayed"}
            \/ Excused(j)

\* The inductive strengthening: the job a worker has is active, what process()
\* has reached tells what it has written, a job in the queue has an attempt
\* left, every stall follows a crash, and without trouble a job is over once
\* its row says done.
PdfInv ==
    /\ PdfTypeOK /\ DownloadHasFile /\ CompletedIsDone /\ UnfinishedIsHeld
    /\ worker # NoJob => queue[worker] = "active"
    /\ At("done") => worker \in stored
    /\ At("return") => row[worker] = "done"
    /\ At("throw") => row[worker] = "failed" \/ Excused(worker)
    /\ \A j \in Jobs :
        /\ request[j] # "answered" => queue[j] = "none"
        /\ queue[j] \notin {"completed", "failed"} => attempts[j] < Attempts
        /\ row[j] = "done" =>
              \/ queue[j] = "completed"
              \/ worker = j /\ stage = "return"
              \/ failures[j] + crashes > 0
        /\ stalls[j] + (IF queue[j] = "active" /\ worker # j THEN 1 ELSE 0) <= crashes

\* Every job ends, in the row and in the queue, and also when the process
\* dies during an attempt.
EveryJobEnds ==
    \A j \in Jobs :
        (row[j] = "queued") ~>
            \/ row[j] \in {"done", "failed"} /\ queue[j] \in {"completed", "failed"}
            \/ Excused(j)
=============================================================================
