---------------------------- MODULE CompileQueue ----------------------------
(***************************************************************************)
(* The compile queue of the hub (internal/esphome/queue.go) with the rows  *)
(* it keeps in SQLite (internal/db/esphome_jobs.go): HTTP handlers that    *)
(* enqueue and cancel jobs, the single worker goroutine, the 7-day sweep,  *)
(* and a hub that may die between any two steps.                           *)
(*                                                                         *)
(* A step is what the code does between two points where another goroutine *)
(* can get in: one critical section of q.mu, one SQL statement (the pool   *)
(* has a single connection), one file operation, one channel operation.    *)
(* The events sent to SSE subscribers along the way are module JobStream.  *)
(* SQL updates, whose errors the code ignores, are assumed to succeed.     *)
(***************************************************************************)
EXTENDS Naturals, Sequences, SequencesExt

CONSTANTS
    Jobs,       \* job ids that may be enqueued; a re-submit is a fresh id
    NoJob,      \* "no active job" (q.active = nil)
    Devices,    \* device ids
    DeviceOf    \* the device a job's config is for; a re-submit keeps it

ASSUME JobsAssumption == NoJob \notin Jobs
ASSUME DevicesAssumption == DeviceOf \in [Jobs -> Devices]

VARIABLES
    \* durable: the SQLite tables and the data directory
    status,     \* esphome_jobs.status of each job
    files,      \* jobs with a file esphome-builds/<id>.bin
    devices,    \* rows of table devices the queue registered
    \* the Queue struct
    pending,    \* q.pending, front = next to run
    active,     \* q.active
    ctxErr,     \* ctx.Err() # nil for the active job: cancelled or timed out
    notify,     \* q.notify (capacity 1) holds its token
    \* control points of the goroutines
    wpc,        \* the worker
    enq,        \* the Enqueue call of each job
    cancelling, \* jobs a Cancel call took out of pending, row not updated yet
    acked,      \* jobs for which some Cancel call returned nil
    \* the sweep and the passage of its seven days
    rowOld,     \* jobs whose row was created before the cutoff
    fileOld,    \* jobs whose file was written before the cutoff
    sweep,      \* the sweep is between deleting rows and removing files
    doomed      \* files the sweep is about to remove

stores == <<status, files, devices>>
queue  == <<pending, active, ctxErr, notify>>
calls  == <<enq, cancelling, acked>>
aging  == <<rowOld, fileOld, sweep, doomed>>
vars   == <<stores, queue, wpc, calls, aging>>

Lifecycle == INSTANCE JobLifecycle WITH Jobs <- Jobs, status <- status

Terminal == Lifecycle!Terminal

\* Control points at which runJob is executing for q.active.
InRunJob == {"begin", "build", "compile", "read", "save", "register", "commit",
             "fail", "abort"}

TypeOK ==
    /\ status \in [Jobs -> Lifecycle!Statuses]
    /\ files \subseteq Jobs
    /\ devices \subseteq Devices
    /\ pending \in Seq(Jobs)
    /\ active \in Jobs \cup {NoJob}
    /\ ctxErr \in BOOLEAN
    /\ notify \in BOOLEAN
    /\ wpc \in {"idle", "pop", "clear"} \cup InRunJob
    /\ enq \in [Jobs -> {"new", "created", "appended", "returned"}]
    /\ cancelling \subseteq Jobs
    /\ acked \subseteq Jobs
    /\ rowOld \subseteq Jobs
    /\ fileOld \subseteq files
    /\ sweep \in BOOLEAN
    /\ doomed \subseteq Jobs

Init ==
    /\ status = [j \in Jobs |-> "none"]
    /\ files = {} /\ devices = {}
    /\ pending = <<>> /\ active = NoJob /\ ctxErr = FALSE /\ notify = FALSE
    /\ wpc = "idle"
    /\ enq = [j \in Jobs |-> "new"]
    /\ cancelling = {} /\ acked = {}
    /\ rowOld = {} /\ fileOld = {} /\ sweep = FALSE /\ doomed = {}

SetStatus(j, s) == status' = [status EXCEPT ![j] = s]

-----------------------------------------------------------------------------
(* Enqueue: insert the row, append under q.mu, drop a token into notify.   *)

CreateRow(j) ==
    /\ enq[j] = "new"
    /\ enq' = [enq EXCEPT ![j] = "created"]
    /\ SetStatus(j, "pending")
    /\ UNCHANGED <<files, devices, queue, wpc, cancelling, acked, aging>>

AppendJob(j) ==
    /\ enq[j] = "created"
    /\ enq' = [enq EXCEPT ![j] = "appended"]
    /\ pending' = Append(pending, j)
    /\ UNCHANGED <<stores, active, ctxErr, notify, wpc, cancelling, acked, aging>>

\* Mutant: the token is forgotten.
Notify_NoToken(j) ==
    /\ enq[j] = "appended"
    /\ enq' = [enq EXCEPT ![j] = "returned"]
    /\ UNCHANGED <<stores, queue, wpc, cancelling, acked, aging>>

\* The send is non-blocking: a token already there is enough.
Notify(j) ==
    /\ enq[j] = "appended"
    /\ enq' = [enq EXCEPT ![j] = "returned"]
    /\ notify' = TRUE
    /\ UNCHANGED <<stores, pending, active, ctxErr, wpc, cancelling, acked, aging>>

-----------------------------------------------------------------------------
(* Cancel: a pending job is taken out under q.mu and its row updated after *)
(* the unlock; for the active job the context is cancelled under q.mu.     *)
(* For any other job the call returns an error and changes nothing.        *)

\* Mutant: the entry stays in q.pending.
RemovePending_Kept(j) ==
    /\ \E i \in DOMAIN pending : pending[i] = j
    /\ cancelling' = cancelling \cup {j}
    /\ UNCHANGED <<stores, queue, wpc, enq, acked, aging>>

RemovePending(j) ==
    /\ \E i \in DOMAIN pending : pending[i] = j /\ pending' = RemoveAt(pending, i)
    /\ cancelling' = cancelling \cup {j}
    /\ UNCHANGED <<stores, active, ctxErr, notify, wpc, enq, acked, aging>>

MarkCancelled(j) ==
    /\ j \in cancelling
    /\ SetStatus(j, "cancelled")
    /\ cancelling' = cancelling \ {j}
    /\ acked' = acked \cup {j}
    /\ UNCHANGED <<files, devices, queue, wpc, enq, aging>>

\* Mutants: Cancel also clears q.active; Cancel also writes the row.
CancelActive_Clears(j) ==
    /\ active = j
    /\ ctxErr' = TRUE
    /\ active' = NoJob
    /\ acked' = acked \cup {j}
    /\ UNCHANGED <<stores, pending, notify, wpc, enq, cancelling, aging>>

CancelActive_WritesRow(j) ==
    /\ active = j
    /\ ctxErr' = TRUE
    /\ acked' = acked \cup {j}
    /\ SetStatus(j, "cancelled")
    /\ UNCHANGED <<files, devices, pending, active, notify, wpc, enq, cancelling, aging>>

CancelActive(j) ==
    /\ active = j
    /\ ctxErr' = TRUE
    /\ acked' = acked \cup {j}
    /\ UNCHANGED <<stores, pending, active, notify, wpc, enq, cancelling, aging>>

\* The 15-minute timeout of the active job's context.
Deadline ==
    /\ active # NoJob
    /\ ctxErr' = TRUE
    /\ UNCHANGED <<stores, pending, active, notify, wpc, calls, aging>>

-----------------------------------------------------------------------------
(* The worker goroutine.                                                   *)

WakeUp ==
    /\ wpc = "idle" /\ notify
    /\ notify' = FALSE
    /\ wpc' = "pop"
    /\ UNCHANGED <<stores, pending, active, ctxErr, calls, aging>>

PopNext ==
    /\ wpc = "pop" /\ pending # <<>>
    /\ active' = Head(pending)
    /\ pending' = Tail(pending)
    /\ ctxErr' = FALSE
    /\ wpc' = "begin"
    /\ UNCHANGED <<stores, notify, calls, aging>>

Drained ==
    /\ wpc = "pop" /\ pending = <<>>
    /\ wpc' = "idle"
    /\ UNCHANGED <<stores, queue, calls, aging>>

Begin ==
    /\ wpc = "begin"
    /\ SetStatus(active, "running")
    /\ wpc' = "build"
    /\ UNCHANGED <<files, devices, queue, calls, aging>>

\* Load the library, fill defaults, assemble and write the YAML.
Build ==
    /\ wpc = "build"
    /\ wpc' \in {"compile", "fail"}
    /\ UNCHANGED <<stores, queue, calls, aging>>

\* sidecar.Compile returns: success, or an error that counts as a
\* cancellation exactly when the context is dead.
CompileReturns ==
    /\ wpc = "compile"
    /\ \/ wpc' = "read"
       \/ ctxErr /\ wpc' = "abort"
       \/ ~ctxErr /\ wpc' = "fail"
    /\ UNCHANGED <<stores, queue, calls, aging>>

ReadBinary ==
    /\ wpc = "read"
    /\ wpc' \in {"save", "fail"}
    /\ UNCHANGED <<stores, queue, calls, aging>>

\* Mutant: the error of the write is ignored.
SaveBinary_ErrorIgnored ==
    /\ wpc = "save"
    /\ wpc' = "register"
    /\ files' \in {files, files \cup {active}}
    /\ UNCHANGED <<status, devices, queue, calls, aging>>

\* A failed write may leave a file behind.
SaveBinary ==
    /\ wpc = "save"
    /\ \/ wpc' = "register" /\ files' = files \cup {active}
       \/ wpc' = "fail" /\ files' \in {files, files \cup {active}}
    /\ UNCHANGED <<status, devices, queue, calls, aging>>

\* INSERT of the device; on a re-compile the row exists and the error is ignored.
RegisterDevice ==
    /\ wpc = "register"
    /\ devices' = devices \cup {DeviceOf[active]}
    /\ wpc' = "commit"
    /\ UNCHANGED <<status, files, queue, calls, aging>>

\* The three ways runJob settles the row: UpdateJobDone, failJob, cancelled.
Settle(pc, s) ==
    /\ wpc = pc
    /\ SetStatus(active, s)
    /\ wpc' = "clear"
    /\ UNCHANGED <<files, devices, queue, calls, aging>>

Commit == Settle("commit", "done")

FailJob == Settle("fail", "failed")

AbortJob == Settle("abort", "cancelled")

\* Mutant: no inner loop, the worker waits for a token after every job.
ClearActive_ThenWait ==
    /\ wpc = "clear"
    /\ active' = NoJob
    /\ wpc' = "idle"
    /\ UNCHANGED <<stores, pending, ctxErr, notify, calls, aging>>

ClearActive ==
    /\ wpc = "clear"
    /\ active' = NoJob
    /\ wpc' = "pop"
    /\ UNCHANGED <<stores, pending, ctxErr, notify, calls, aging>>

Worker ==
    \/ WakeUp \/ PopNext \/ Drained \/ Begin \/ Build \/ CompileReturns
    \/ ReadBinary \/ SaveBinary \/ RegisterDevice
    \/ Commit \/ FailJob \/ AbortJob \/ ClearActive

-----------------------------------------------------------------------------
(* The sweep, the clock it reads, a user deleting a device, a hub restart. *)

\* DELETE of settled rows created before the cutoff; the same cutoff then
\* selects the files.
SweepRows ==
    /\ ~sweep
    /\ status' = [j \in Jobs |->
                     IF j \in rowOld /\ status[j] \in Terminal THEN "purged" ELSE status[j]]
    /\ sweep' = TRUE
    /\ doomed' = fileOld
    /\ UNCHANGED <<files, devices, queue, wpc, calls, rowOld, fileOld>>

\* Mutant: a fresh cutoff is taken for the files.
SweepFiles_NewCutoff ==
    /\ sweep
    /\ files' = files \ fileOld
    /\ fileOld' = {}
    /\ sweep' = FALSE
    /\ doomed' = {}
    /\ UNCHANGED <<status, devices, queue, wpc, calls, rowOld>>

SweepFiles ==
    /\ sweep
    /\ files' = files \ doomed
    /\ fileOld' = fileOld \ doomed
    /\ sweep' = FALSE
    /\ doomed' = {}
    /\ UNCHANGED <<status, devices, queue, wpc, calls, rowOld>>

RowAges(j) ==
    /\ status[j] # "none"
    /\ rowOld' = rowOld \cup {j}
    /\ UNCHANGED <<stores, queue, wpc, calls, fileOld, sweep, doomed>>

\* A file is younger than its row, and runJob does not sit for seven days
\* between saving the file and settling the row.
FileAges(j) ==
    /\ j \in files \cap rowOld /\ active # j
    /\ fileOld' = fileOld \cup {j}
    /\ UNCHANGED <<stores, queue, wpc, calls, rowOld, sweep, doomed>>

RemoveDevice(d) ==
    /\ devices' = devices \ {d}
    /\ UNCHANGED <<status, files, queue, wpc, calls, aging>>

\* Mutant: the start-up reset of stale rows is missing.
HubRestart_NoReset ==
    /\ pending' = <<>> /\ active' = NoJob /\ ctxErr' = FALSE /\ notify' = FALSE
    /\ wpc' = "idle"
    /\ enq' = [j \in Jobs |-> IF enq[j] = "new" THEN "new" ELSE "returned"]
    /\ cancelling' = {}
    /\ sweep' = FALSE /\ doomed' = {}
    /\ UNCHANGED <<stores, acked, rowOld, fileOld>>

\* The process dies anywhere and db.Open of the next one settles stale rows.
HubRestart ==
    /\ status' = [j \in Jobs |->
                     IF status[j] \in {"pending", "running"} THEN "failed" ELSE status[j]]
    /\ pending' = <<>> /\ active' = NoJob /\ ctxErr' = FALSE /\ notify' = FALSE
    /\ wpc' = "idle"
    /\ enq' = [j \in Jobs |-> IF enq[j] = "new" THEN "new" ELSE "returned"]
    /\ cancelling' = {}
    /\ sweep' = FALSE /\ doomed' = {}
    /\ UNCHANGED <<files, devices, acked, rowOld, fileOld>>

Next ==
    \/ Worker
    \/ \E j \in Jobs : CreateRow(j) \/ AppendJob(j) \/ Notify(j)
    \/ \E j \in Jobs : RemovePending(j) \/ MarkCancelled(j) \/ CancelActive(j)
    \/ \E j \in Jobs : RowAges(j) \/ FileAges(j)
    \/ \E d \in Devices : RemoveDevice(d)
    \/ Deadline \/ SweepRows \/ SweepFiles \/ HubRestart

Spec == Init /\ [][Next]_vars

\* The scheduler runs every goroutine that can run; the 15-minute context
\* bounds the compile.  Users, deadlines, restarts and the sweep owe nothing.
FairSpec ==
    /\ Spec
    /\ WF_vars(Worker)
    /\ \A j \in Jobs : /\ WF_vars(AppendJob(j) \/ Notify(j))
                       /\ WF_vars(MarkCancelled(j))

-----------------------------------------------------------------------------
(* Properties.                                                             *)

\* A queued job is never left to a sleeping worker: whenever q.pending is not
\* empty the token is in notify, or the worker is awake and will look again,
\* or an Enqueue call is still about to send the token.
NoLostWakeup ==
    pending # <<>> =>
        \/ notify
        \/ wpc # "idle"
        \/ \E j \in Jobs : enq[j] = "appended"

\* A row is unsettled only while some goroutine still holds the job: a
\* "pending" row is in q.pending, or inside Enqueue before the append, or
\* inside Cancel after the removal, or just popped; a "running" row is the
\* one the worker is executing.
UnsettledJobsAreHeld ==
    \A j \in Jobs :
        /\ status[j] = "pending" =>
              \/ \E i \in DOMAIN pending : pending[i] = j
              \/ enq[j] = "created"
              \/ j \in cancelling
              \/ active = j /\ wpc = "begin"
        /\ status[j] = "running" => active = j /\ wpc \in InRunJob \ {"begin"}

\* The queue holds each job once, and only jobs whose row says "pending" and
\* that neither the worker nor a Cancel call has taken: a job taken out by
\* Cancel is never started afterwards.
QueueHoldsPendingJobs ==
    /\ \A i \in DOMAIN pending :
          /\ status[pending[i]] = "pending"
          /\ enq[pending[i]] \in {"appended", "returned"}
          /\ pending[i] \notin cancelling
          /\ pending[i] # active
    /\ \A i, k \in DOMAIN pending : pending[i] = pending[k] => i = k
    /\ \A j \in cancelling : status[j] = "pending" /\ active # j

\* A job shown as done has its binary: the file is written before the row is
\* settled and the sweep deletes the row before it removes the file.
DoneHasBinary == \A j \in Jobs : status[j] = "done" => j \in files

\* The fleet lists an ESPHome device only after firmware for it was stored;
\* a failed, cancelled or interrupted build registers nothing by itself.
FleetHasBuiltDevicesOnly ==
    \A d \in devices : \E j \in Jobs : DeviceOf[j] = d /\ (j \in files \/ j \in rowOld)

\* What ties the worker, the Enqueue calls and the sweep to the rows; with the
\* invariants above it is inductive (CompileQueueProofs).
WorkerControl ==
    /\ active = NoJob <=> wpc \in {"idle", "pop"}
    /\ wpc = "begin" => status[active] = "pending"
    /\ wpc \in InRunJob \ {"begin"} => status[active] = "running"
    /\ wpc = "clear" => status[active] \in Terminal \cup {"purged"}
    /\ active # NoJob => enq[active] \in {"appended", "returned"}

EnqueueControl ==
    \A j \in Jobs :
        /\ enq[j] = "new" <=> status[j] = "none"
        /\ enq[j] = "created" => status[j] = "pending"
        /\ j \in cancelling => enq[j] \in {"appended", "returned"}

FileControl ==
    /\ \A j \in files : status[j] \in Terminal \cup {"running", "purged"}
    /\ wpc \in {"register", "commit"} => active \in files
    /\ \A j \in fileOld : j \in rowOld /\ status[j] \in Terminal \cup {"purged"}
    /\ doomed \subseteq fileOld
    /\ \A j \in doomed : status[j] = "purged"

IInv ==
    /\ TypeOK
    /\ NoLostWakeup
    /\ UnsettledJobsAreHeld
    /\ QueueHoldsPendingJobs
    /\ DoneHasBinary
    /\ FleetHasBuiltDevicesOnly
    /\ WorkerControl
    /\ EnqueueControl
    /\ FileControl

\* The row of each job goes through the promised life only, with one job
\* running at a time, whatever the interleaving of handlers, worker, sweep
\* and restarts.
ImplementsLifecycle == Lifecycle!Spec

\* Every job that got a row is eventually done, failed or cancelled.
EveryJobSettles ==
    \A j \in Jobs : status[j] \in {"pending", "running"} ~> status[j] \in Terminal \cup {"purged"}

\* Design doc, "Cancel running": once Cancel has returned success for a job,
\* that job ends cancelled, so it does not turn into a finished build later.
AckedCancelIsFinal ==
    [][\A j \in acked : status'[j] = "done" => status[j] = "done"]_vars
=============================================================================
