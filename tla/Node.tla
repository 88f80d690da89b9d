-------------------------------- MODULE Node ---------------------------------
(***************************************************************************)
(* internal/serve: the life of the node process.  Start opens the data,    *)
(* brings the network up, serves HTTP, starts the slow workers and the     *)
(* scheduler; Shutdown drains them in order and closes the database and    *)
(* the data lease only if everything drained before its deadline.  A slow  *)
(* worker (slow_work.go) has a wake-up channel of capacity one; the work   *)
(* itself is durable rows.                                                 *)
(***************************************************************************)
EXTENDS Naturals, FiniteSets

CONSTANTS
  Workers,        \* slow workers: webhooks, backups, outbound health
  MaxHandlers,    \* bound on HTTP handlers at a time
  MaxShutdowns    \* bound on calls of Shutdown

VARIABLES
  life,           \* where Start or Shutdown is
  listening,      \* the HTTP server accepts requests
  handlers,       \* handlers in progress
  sched,          \* the scheduler: not started, on, stopped
  jobOn,          \* the scheduler runs a job of its own
  wake,           \* a wake-up is in the channel
  worker,         \* each worker
  cancelled,      \* its context is cancelled
  rows,           \* durable rows for the worker exist
  taken,          \* ... and it has read them in this run
  errs,           \* this Shutdown has met its deadline or an error
  booted, dbOpen, lease,
  shutdowns

nvars == <<life, listening, handlers, sched, jobOn, wake, worker, cancelled, rows, taken, errs,
           booted, dbOpen, lease, shutdowns>>

NTypeOK ==
  /\ life \in {"off", "opened", "serving", "up", "http", "sched", "cancel", "drain", "close",
               "returned", "ended"}
  /\ listening \in BOOLEAN /\ handlers \in 0..MaxHandlers
  /\ sched \in {"new", "on", "stopped"} /\ jobOn \in BOOLEAN
  /\ wake \in [Workers -> BOOLEAN] /\ cancelled \in [Workers -> BOOLEAN]
  /\ worker \in [Workers -> {"none", "waiting", "running", "working", "done"}]
  /\ rows \in [Workers -> BOOLEAN] /\ taken \in [Workers -> BOOLEAN]
  /\ errs \in BOOLEAN /\ booted \in BOOLEAN /\ dbOpen \in BOOLEAN /\ lease \in BOOLEAN
  /\ shutdowns \in 0..MaxShutdowns

NInit ==
  /\ life = "off" /\ listening = FALSE /\ handlers = 0 /\ sched = "new" /\ jobOn = FALSE
  /\ wake = [w \in Workers |-> FALSE] /\ cancelled = wake /\ rows = wake /\ taken = wake
  /\ worker = [w \in Workers |-> "none"]
  /\ errs = FALSE /\ booted = FALSE /\ dbOpen = FALSE /\ lease = FALSE /\ shutdowns = 0

workVars == <<wake, worker, cancelled, rows, taken>>

-----------------------------------------------------------------------------
(* Start.                                                                   *)

OpenRuntime ==
  /\ life = "off" /\ life' = "opened" /\ dbOpen' = TRUE /\ lease' = TRUE
  /\ UNCHANGED <<listening, handlers, sched, jobOn, workVars, errs, booted, shutdowns>>

\* An error before the node serves: database and lease are closed.
StartFails ==
  /\ life = "opened" /\ life' = "ended" /\ dbOpen' = FALSE /\ lease' = FALSE
  /\ UNCHANGED <<listening, handlers, sched, jobOn, workVars, errs, booted, shutdowns>>

\* Network up and listening: requests are served before Start returns.
Serve ==
  /\ life = "opened" /\ life' = "serving" /\ listening' = TRUE
  /\ UNCHANGED <<handlers, sched, jobOn, workVars, errs, booted, dbOpen, lease, shutdowns>>

StartWorkers ==
  /\ life = "serving" /\ life' = "up" /\ sched' = "on" /\ booted' = TRUE
  /\ worker' = [w \in Workers |-> "waiting"]
  /\ UNCHANGED <<listening, handlers, jobOn, wake, cancelled, rows, taken, errs, dbOpen, lease, shutdowns>>

-----------------------------------------------------------------------------
(* Running.                                                                 *)

Request ==
  /\ listening /\ handlers < MaxHandlers /\ handlers' = handlers + 1
  /\ UNCHANGED <<life, listening, sched, jobOn, workVars, errs, booted, dbOpen, lease, shutdowns>>

\* A handler may leave a durable row for a worker.
HandlerEnds(w, leavesRow) ==
  /\ handlers > 0 /\ handlers' = handlers - 1
  /\ rows' = [rows EXCEPT ![w] = @ \/ leavesRow]
  /\ UNCHANGED <<life, listening, sched, jobOn, wake, worker, cancelled, taken, errs, booted, dbOpen, lease, shutdowns>>

JobBegins ==
  /\ sched = "on" /\ ~jobOn /\ jobOn' = TRUE
  /\ UNCHANGED <<life, listening, handlers, sched, workVars, errs, booted, dbOpen, lease, shutdowns>>

JobEnds ==
  /\ jobOn /\ jobOn' = FALSE
  /\ UNCHANGED <<life, listening, handlers, sched, workVars, errs, booted, dbOpen, lease, shutdowns>>

\* request: a full channel keeps the one wake-up it has.
WakeUp(w) ==
  /\ sched = "on" /\ ~jobOn /\ wake' = [wake EXCEPT ![w] = TRUE]
  /\ UNCHANGED <<life, listening, handlers, sched, jobOn, worker, cancelled, rows, taken, errs,
                 booted, dbOpen, lease, shutdowns>>

\* The worker receives the wake-up and starts a run, or ends if cancelled.
TakeWake(w) ==
  /\ worker[w] = "waiting" /\ (wake[w] \/ cancelled[w])
  /\ IF cancelled[w] THEN worker' = [worker EXCEPT ![w] = "done"] /\ UNCHANGED wake
     ELSE worker' = [worker EXCEPT ![w] = "running"] /\ wake' = [wake EXCEPT ![w] = FALSE]
  /\ UNCHANGED <<life, listening, handlers, sched, jobOn, cancelled, rows, taken, errs,
                 booted, dbOpen, lease, shutdowns>>

\* The pass queries the rows that are due now ...
QueryRows(w) ==
  /\ worker[w] = "running" /\ worker' = [worker EXCEPT ![w] = "working"]
  /\ IF cancelled[w] THEN UNCHANGED <<taken, rows>>
     ELSE taken' = [taken EXCEPT ![w] = rows[w]] /\ rows' = [rows EXCEPT ![w] = FALSE]
  /\ UNCHANGED <<life, listening, handlers, sched, jobOn, wake, cancelled, errs,
                 booted, dbOpen, lease, shutdowns>>

\* Variant: the worker leaves its loop when a run fails.
RunEndsExits(w, finished) ==
  /\ worker[w] = "working" /\ taken' = [taken EXCEPT ![w] = FALSE]
  /\ worker' = [worker EXCEPT ![w] = IF finished THEN "waiting" ELSE "done"]
  /\ rows' = [rows EXCEPT ![w] = @ \/ (taken[w] /\ ~finished)]
  /\ UNCHANGED <<life, listening, handlers, sched, jobOn, wake, cancelled, errs,
                 booted, dbOpen, lease, shutdowns>>

\* ... and works on them; cut short by its timeout or by Shutdown, the rows
\* stay due.
RunEnds(w, finished) ==
  /\ worker[w] = "working"
  /\ worker' = [worker EXCEPT ![w] = "waiting"] /\ taken' = [taken EXCEPT ![w] = FALSE]
  /\ rows' = [rows EXCEPT ![w] = @ \/ (taken[w] /\ ~finished)]
  /\ UNCHANGED <<life, listening, handlers, sched, jobOn, wake, cancelled, errs,
                 booted, dbOpen, lease, shutdowns>>

-----------------------------------------------------------------------------
(* Shutdown, which may be called again after it failed.                     *)

Shutdown ==
  /\ life \in {"up", "returned"} /\ shutdowns < MaxShutdowns /\ shutdowns' = shutdowns + 1
  /\ life' = "http" /\ booted' = FALSE /\ listening' = FALSE /\ errs' = FALSE
  /\ UNCHANGED <<handlers, sched, jobOn, workVars, dbOpen, lease>>

\* The HTTP servers wait for their handlers, until the deadline.
DrainHttp ==
  /\ life = "http" /\ life' = "sched"
  /\ errs' = (handlers > 0)
  /\ UNCHANGED <<listening, handlers, sched, jobOn, workVars, booted, dbOpen, lease, shutdowns>>

\* Stop waits for the job that is running.
StopScheduler ==
  /\ life = "sched" /\ ~jobOn /\ life' = "cancel" /\ sched' = "stopped"
  /\ UNCHANGED <<listening, handlers, jobOn, workVars, errs, booted, dbOpen, lease, shutdowns>>

CancelWorkers ==
  /\ life = "cancel" /\ life' = "drain" /\ cancelled' = [w \in Workers |-> TRUE]
  /\ UNCHANGED <<listening, handlers, sched, jobOn, wake, worker, rows, taken, errs, booted, dbOpen, lease, shutdowns>>

\* Variant: what did not drain is only logged.
DrainWorkersAnyway ==
  /\ life = "drain" /\ life' = "close"
  /\ UNCHANGED <<listening, handlers, sched, jobOn, workVars, errs, booted, dbOpen, lease, shutdowns>>

\* Each worker is awaited, until the deadline; on any error Shutdown returns
\* and keeps database and lease.
DrainWorkers ==
  /\ life = "drain"
  /\ life' = IF errs \/ \E w \in Workers : worker[w] # "done" THEN "returned" ELSE "close"
  /\ UNCHANGED <<listening, handlers, sched, jobOn, workVars, errs, booted, dbOpen, lease, shutdowns>>

\* Resolver, bridge, userspace and database are closed; the lease only if
\* none of them failed.
CloseAll(ok) ==
  /\ life = "close" /\ dbOpen' = FALSE /\ lease' = (lease /\ ~ok)
  /\ life' = IF ok THEN "ended" ELSE "returned"
  /\ UNCHANGED <<listening, handlers, sched, jobOn, workVars, errs, booted, shutdowns>>

NNext ==
  \/ OpenRuntime \/ StartFails \/ Serve \/ StartWorkers
  \/ Request \/ JobBegins \/ JobEnds
  \/ (\E w \in Workers : \/ (\E r \in BOOLEAN : HandlerEnds(w, r)) \/ WakeUp(w) \/ TakeWake(w)
                         \/ QueryRows(w) \/ (\E f \in BOOLEAN : RunEnds(w, f)))
  \/ Shutdown \/ DrainHttp \/ StopScheduler \/ CancelWorkers \/ DrainWorkers
  \/ (\E ok \in BOOLEAN : CloseAll(ok))

\* What a worker does on its own, and what Shutdown does next.
WorkerStep(w) == TakeWake(w) \/ QueryRows(w) \/ RunEnds(w, TRUE)
ShutdownStep == DrainHttp \/ StopScheduler \/ CancelWorkers \/ DrainWorkers \/ CloseAll(TRUE)

\* Handlers, jobs and runs end (they have timeouts), the scheduler wakes its
\* workers, and Shutdown goes on.
NFairness ==
  /\ WF_nvars(JobEnds) /\ WF_nvars(handlers > 0 /\ \E w \in Workers : HandlerEnds(w, FALSE))
  /\ \A w \in Workers : SF_nvars(WakeUp(w)) /\ WF_nvars(WorkerStep(w))
  /\ WF_nvars(ShutdownStep)

NSpec == NInit /\ [][NNext]_nvars /\ NFairness

\* The database is closed, and the lease given up, only when no handler, no
\* job and no worker can still use it, in whatever order Shutdown's deadline,
\* a retry and late runs meet.
ClosedWhenUnused ==
  /\ ~dbOpen => handlers = 0 /\ ~jobOn /\ \A w \in Workers : worker[w] \in {"none", "done"}
  /\ ~lease => ~dbOpen

\* Rows that become due at any moment of a run are taken by that run or by a
\* later one: a coalesced wake-up is never the lost one.
RowsTaken == \A w \in Workers : (rows[w] /\ life = "up") ~> (~rows[w] \/ life # "up")

=============================================================================
