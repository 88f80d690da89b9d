----------------------------- MODULE UpdateQueue -----------------------------
(***************************************************************************)
(* The maintenance queue between the panel (unprivileged) and the host     *)
(* helper (root): internal/updatequeue and the helper's main loop in       *)
(* cmd/wg-guard.  The two are separate processes that share nothing but    *)
(* the files of the data directory.  Each process holds its own mutex for  *)
(* a whole call, so calls of one process exclude each other and calls of   *)
(* the two interleave at every file operation: each step below is one      *)
(* lstat, read, rename, link or atomic replacement.  A crash leaves the    *)
(* files as they are; an operation that returns an I/O error halfway       *)
(* leaves the same files as a crash at that step, so it is the same step.  *)
(***************************************************************************)
EXTENDS Naturals, Sequences, FiniteSets

CONSTANTS
  None,         \* no file, no operation
  MaxIds,       \* bound on the operations the panel creates
  MaxCrashes    \* bound on crashes and failed status writes

VARIABLES
  files,      \* which operation each queue file describes
  status,     \* update-status.json: the operation and the state it shows
  history,    \* update-history.json: terminal state of archived operations
  due,        \* where the clock stands relative to each operation's window
  used,       \* number of operation identifiers drawn so far
  panel,      \* the call the panel is in
  broker,     \* the run the host helper is in
  runner,     \* holder of /run/lock/wg-guard-maintenance.lock
  crashes,    \* crashes and failed writes so far
  helperDied, \* some of them were the helper's
  returned,   \* what the panel answered for each operation
  runs        \* how often the work of each operation was started

vars == <<files, status, history, due, used, panel, broker, runner, crashes,
          helperDied, returned, runs>>

Ids == 1..MaxIds

ASSUME QueueAssumption == MaxIds \in Nat /\ MaxCrashes \in Nat /\ None \notin Ids

FileNames == {"request", "running", "schedule", "claimed"}
ScanOrder == <<"request", "running", "schedule", "claimed">>
CancelOrder == <<"schedule", "request">>
Terminal == {"succeeded", "failed", "canceled"}

Idle == [pc |-> "idle", op |-> "none", id |-> None, at |-> 1]
Resting == [pc |-> "idle", req |-> None, run |-> None, result |-> "none"]

TypeOK ==
  /\ files \in [FileNames -> Ids \cup {None}]
  /\ status \in [id : Ids \cup {None}, state : {"none", "queued", "running", "scheduled"} \cup Terminal]
  /\ history \subseteq [id : Ids, state : Terminal]
  /\ due \in [Ids -> {"now", "future", "due", "late"}]
  /\ used \in 0..MaxIds
  /\ panel.pc \in {"idle", "scan", "status", "link", "cread", "crename", "cstatus",
                   "carchive", "dead"}
  /\ broker.pc \in {"idle", "reconcile", "rstatus", "rarchive", "rremove",
                    "precover", "pdrop", "prestore", "pread", "pclaim", "pstatus",
                    "mstatus", "marchive", "plink", "punlink",
                    "claim", "cstatus", "grace", "record", "recordw", "running",
                    "outcome", "outcomew", "finish", "fstatus", "farchive",
                    "fremove"}
  /\ runner \in {"none", "update", "domain"}
  /\ crashes \in 0..MaxCrashes /\ helperDied \in BOOLEAN
  /\ returned \in [Ids -> {"none", "accepted", "canceled"}]
  /\ runs \in [Ids -> Nat]

Init ==
  /\ files = [f \in FileNames |-> None]
  /\ status = [id |-> None, state |-> "none"]
  /\ history = {}
  /\ due = [i \in Ids |-> "now"]
  /\ used = 0
  /\ panel = Idle /\ broker = Resting
  /\ runner = "none"
  /\ crashes = 0 /\ helperDied = FALSE
  /\ returned = [i \in Ids |-> "none"]
  /\ runs = [i \in Ids |-> 0]

Occupied(f) == files[f] # None
Show(i, st) == status' = [id |-> i, state |-> st]

\* archive: drop an older entry of the same operation and put the new one
\* first.  The read of the file and its replacement are one step here: of two
\* processes that overlap the second would drop the entry the first has just
\* written, so an entry below is one that was written, not one that stays.
Archived(i, st) == {h \in history : h.id # i} \cup {[id |-> i, state |-> st]}

(* ------------------------------ the panel ------------------------------ *)

\* EnqueueFor and ScheduleFor begin under the panel's mutex.
Begin(op) ==
  /\ panel.pc = "idle" /\ used < MaxIds
  /\ panel' = [Idle EXCEPT !.pc = "scan", !.op = op]
  /\ UNCHANGED <<files, status, history, due, used, broker, runner, crashes,
                 helperDied, returned, runs>>

\* clearExpiredActive looks at the four files one after the other.
ClearExpiredActive ==
  /\ panel.pc = "scan"
  /\ panel' = IF Occupied(ScanOrder[panel.at]) THEN Idle
              ELSE IF panel.at < Len(ScanOrder) THEN [panel EXCEPT !.at = @ + 1]
              ELSE [panel EXCEPT !.pc = "status"]
  /\ UNCHANGED <<files, status, history, due, used, broker, runner, crashes,
                 helperDied, returned, runs>>

\* A fresh identifier, and the status file replaced before the request shows.
PublishStatus ==
  /\ panel.pc = "status" /\ used < MaxIds
  /\ used' = used + 1
  /\ panel' = [panel EXCEPT !.pc = "link", !.id = used + 1]
  /\ Show(used + 1, IF panel.op = "enqueue" THEN "queued" ELSE "scheduled")
  /\ due' = [due EXCEPT ![used + 1] = IF panel.op = "enqueue" THEN "now" ELSE "future"]
  /\ UNCHANGED <<files, history, broker, runner, crashes, helperDied, returned, runs>>

Target == IF panel.op = "enqueue" THEN "request" ELSE "schedule"

\* link(2) publishes the request or the schedule unless one is there: ErrBusy.
PublishRequest ==
  /\ panel.pc = "link"
  /\ panel' = Idle
  /\ IF Occupied(Target)
       THEN UNCHANGED <<files, returned>>
       ELSE /\ files' = [files EXCEPT ![Target] = panel.id]
            /\ returned' = [returned EXCEPT ![panel.id] = "accepted"]
  /\ UNCHANGED <<status, history, due, used, broker, runner, crashes, helperDied, runs>>

EnqueueFor == Begin("enqueue")
ScheduleFor == Begin("schedule")

CancelBegin(i) ==
  /\ panel.pc = "idle" /\ i <= used
  /\ panel' = [Idle EXCEPT !.pc = "cread", !.op = "cancel", !.id = i]
  /\ UNCHANGED <<files, status, history, due, used, broker, runner, crashes,
                 helperDied, returned, runs>>

\* The schedule, then the request: the first file present decides.
CancelRead ==
  /\ panel.pc = "cread"
  /\ LET f == CancelOrder[panel.at]
     IN panel' = IF Occupied(f)
                   THEN IF files[f] = panel.id THEN [panel EXCEPT !.pc = "crename"] ELSE Idle
                   ELSE IF panel.at = 1 THEN [panel EXCEPT !.at = 2] ELSE Idle
  /\ UNCHANGED <<files, status, history, due, used, broker, runner, crashes,
                 helperDied, returned, runs>>

\* rename(2) to a private name decides against the helper.
CancelRename ==
  /\ panel.pc = "crename"
  /\ LET f == CancelOrder[panel.at]
     IN IF Occupied(f)
          THEN /\ files' = [files EXCEPT ![f] = None]
               /\ panel' = [panel EXCEPT !.pc = "cstatus"]
          ELSE panel' = Idle /\ UNCHANGED files
  /\ UNCHANGED <<status, history, due, used, broker, runner, crashes, helperDied,
                 returned, runs>>

CancelStatus ==
  /\ panel.pc = "cstatus"
  /\ Show(panel.id, "canceled")
  /\ panel' = [panel EXCEPT !.pc = "carchive"]
  /\ UNCHANGED <<files, history, due, used, broker, runner, crashes, helperDied,
                 returned, runs>>

\* archive in the panel's process.
CancelArchive ==
  /\ panel.pc = "carchive"
  /\ history' = Archived(panel.id, "canceled")
  /\ returned' = [returned EXCEPT ![panel.id] = "canceled"]
  /\ panel' = Idle
  /\ UNCHANGED <<files, status, due, used, broker, runner, crashes, helperDied, runs>>

CancelSteps == CancelRead \/ CancelRename \/ CancelStatus \/ CancelArchive
PanelSteps == ClearExpiredActive \/ PublishStatus \/ PublishRequest \/ CancelSteps

(* --------------------------- the host helper --------------------------- *)

Kept == <<due, used, panel, crashes, helperDied, returned>>

At(here, there) == broker.pc = here /\ broker' = [broker EXCEPT !.pc = there]
Leave(here) == broker.pc = here /\ broker' = Resting /\ runner' = "none"

\* The systemd path or timer unit starts the helper; the lock excludes others.
LockMaintenanceRunner ==
  /\ runner = "none" /\ broker.pc = "idle"
  /\ runner' = "update"
  /\ broker' = [Resting EXCEPT !.pc = "reconcile"]
  /\ UNCHANGED <<files, status, history, runs, Kept>>

\* Variant: an interrupted operation is queued again instead of closed.
ReconcileRequeues ==
  \/ /\ ~Occupied("running") /\ At("reconcile", "precover")
     /\ UNCHANGED <<files, status, history, runner, runs, Kept>>
  \/ /\ Occupied("running") /\ At("reconcile", "precover")
     /\ files' = [files EXCEPT !["running"] = None, !["request"] = files["running"]]
     /\ UNCHANGED <<status, history, runner, runs, Kept>>

\* ReconcileInterrupted: close the operation a dead helper left running.  A
\* status file that names another operation ends the whole run (ErrInvalid).
ReconcileInterrupted ==
  \/ /\ ~Occupied("running") /\ At("reconcile", "precover")
     /\ UNCHANGED <<files, status, history, runner, runs, Kept>>
  \/ /\ Occupied("running") /\ status.id # files["running"] /\ Leave("reconcile")
     /\ UNCHANGED <<files, status, history, runs, Kept>>
  \/ /\ Occupied("running") /\ status.id = files["running"]
     /\ broker.pc = "reconcile"
     /\ broker' = [broker EXCEPT !.pc = "rstatus", !.req = status.id,
                     !.result = IF status.state \in {"running", "queued"} THEN "failed"
                                ELSE status.state]
     /\ UNCHANGED <<files, status, history, runner, runs, Kept>>
  \/ /\ At("rstatus", "rarchive") /\ Show(broker.req, broker.result)
     /\ UNCHANGED <<files, history, runner, runs, Kept>>
  \/ /\ At("rremove", "precover")
     /\ files' = [files EXCEPT !["running"] = None]
     /\ UNCHANGED <<status, history, runner, runs, Kept>>

\* The three archives of the helper's process.
ArchiveAs(here, there, st) ==
  /\ At(here, there)
  /\ history' = Archived(broker.req, st)
  /\ UNCHANGED <<files, status, runner, runs, Kept>>

Archive ==
  \/ ArchiveAs("rarchive", "rremove", broker.result)
  \/ ArchiveAs("marchive", "punlink", "canceled")
  \/ ArchiveAs("farchive", "fremove", broker.result)

\* Variant: a half done promotion is left for the operator.
RecoverNothing ==
  /\ At("precover", IF Occupied("claimed") THEN "claim" ELSE "pread")
  /\ UNCHANGED <<files, status, history, runner, runs, Kept>>

\* PromoteDue, first part: the promotion a dead helper left half done.
RecoverPromotion ==
  \/ /\ ~Occupied("claimed") /\ At("precover", "pread")
     /\ UNCHANGED <<files, status, history, runner, runs, Kept>>
  \/ /\ Occupied("claimed") /\ (Occupied("request") \/ Occupied("running"))
     /\ At("precover", "pdrop")
     /\ UNCHANGED <<files, status, history, runner, runs, Kept>>
  \/ /\ Occupied("claimed") /\ ~Occupied("request") /\ ~Occupied("running")
     /\ At("precover", "prestore")
     /\ UNCHANGED <<files, status, history, runner, runs, Kept>>
  \/ /\ At("pdrop", "pread")
     /\ files' = [files EXCEPT !["claimed"] = None]
     /\ UNCHANGED <<status, history, runner, runs, Kept>>
  \/ /\ At("prestore", "pread")
     /\ files' = [files EXCEPT !["claimed"] = None, !["schedule"] = files["claimed"]]
     /\ UNCHANGED <<status, history, runner, runs, Kept>>

\* PromoteDue, second part: a due schedule becomes the request.  An early,
\* missing or blocked one (ErrBusy is ignored by the helper) leads to Claim.
ReadSchedule ==
  /\ broker.pc = "pread"
  /\ broker' = IF /\ Occupied("schedule") /\ due[files["schedule"]] # "future"
                   /\ ~Occupied("request") /\ ~Occupied("running")
                  THEN [broker EXCEPT !.pc = "pclaim", !.req = files["schedule"]]
                  ELSE [broker EXCEPT !.pc = "claim"]
  /\ UNCHANGED <<files, status, history, runner, runs, Kept>>

\* rename(2) decides against Cancel; more than 30 minutes late is a miss.
ClaimSchedule ==
  \/ /\ Occupied("schedule")
     /\ At("pclaim", IF due[broker.req] = "late" THEN "mstatus" ELSE "pstatus")
     /\ files' = [files EXCEPT !["schedule"] = None, !["claimed"] = files["schedule"]]
     /\ UNCHANGED <<status, history, runner, runs, Kept>>
  \/ /\ ~Occupied("schedule") /\ Leave("pclaim")
     /\ UNCHANGED <<files, status, history, runs, Kept>>

PromoteDue ==
  \/ /\ At("mstatus", "marchive") /\ Show(broker.req, "canceled")
     /\ UNCHANGED <<files, history, runner, runs, Kept>>
  \/ /\ At("pstatus", "plink") /\ Show(broker.req, "queued")
     /\ UNCHANGED <<files, history, runner, runs, Kept>>
  \/ /\ ~Occupied("request") /\ At("plink", "punlink")
     /\ files' = [files EXCEPT !["request"] = broker.req]
     /\ UNCHANGED <<status, history, runner, runs, Kept>>
  \/ /\ Occupied("request") /\ At("plink", "claim")
     /\ files' = [files EXCEPT !["claimed"] = None, !["schedule"] = files["claimed"]]
     /\ UNCHANGED <<status, history, runner, runs, Kept>>
  \/ /\ At("punlink", "claim")
     /\ files' = [files EXCEPT !["claimed"] = None]
     /\ UNCHANGED <<status, history, runner, runs, Kept>>

\* Claim: request becomes running, then the status says so.
Claim ==
  \/ /\ broker.pc = "claim" /\ Occupied("request") /\ ~Occupied("running")
     /\ files' = [files EXCEPT !["request"] = None, !["running"] = files["request"]]
     /\ broker' = [broker EXCEPT !.pc = "cstatus", !.req = files["request"]]
     /\ UNCHANGED <<status, history, runner, runs, Kept>>
  \/ /\ ~Occupied("request") \/ Occupied("running")
     /\ Leave("claim")
     /\ UNCHANGED <<files, status, history, runs, Kept>>
  \/ /\ At("cstatus", "grace") /\ Show(broker.req, "running")
     /\ UNCHANGED <<files, history, runner, runs, Kept>>

\* After the grace period the helper reads the STATUS file for the work to do
\* (the claimed request is not used again); a canceled context skips the work.
Execute ==
  \/ /\ broker.pc = "grace"
     /\ broker' = [broker EXCEPT !.pc = "record", !.run = status.id]
     /\ UNCHANGED <<files, status, history, runner, runs, Kept>>
  \/ /\ broker.pc = "grace"
     /\ broker' = [broker EXCEPT !.pc = "finish", !.result = "failed"]
     /\ UNCHANGED <<files, status, history, runner, runs, Kept>>

\* Record reads the status, refuses another operation's or one that is not
\* running, and replaces it.  A refused first record stops the work (task).
Record ==
  \/ /\ broker.pc \in {"record", "outcome"}
     /\ broker' = IF status.id = broker.run /\ status.state = "running"
                     THEN [broker EXCEPT !.pc = IF @ = "record" THEN "recordw" ELSE "outcomew"]
                     ELSE [broker EXCEPT !.pc = "finish", !.result = "failed"]
     /\ UNCHANGED <<files, status, history, runner, runs, Kept>>
  \/ /\ At("recordw", "running") /\ Show(broker.run, "running")
     /\ runs' = [runs EXCEPT ![broker.run] = @ + 1]
     /\ UNCHANGED <<files, history, runner, Kept>>
  \/ /\ At("outcomew", "finish") /\ Show(broker.run, "running")
     /\ UNCHANGED <<files, history, runner, runs, Kept>>

\* The work itself (install.Update, SwitchCore, ...) ends either way.
ExecuteMaintenance ==
  /\ broker.pc = "running"
  /\ \E r \in {"succeeded", "failed"} :
       broker' = [broker EXCEPT !.pc = "outcome", !.result = r]
  /\ UNCHANGED <<files, status, history, runner, runs, Kept>>

\* Finish: only while both files still name the operation.
Finish ==
  \/ /\ files["running"] = broker.req /\ status.id = broker.req /\ At("finish", "fstatus")
     /\ UNCHANGED <<files, status, history, runner, runs, Kept>>
  \/ /\ files["running"] # broker.req \/ status.id # broker.req
     /\ Leave("finish")
     /\ UNCHANGED <<files, status, history, runs, Kept>>
  \/ /\ At("fstatus", "farchive") /\ Show(broker.req, broker.result)
     /\ UNCHANGED <<files, history, runner, runs, Kept>>
  \/ /\ Leave("fremove")
     /\ files' = [files EXCEPT !["running"] = None]
     /\ UNCHANGED <<status, history, runs, Kept>>

BrokerSteps ==
  \/ ReconcileInterrupted \/ Archive \/ RecoverPromotion \/ ReadSchedule
  \/ ClaimSchedule \/ PromoteDue \/ Claim \/ Execute \/ Record
  \/ ExecuteMaintenance \/ Finish

(* --------------------------- the environment --------------------------- *)

\* Time passes: an operation's window opens and closes.
Tick(i) ==
  /\ due[i] \in {"future", "due"} /\ i <= used
  /\ due' = [due EXCEPT ![i] = IF @ = "future" THEN "due" ELSE "late"]
  /\ UNCHANGED <<files, status, history, used, panel, broker, runner, crashes,
                 helperDied, returned, runs>>

\* The panel dies in a call, and is started again.
PanelCrash ==
  /\ crashes < MaxCrashes /\ panel.pc \notin {"idle", "dead"}
  /\ crashes' = crashes + 1
  /\ panel' = [panel EXCEPT !.pc = "dead",
                 !.op = IF panel.pc \in {"cstatus", "carchive"} THEN "taken" ELSE "none"]
  /\ UNCHANGED <<files, status, history, due, used, broker, runner, helperDied,
                 returned, runs>>

PanelRestart ==
  /\ panel.pc = "dead"
  /\ panel' = Idle
  /\ UNCHANGED <<files, status, history, due, used, broker, runner, crashes, helperDied,
                 returned, runs>>

\* The helper of the domain queue takes the same lock for a run of its own.
OtherHelper ==
  /\ runner # "update"
  /\ runner' = IF runner = "none" THEN "domain" ELSE "none"
  /\ UNCHANGED <<files, status, history, due, used, panel, broker, crashes,
                 helperDied, returned, runs>>

\* flock(2) is released with the process.
HelperCrash ==
  /\ crashes < MaxCrashes /\ broker.pc # "idle"
  /\ crashes' = crashes + 1 /\ helperDied' = TRUE
  /\ broker' = Resting /\ runner' = "none"
  /\ UNCHANGED <<files, status, history, due, used, panel, returned, runs>>

\* Claim whose status cannot be written puts the request back and returns.
ClaimFails ==
  /\ crashes < MaxCrashes /\ crashes' = crashes + 1
  /\ Leave("cstatus")
  /\ files' = [files EXCEPT !["running"] = None, !["request"] = files["running"]]
  /\ UNCHANGED <<status, history, due, used, panel, helperDied, returned, runs>>

Next ==
  \/ EnqueueFor \/ ScheduleFor \/ (\E i \in Ids : CancelBegin(i)) \/ PanelSteps
  \/ LockMaintenanceRunner \/ BrokerSteps
  \/ (\E i \in Ids : Tick(i)) \/ PanelCrash \/ PanelRestart \/ HelperCrash \/ ClaimFails
  \/ OtherHelper

\* A call of the panel runs to its end; systemd starts the helper again and
\* again, a run of either helper ends (44 and 18 minutes); a window opens and
\* closes.  A helper that finds the lock held ends with an error: that one of
\* the next finds it free is assumed (strong fairness), as nothing in the code
\* orders the two helpers.
Fairness ==
  /\ WF_vars(PanelSteps)
  /\ SF_vars(LockMaintenanceRunner) /\ WF_vars(BrokerSteps)
  /\ WF_vars(runner = "domain" /\ OtherHelper)
  /\ WF_vars(\E i \in Ids : Tick(i))

Spec == Init /\ [][Next]_vars /\ Fairness

(* ----------------------------- properties ------------------------------ *)

\* i has a file in the queue.  The claimed copy is about to be removed once the
\* helper published the request or found one: it is no promise any more.
Pending(i) ==
  \E f \in FileNames : files[f] = i /\ (f = "claimed" => broker.pc \notin {"punlink", "pdrop"})

\* The running file and the status name different operations: Finish and
\* ReconcileInterrupted both answer ErrInvalid and the file stays.
Wedged == broker.pc = "idle" /\ Occupied("running") /\ status.id # files["running"]

Recorded(i) == \E h \in history : h.id = i

\* The ways in which i leaves the queue without a record.  PromoteDue and
\* Cancel read a file and then rename what has that name by then
\* (records.go:242-262, 296-311): the one they read is published, missed or
\* canceled, and the one they took is dropped with its file.  A panel that dies
\* inside Cancel leaves the file it took under a name nobody looks at.  A request
\* that arrives while the helper is between the two writes of Claim is replaced
\* when the second fails and Claim renames its own request back.
Overtaken(i) ==
  \/ /\ files["claimed"] = i
     /\ \/ broker.pc \in {"pstatus", "plink", "mstatus", "marchive", "punlink"} /\ broker.req # i
        \/ files["request"] \notin {i, None}
  \/ panel.pc = "crename" /\ files[CancelOrder[panel.at]] = i /\ panel.id # i
  \/ panel.pc = "dead" /\ panel.op = "taken" /\ panel.id = i
  \/ broker.pc = "cstatus" /\ files["request"] = i

\* The work of an operation is started at most once, whatever crashes: an
\* interrupted one is closed by ReconcileInterrupted and never retried, and a
\* promotion repeated after a crash publishes the request once.
AtMostOnce == \A i \in Ids : runs[i] <= 1

\* The work under way is the claimed operation's, although the helper takes it
\* from the status file, which the panel may have replaced since the claim:
\* Record's check of identifier and state is what stops the other one.
RunsTheClaimed ==
  broker.pc = "running" => broker.run = broker.req /\ files["running"] = broker.req

\* An operation whose Cancel answered success starts later only if the helper
\* died at some time, or if a newer operation was drawn since.  The two known
\* ways are a helper that died in a promotion, and a newer operation that took
\* the schedule's file name between the helper's read and its rename; the
\* formula does not tell others of the same kind apart.
CancelHolds ==
  \A i \in Ids : returned[i] = "canceled" /\ runs[i] > 0 => helperDied \/ i < used

\* The three together: the work of an operation is started once and no more,
\* it is the claimed operation's, and a canceled one starts only after the
\* events CancelHolds names (updatequeue Claim, Record, Cancel).
WorkIsSound == AtMostOnce /\ RunsTheClaimed /\ CancelHolds

\* Every accepted operation gets a record of its end in the history (finished,
\* interrupted, missed or canceled), unless it is lost in one of the ways of
\* Overtaken, or the status file was replaced under a running one and the queue
\* stays blocked (updatequeue archive, PromoteDue, Cancel, ReconcileInterrupted).
Settles ==
  \A i \in Ids :
    (returned[i] = "accepted" /\ Pending(i)) ~> (Recorded(i) \/ Overtaken(i) \/ Wedged)

=============================================================================
