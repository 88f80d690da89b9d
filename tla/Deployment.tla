----------------------------- MODULE Deployment -----------------------------
(* The installer's lifecycle operations: internal/install (run.go,          *)
(* update.go, restart.go, restore.go, exposure_reconfigure.go, domains.go,  *)
(* uninstall.go, journal.go).  An interrupted install is taken over by an   *)
(* uninstall; the two other commands for it (CleanupIncompleteInstall and   *)
(* the install branch of recoverTransaction) are left out.                  *)
(*                                                                          *)
(* Each operation holds the lifecycle lock and writes its stage to one      *)
(* journal before the step it announces; a process that dies leaves the     *)
(* journal, the state file and the files as they are, and the recovery      *)
(* commands work from those alone.  Any step may fail and the process may   *)
(* die between any two of them.                                             *)
(*                                                                          *)
(* An artifact is a private copy of a build: its directory, its version,    *)
(* the data contract recorded for it (0 when it could not be read) and the  *)
(* access revision its frozen Compose was rendered for.  A version has a    *)
(* data contract (1, or 2 from version FirstNew on); a build started on     *)
(* older data migrates it.  The panel's access files are the policy         *)
(* (certificates, nginx, domain policy), the boot configuration and the     *)
(* mounts and probe in Compose, each with the revision it was written for.  *)
EXTENDS Integers, FiniteSets

CONSTANTS
  Versions,   \* builds, numbered
  FirstNew,   \* the first version with the newer data contract
  Absent,     \* no file, no artifact, no service, no record
  MaxArtifacts, \* bound: artifact directories created
  MaxOps,     \* bound: operations begun, recoveries not counted
  MaxFaults   \* bound: failed steps and deaths of the process

ASSUME VersionsAssumption ==
  Versions \subseteq Int /\ 1 \in Versions /\ FirstNew \in Int /\ Absent \notin Versions

\* No policy files: a failed certificate took them along.
Removed == -1
AccessFiles == [policy : Nat \cup {Removed}, boot : Nat, unit : Nat]
ASSUME AbsentAssumption == Absent \notin AccessFiles

Contract(v) == IF v >= FirstNew THEN 2 ELSE 1
\* dataCompatible: both contracts are known, and the same.
Compatible(a, b) == a[3] # 0 /\ a[3] = b[3]

VARIABLES
  journal,   \* the journal file
  state,     \* the install state file
  artifacts, \* artifact directories that are whole
  bin,       \* the version at BinPath
  compose,   \* the version the Compose file names
  access,    \* the access files: policy, boot, unit (what Compose mounts and probes)
  snapshot,  \* the access files in the rollback snapshot of the journal's ID, or Absent
  archive,   \* the data contract of the pre-update backup, or Absent
  data,      \* the data contract of the data
  service,   \* the version that runs, or Absent
  run,       \* the process that holds the lifecycle lock: step, its journal
  ids, ops, faults,
  older      \* ghost: a build was deployed over data or a build of a newer contract

disk == <<journal, state, artifacts, bin, compose, access, snapshot, archive, data>>
ivars == <<disk, service, run, ids, ops, faults, older>>

NoJournal == [op |-> "none", stage |-> "complete", before |-> Absent, after |-> Absent,
              prev |-> Absent, cand |-> Absent, changed |-> FALSE, need |-> FALSE]
NoProcess == [at |-> "idle", j |-> NoJournal]
Closed(j) == j.stage \in {"complete", "rolled-back", "aborted"}

Installed(a) == [cur |-> a, prev |-> Absent, access |-> 0, recovery |-> "none"]

\* Nothing is installed yet, or an installation was updated and had its access
\* changed since: the artifacts are older than the access files.
IInit ==
  /\ journal = NoJournal /\ snapshot = Absent /\ archive = Absent /\ data = 1
  /\ run = NoProcess /\ ids = 2 /\ ops = 0 /\ faults = 0 /\ older = FALSE
  /\ \/ /\ state = Absent /\ artifacts = {} /\ bin = Absent /\ compose = Absent /\ service = Absent
        /\ access = [policy |-> 0, boot |-> 0, unit |-> 0]
     \/ /\ state = [cur |-> <<2, 1, Contract(1), 0>>, prev |-> <<1, 1, Contract(1), 0>>, access |-> 1,
                    recovery |-> "none"]
        /\ artifacts = {state.cur, state.prev} /\ bin = 1 /\ compose = 1 /\ service = 1
        /\ access = [policy |-> 1, boot |-> 1, unit |-> 1]

-----------------------------------------------------------------------------
(* Steps, each of which may fail and go elsewhere                          *)

Doing(step) == run.at = step
Go(step) == run' = IF step = "idle" THEN NoProcess ELSE [run EXCEPT !.at = step]
Fault == faults < MaxFaults /\ faults' = faults + 1
Fails(bad) == Fault /\ Go(bad) /\ UNCHANGED <<disk, service, ids, ops, older>>
Same == UNCHANGED <<ids, ops, older>>

\* Journal.save: the stage is kept in memory only when it was written.
Save(from, stage, ok, bad) ==
  /\ Doing(from)
  /\ \/ /\ journal' = [run.j EXCEPT !.stage = stage]
        /\ run' = IF ok = "idle" THEN NoProcess
                    ELSE [at |-> ok, j |-> [run.j EXCEPT !.stage = stage]]
        /\ UNCHANGED <<state, artifacts, bin, compose, access, snapshot, archive, data, service, faults>>
        /\ Same
     \/ Fails(bad)

SaveState(from, st, ok, bad) ==
  /\ Doing(from)
  /\ \/ /\ state' = st /\ Go(ok)
        /\ UNCHANGED <<journal, artifacts, bin, compose, access, snapshot, archive, data, service, faults>>
        /\ Same
     \/ Fails(bad)

\* stopService, and waiting for the health of what was started.
Stop(from, ok, bad) ==
  /\ Doing(from)
  /\ \/ service' = Absent /\ Go(ok) /\ UNCHANGED <<disk, faults>> /\ Same
     \/ Fails(bad)
Health(from, ok, bad) ==
  /\ Doing(from)
  /\ \/ Go(ok) /\ UNCHANGED <<disk, service, faults>> /\ Same
     \/ Fails(bad)

\* startService runs what Compose names; it may have migrated the data even
\* when it is reported as failed.
Start(from, ok, bad) ==
  /\ Doing(from)
  /\ \/ /\ service' = compose
        /\ data' = IF Contract(compose) > data THEN Contract(compose) ELSE data
        /\ \/ Go(ok) /\ UNCHANGED faults
           \/ Fault /\ Go(bad)
        /\ UNCHANGED <<journal, state, artifacts, bin, compose, access, snapshot, archive>>
        /\ Same
     \/ Fails(bad)

\* deployArtifact: the binary, then Compose, from a whole artifact.  Compose
\* comes with the access it was frozen for.
DeployBinary(from, a, ok, bad) ==
  /\ Doing(from)
  /\ \/ /\ a \in artifacts /\ bin' = a[2] /\ Go(ok)
        /\ UNCHANGED <<journal, state, artifacts, compose, access, snapshot, archive, data, service, faults>>
        /\ Same
     \/ Fails(bad)
     \/ a \notin artifacts /\ Go(bad) /\ UNCHANGED <<disk, service, faults>> /\ Same
DeployCompose(from, a, ok, bad) ==
  /\ Doing(from)
  /\ \/ /\ compose' = a[2] /\ access' = [access EXCEPT !.unit = a[4]] /\ Go(ok)
        /\ UNCHANGED <<journal, state, artifacts, bin, snapshot, archive, data, service, faults>>
        /\ Same
     \/ Fails(bad)

\* Access files are written in turn: the policy, then boot and Compose.
WriteAccess(from, files, ok, bad) ==
  /\ Doing(from)
  /\ \/ /\ access' = files /\ Go(ok)
        /\ UNCHANGED <<journal, state, artifacts, bin, compose, snapshot, archive, data, service, faults>>
        /\ Same
     \/ Fails(bad)

WithPolicy(rev) == [access EXCEPT !.policy = rev]
WithBoot(rev) == [access EXCEPT !.boot = rev, !.unit = rev]

\* The command takes the lock; an operation of its own is counted.
Enter(step, j) ==
  /\ Doing("idle")
  /\ run' = [at |-> step, j |-> j]
BeginOp(step, j) == ops < MaxOps /\ ops' = ops + 1 /\ Enter(step, j)

-----------------------------------------------------------------------------
(* Update and rollback                                                     *)

\* Everything before the journal is written: the running build is retained with
\* its Compose, and with its contract if it can be read, the candidate staged
\* with a Compose for the access the state names, the data backed up (a backup
\* may be skipped when the data contracts agree).  A known downgrade of the
\* data is refused: one that is not known goes through.
BeginUpdate(v, known) ==
  LET prev == <<ids + 1, bin, IF known THEN Contract(bin) ELSE 0, access.unit>>
      cand == <<ids + 2, v, Contract(v), state.access>>
      next == [state EXCEPT !.cur = cand, !.prev = prev, !.recovery = "none"]
  IN /\ Closed(journal) /\ state # Absent /\ service # Absent
     /\ prev[3] <= cand[3] /\ ids + 2 <= MaxArtifacts
     /\ BeginOp("u-prepared", [op |-> "update", stage |-> "new", before |-> state, after |-> next,
                               prev |-> prev, cand |-> cand, changed |-> FALSE, need |-> FALSE])
     /\ artifacts' = artifacts \cup {prev, cand}
     /\ archive' = IF Compatible(prev, cand) THEN archive ELSE data
     /\ older' = (older \/ Contract(v) < Contract(bin) \/ Contract(v) < data)
     /\ ids' = ids + 2
     /\ UNCHANGED <<journal, state, bin, compose, access, snapshot, data, service, faults>>

BeginRollback ==
  LET prev == <<ids + 1, bin, Contract(bin), access.unit>>
      next == [state EXCEPT !.cur = state.prev, !.prev = prev, !.recovery = "none"]
  IN /\ Closed(journal) /\ state # Absent /\ state.prev # Absent
     /\ Compatible(prev, state.prev) /\ ids + 1 <= MaxArtifacts
     /\ BeginOp("u-prepared", [op |-> "rollback", stage |-> "new", before |-> state, after |-> next,
                               prev |-> prev, cand |-> state.prev, changed |-> FALSE, need |-> FALSE])
     /\ artifacts' = artifacts \cup {prev}
     /\ ids' = ids + 1
     /\ UNCHANGED <<journal, state, bin, compose, access, snapshot, archive, data, service, faults, older>>

\* A journal that was never written: the artifacts made for it go.
DiscardArtifacts ==
  /\ Doing("u-discard")
  /\ artifacts' = artifacts \ ({run.j.prev} \cup IF run.j.op = "update" THEN {run.j.cand} ELSE {})
  /\ Go("idle")
  /\ UNCHANGED <<journal, state, bin, compose, access, snapshot, archive, data, service, faults>>
  /\ Same

\* From here on the old build may not write the data: the journal says so
\* before anything is stopped.
MarkChanged ==
  /\ Doing("u-mark")
  /\ run' = [at |-> "u-swap", j |-> [run.j EXCEPT !.changed = TRUE]]
  /\ UNCHANGED <<disk, service, ids, ops, faults, older>>

\* The artifacts of the state before, unless the new state names them.
Prune ==
  /\ Doing("u-prune")
  /\ artifacts' = artifacts \ ({run.j.before.cur, run.j.before.prev} \ {run.j.prev, run.j.cand})
  /\ Go("idle")
  /\ UNCHANGED <<journal, state, bin, compose, access, snapshot, archive, data, service, faults>>
  /\ Same

\* Variant: old artifacts go before the new state is saved.
UpdatePrunesEarly ==
  \/ Save("u-prepared", "prepared", "u-mark", "u-discard") \/ DiscardArtifacts
  \/ Save("u-mark", "aborted", "idle", "idle") \/ MarkChanged
  \/ Save("u-swap", "swap-pending", "u-stop", "idle")
  \/ Stop("u-stop", "u-bin", "r-begin")
  \/ DeployBinary("u-bin", run.j.cand, "u-compose", "r-begin")
  \/ DeployCompose("u-compose", run.j.cand, "u-started", "r-begin")
  \/ Save("u-started", "started", "u-start", "r-begin")
  \/ Start("u-start", "u-health", "r-begin")
  \/ Health("u-health", "u-early", "r-begin")
  \/ /\ Doing("u-early")
     /\ artifacts' = artifacts \ ({run.j.before.cur, run.j.before.prev} \ {run.j.prev, run.j.cand})
     /\ Go("u-state")
     /\ UNCHANGED <<journal, state, bin, compose, access, snapshot, archive, data, service, faults>>
     /\ Same
  \/ SaveState("u-state", run.j.after, "u-brokers", "r-begin")
  \/ Health("u-brokers", "u-complete", "r-begin")
  \/ Save("u-complete", "complete", "u-prune", "r-begin") \/ Prune

\* The update proper: each failure leads to recoverTransaction.
Update ==
  \/ Save("u-prepared", "prepared", "u-mark", "u-discard") \/ DiscardArtifacts
  \/ Save("u-mark", "aborted", "idle", "idle") \/ MarkChanged
  \/ Save("u-swap", "swap-pending", "u-stop", "idle")
  \/ Stop("u-stop", "u-bin", "r-begin")
  \/ DeployBinary("u-bin", run.j.cand, "u-compose", "r-begin")
  \/ DeployCompose("u-compose", run.j.cand, "u-started", "r-begin")
  \/ Save("u-started", "started", "u-start", "r-begin")
  \/ Start("u-start", "u-health", "r-begin")
  \/ Health("u-health", "u-state", "r-begin")
  \/ SaveState("u-state", run.j.after, "u-brokers", "r-begin")
  \/ Health("u-brokers", "u-complete", "r-begin")
  \/ Save("u-complete", "complete", "u-prune", "r-begin") \/ Prune

\* Variant: a transaction that stopped the service is taken for a prepared one.
RecoverBeginsAborts ==
  /\ Doing("r-begin")
  /\ Go(IF run.j.stage \in {"prepared", "swap-pending"} THEN "r-abort" ELSE "r-stop")
  /\ UNCHANGED <<disk, service, faults>> /\ Same

\* recoverTransaction: a prepared transaction changed nothing; data that an
\* incompatible build may have migrated needs its backup; otherwise the
\* predecessor is deployed and started again.
RecoverBegins ==
  /\ Doing("r-begin")
  /\ Go(IF run.j.stage = "prepared" THEN "r-abort" ELSE "r-stop")
  /\ UNCHANGED <<disk, service, faults>> /\ Same

NeedsRestore == run.j.changed /\ ~Compatible(run.j.prev, run.j.cand)

RecoverDecides ==
  /\ Doing("r-data")
  /\ IF NeedsRestore
       THEN run' = [at |-> "r-needs", j |-> [run.j EXCEPT !.need = TRUE]]
       ELSE Go("r-bin")
  /\ UNCHANGED <<disk, service, faults>> /\ Same

RecoverTransaction ==
  \/ RecoverBegins \/ RecoverDecides
  \/ Save("r-abort", "aborted", "idle", "idle")
  \/ Stop("r-stop", "r-data", "r-fail-after")
  \/ SaveState("r-needs", [run.j.before EXCEPT !.recovery = "restore-required"], "r-restore", "r-fail-after")
  \/ Save("r-restore", "restore-required", "idle", "idle")
  \/ DeployBinary("r-bin", run.j.prev, "r-compose", "r-fail-after")
  \/ DeployCompose("r-compose", run.j.prev, "r-start", "r-fail-after")
  \/ Start("r-start", "r-health", "r-fail-before")
  \/ Health("r-health", "r-state", "r-fail-before")
  \/ SaveState("r-state", run.j.before, "r-brokers", "r-fail-before")
  \/ Health("r-brokers", "r-done", "r-fail-before")
  \/ Save("r-done", "rolled-back", "idle", "r-fail-before")
  \/ SaveState("r-fail-after", [run.j.after EXCEPT !.recovery = "recovery-required"], "r-fail", "r-fail")
  \/ SaveState("r-fail-before", [run.j.before EXCEPT !.recovery = "recovery-required"], "r-fail", "r-fail")
  \/ Save("r-fail", "recovery-required", "idle", "idle")

\* update --recover, by itself or as the answer to --rollback.
BeginRecover ==
  /\ ~Closed(journal) /\ journal.op \in {"update", "rollback"}
  /\ Enter("r-begin", journal)
  /\ UNCHANGED <<disk, service, ids, ops, faults, older>>

-----------------------------------------------------------------------------
(* restore --recover: the backup of the update, then its predecessor       *)

BeginRestore ==
  /\ ~Closed(journal) /\ journal.need /\ archive # Absent /\ journal.prev \in artifacts
  /\ Enter("q-stop", journal)
  /\ UNCHANGED <<disk, service, ids, ops, faults, older>>

ApplyBackup ==
  /\ Doing("q-apply")
  /\ \/ /\ data' = archive
        /\ run' = [at |-> "q-bin", j |-> [run.j EXCEPT !.changed = TRUE]]
        /\ UNCHANGED <<journal, state, artifacts, bin, compose, access, snapshot, archive, service, faults>>
        /\ Same
     \/ Fails("q-fail")

RestoreRecover ==
  \/ Stop("q-stop", "q-swap", "q-fail")
  \/ Save("q-swap", "swap-pending", "q-apply", "q-fail")
  \/ ApplyBackup
  \/ DeployBinary("q-bin", run.j.prev, "q-compose", "q-fail")
  \/ DeployCompose("q-compose", run.j.prev, "q-started", "q-fail")
  \/ Save("q-started", "started", "q-start", "q-fail")
  \/ Start("q-start", "q-health", "q-halt")
  \/ Health("q-health", "q-state", "q-halt")
  \/ SaveState("q-state", [run.j.before EXCEPT !.recovery = "none"], "q-done", "q-halt")
  \/ Save("q-done", "rolled-back", "idle", "q-halt")
  \/ Stop("q-halt", "q-fail", "q-fail")
  \/ Save("q-fail", "recovery-required", "idle", "idle")

-----------------------------------------------------------------------------
(* Restart                                                                 *)

BeginRestart ==
  /\ state # Absent
  /\ \/ /\ Closed(journal) /\ service # Absent
        /\ BeginOp("t-prepared", [NoJournal EXCEPT !.op = "restart", !.stage = "new",
                                                   !.before = state, !.after = state])
     \/ /\ ~Closed(journal) /\ journal.op = "restart"
        /\ Enter("t-prepared", [NoJournal EXCEPT !.op = "restart", !.stage = "new",
                                                 !.before = state, !.after = state])
        /\ UNCHANGED ops
  /\ UNCHANGED <<disk, service, ids, faults, older>>

Restart ==
  \/ Save("t-prepared", "prepared", "t-stop", "idle")
  \/ Stop("t-stop", "t-started", "t-fail")
  \/ Save("t-started", "started", "t-start", "t-fail")
  \/ Start("t-start", "t-health", "t-fail")
  \/ Health("t-health", "t-done", "t-fail")
  \/ Save("t-done", "complete", "idle", "t-fail")
  \/ Save("t-fail", "recovery-required", "idle", "idle")

-----------------------------------------------------------------------------
(* Panel access and domains: ReconfigureExposure, ConfigureDomain          *)

BeginAccess(op) ==
  LET next == [state EXCEPT !.access = @ + 1, !.recovery = "none"]
  IN /\ Closed(journal) /\ state # Absent /\ service # Absent
     /\ BeginOp("e-prepared", [NoJournal EXCEPT !.op = op, !.stage = "new",
                                                !.before = state, !.after = next])
     /\ UNCHANGED <<disk, service, ids, faults, older>>

\* The journal of an access change has an ID of its own: a snapshot that an
\* earlier one left behind is not found again.
SavePrepared ==
  /\ Doing("e-prepared")
  /\ \/ /\ journal' = [run.j EXCEPT !.stage = "prepared"] /\ snapshot' = Absent
        /\ run' = [at |-> "e-snapshot", j |-> [run.j EXCEPT !.stage = "prepared"]]
        /\ UNCHANGED <<state, artifacts, bin, compose, access, archive, data, service, faults>>
        /\ Same
     \/ Fails("idle")

\* createExposureBackup: the manifest is written last; a failure removes it.
TakeSnapshot ==
  /\ Doing("e-snapshot")
  /\ \/ /\ snapshot' = access /\ Go("e-ready")
        /\ UNCHANGED <<journal, state, artifacts, bin, compose, access, archive, data, service, faults>>
        /\ Same
     \/ Fails("e-cancel")

DropSnapshot(from, ok) ==
  /\ Doing(from)
  /\ snapshot' = Absent /\ Go(ok)
  /\ UNCHANGED <<journal, state, artifacts, bin, compose, access, archive, data, service, faults>>
  /\ Same

\* A failure of ConfigureDomain before it activates anything.
Unactivated == IF run.j.op = "domains" THEN "e-abort" ELSE "x-stop"

Reconfigure ==
  \/ SavePrepared \/ TakeSnapshot
  \/ Save("e-cancel", IF run.j.op = "domains" THEN "aborted" ELSE "rolled-back", "idle", "idle")
  \/ Save("e-ready", "snapshot-ready", "e-prepare", IF run.j.op = "domains" THEN "idle" ELSE "e-forget")
  \/ DropSnapshot("e-forget", "idle")
  \* exposure writes nginx and certificate files; domains only validates
  \/ /\ run.j.op = "exposure"
     /\ WriteAccess("e-prepare", WithPolicy(run.j.after.access), "e-swap", "x-stop")
  \/ run.j.op = "domains" /\ Health("e-prepare", "e-swap", Unactivated)
  \/ Save("e-swap", "swap-pending", "e-stop", Unactivated)
  \/ Save("e-abort", "aborted", "e-forget", "e-forget")
  \/ Stop("e-stop", "e-policy", "x-stop")
  \/ WriteAccess("e-policy", WithPolicy(run.j.after.access), "e-boot", "x-stop")
  \/ WriteAccess("e-boot", WithBoot(run.j.after.access), "e-started", "x-stop")
  \/ Save("e-started", "started", "e-start", "x-stop")
  \/ Start("e-start", "e-health", "x-stop")
  \/ Health("e-health", "e-state", "x-stop")
  \/ SaveState("e-state", run.j.after, "e-complete", "x-stop")
  \/ Save("e-complete", "complete", "e-forget", "x-stop")

\* rollbackExposure: an error of the stop is reported at the end only; the
\* files are restored one after the other from the snapshot.
RollbackExposure ==
  \/ Stop("x-stop", "x-policy", "x-policy")
  \/ snapshot # Absent /\ WriteAccess("x-policy", WithPolicy(snapshot.policy), "x-boot", "x-fail")
  \/ snapshot = Absent /\ Doing("x-policy") /\ Go("x-fail") /\ UNCHANGED <<disk, service, faults>> /\ Same
  \/ WriteAccess("x-boot", [snapshot EXCEPT !.policy = access.policy], "x-start", "x-fail")
  \/ Start("x-start", "x-health", "x-fail")
  \/ Health("x-health", "x-state", "x-fail")
  \/ SaveState("x-state", [run.j.before EXCEPT !.recovery = "none"], "x-done", "x-mark")
  \/ Save("x-done", "rolled-back", "x-forget", "idle")
  \/ DropSnapshot("x-forget", "idle")
  \/ SaveState("x-fail", [run.j.before EXCEPT !.recovery = "exposure-recovery-required"], "x-mark", "x-mark")
  \/ Save("x-mark", "recovery-required", "idle", "idle")

\* Variant: a prepared transaction is rolled back like any other.
BeginRecoverExposureAlike ==
  /\ ~Closed(journal) /\ journal.op = "exposure"
  /\ Enter("x-stop", journal)
  /\ UNCHANGED <<disk, service, ids, ops, faults, older>>

\* RecoverExposure: a prepared transaction changed nothing.
BeginRecoverExposure ==
  /\ ~Closed(journal) /\ journal.op = "exposure"
  /\ Enter(IF journal.stage = "prepared" THEN "y-forget" ELSE "x-stop", journal)
  /\ UNCHANGED <<disk, service, ids, ops, faults, older>>
ClosePrepared ==
  \/ DropSnapshot("y-forget", "y-done")
  \/ Save("y-done", "rolled-back", "idle", "idle")

\* RecoverDomains: always rolled back.
BeginRecoverDomains ==
  /\ ~Closed(journal) /\ journal.op = "domains"
  /\ Enter("x-stop", journal)
  /\ UNCHANGED <<disk, service, ids, ops, faults, older>>

-----------------------------------------------------------------------------
(* Install and uninstall                                                   *)

\* An uninstall keeps the data, and the installer does not compare contracts:
\* the build may be older than its data.
BeginInstall(v) ==
  LET a == <<ids + 1, v, Contract(v), 0>>
  IN /\ Closed(journal) /\ state = Absent /\ service = Absent /\ bin = Absent /\ compose = Absent
     /\ ids + 1 <= MaxArtifacts
     /\ BeginOp("i-prepared", [NoJournal EXCEPT !.op = "install", !.stage = "new",
                                                !.after = Installed(a), !.cand = a])
     /\ older' = (Contract(v) < data)
     /\ ids' = ids + 1
     /\ UNCHANGED <<disk, service, faults>>

\* The artifact and Compose are written before anything is started.
StageInstall ==
  /\ Doing("i-stage")
  /\ \/ /\ artifacts' = artifacts \cup {run.j.cand} /\ compose' = run.j.cand[2]
        /\ access' = [policy |-> 0, boot |-> 0, unit |-> 0]
        /\ run' = [at |-> "i-swap", j |-> run.j]
        /\ UNCHANGED <<journal, state, bin, snapshot, archive, data, service, faults>> /\ Same
     \/ Fails("i-fail")

MarkInstall ==
  /\ Doing("i-mark")
  /\ run' = [at |-> "i-started", j |-> [run.j EXCEPT !.changed = TRUE]]
  /\ UNCHANGED <<disk, service, ids, ops, faults, older>>

\* A failure during the prerequisites closes the journal, a later one leaves
\* an incomplete installation for uninstall (what its cleanups remove is not
\* followed: nothing else works on it).  A certificate that does not come in
\* time completes the journal, as the service should stay up for the retries;
\* but it is an error, so the cleanups still take the nginx and certificate
\* files away.
Install ==
  \/ Save("i-prepared", "prepared", "i-needs", "idle")
  \/ Health("i-needs", "i-again", "i-clear")
  \/ SaveState("i-clear", Absent, "i-abort", "i-abort")
  \/ Save("i-abort", "aborted", "idle", "idle")
  \/ Save("i-again", "prepared", "i-stage", "i-fail")
  \/ StageInstall
  \/ Save("i-swap", "swap-pending", "i-mark", "i-fail") \/ MarkInstall
  \/ Save("i-started", "started", "i-bin", "i-stop")
  \/ DeployBinary("i-bin", run.j.cand, "i-start", "i-stop")
  \/ Start("i-start", "i-health", "i-stop")
  \/ Health("i-health", "i-state", "i-stop")
  \/ SaveState("i-state", run.j.after, "i-cert", "i-stop")
  \/ Health("i-cert", "i-complete", "i-pending")
  \/ Save("i-complete", "complete", "idle", "i-stop")
  \/ Save("i-pending", "complete", "i-cleanup", "i-stop")
  \/ WriteAccess("i-cleanup", WithPolicy(Removed), "idle", "idle")
  \/ Stop("i-stop", "i-fail", "i-fail")
  \/ SaveState("i-fail", [run.j.after EXCEPT !.recovery = "install-incomplete"], "i-mark-fail", "i-mark-fail")
  \/ Save("i-mark-fail", "recovery-required", "idle", "idle")

\* Uninstall also takes over an interrupted install or uninstall.
BeginUninstall ==
  LET st == IF state # Absent THEN state
              ELSE IF journal.op = "uninstall" THEN journal.before ELSE journal.after
      j == [NoJournal EXCEPT !.op = "uninstall", !.stage = "new", !.before = st]
  IN /\ \/ /\ Closed(journal) /\ state # Absent /\ BeginOp("n-prepared", j)
        \/ /\ ~Closed(journal) /\ journal.op \in {"install", "uninstall"}
           /\ Enter("n-prepared", j) /\ UNCHANGED ops
     /\ UNCHANGED <<disk, service, ids, faults, older>>

RemoveArtifacts ==
  /\ Doing("n-remove")
  /\ \/ /\ artifacts' = artifacts \ {run.j.before.cur, run.j.before.prev}
        /\ bin' = Absent /\ compose' = Absent /\ Go("n-state")
        /\ UNCHANGED <<journal, state, access, snapshot, archive, data, service, faults>> /\ Same
     \/ Fails("idle")

Uninstall ==
  \/ Save("n-prepared", "prepared", "n-stop", "idle")
  \/ Stop("n-stop", "n-swap", "idle")
  \/ Save("n-swap", "swap-pending", "n-remove", "idle")
  \/ RemoveArtifacts
  \/ SaveState("n-state", Absent, "n-done", "idle")
  \/ Save("n-done", "complete", "idle", "idle")

-----------------------------------------------------------------------------
\* The process dies between two steps; the lock goes with it.
Dies ==
  /\ ~Doing("idle") /\ Fault
  /\ run' = NoProcess
  /\ UNCHANGED <<disk, service, ids, ops, older>>

Operations ==
  \/ Update \/ RecoverTransaction \/ RestoreRecover \/ Restart
  \/ Reconfigure \/ RollbackExposure \/ ClosePrepared \/ Install \/ Uninstall

INext ==
  \/ \E v \in Versions : (\E known \in BOOLEAN : BeginUpdate(v, known)) \/ BeginInstall(v)
  \/ BeginRollback \/ BeginRecover \/ BeginRestore \/ BeginRestart
  \/ \E op \in {"exposure", "domains"} : BeginAccess(op)
  \/ BeginRecoverExposure \/ BeginRecoverDomains \/ BeginUninstall
  \/ Operations \/ Dies

ISpec == IInit /\ [][INext]_ivars

\* A process goes on, and the operator runs the recovery command that the
\* manager offers for the pending operation, again and again; one that needs
\* the backup is offered two.
Recovery ==
  \/ BeginRecover \/ BeginRecoverExposure \/ BeginRecoverDomains
  \/ (BeginRestart \/ BeginUninstall) /\ ~Closed(journal)
IFairness == WF_ivars(Operations) /\ SF_ivars(Recovery) /\ SF_ivars(BeginRestore)
IFairSpec == ISpec /\ IFairness

-----------------------------------------------------------------------------
(* Properties                                                              *)

Artifacts == {a \in Nat \X Versions \X {0, 1, 2} \X Nat : a[3] \in {0, Contract(a[2])}}
\* RecoveryStatus: what the state file says of an operation that failed.
Recoveries == {"none", "restore-required", "recovery-required", "exposure-recovery-required",
               "install-incomplete"}
States == [cur : Artifacts, prev : Artifacts \cup {Absent}, access : Nat, recovery : Recoveries]
Ops == {"none", "update", "rollback", "restart", "exposure", "domains", "install", "uninstall"}
Stages == {"new", "prepared", "snapshot-ready", "swap-pending", "started", "complete", "rolled-back",
           "aborted", "recovery-required", "restore-required"}
Journals == [op : Ops, stage : Stages, before : States \cup {Absent}, after : States \cup {Absent},
             prev : Artifacts \cup {Absent}, cand : Artifacts \cup {Absent},
             changed : BOOLEAN, need : BOOLEAN]

\* What the variables hold.
ITypeOK ==
  /\ journal \in Journals /\ state \in States \cup {Absent} /\ artifacts \subseteq Artifacts
  /\ {bin, compose, service} \subseteq Versions \cup {Absent}
  /\ access \in AccessFiles /\ snapshot \in AccessFiles \cup {Absent}
  /\ archive \in {1, 2, Absent} /\ data \in {1, 2}
  /\ run = [at |-> run.at, j |-> run.j] /\ run.j \in Journals
  /\ ids \in Nat /\ ops \in Nat /\ faults \in Nat /\ older \in BOOLEAN

\* The installation is in one piece, but for two things the code does not keep
\* together.  A rollback over a change of access brings back the Compose of its
\* artifact (deployArtifact, update.go:484-492), with the mounts and the probe
\* of the access before.  An install whose certificate is pending completes its
\* journal and then removes the policy files (run.go:512-520).
InOnePiece ==
  state # Absent =>
    /\ service = state.cur[2] /\ bin = state.cur[2] /\ compose = state.cur[2]
    /\ access.boot = state.access
    /\ access.policy \in {state.access, Removed}
    /\ access.unit \in {state.access, state.cur[4]}

\* The last word of the journal is true: an operation that is complete left
\* the state it was for, one that was aborted or rolled back the state it
\* found, with the mark of an earlier failure kept or cleared.
OutcomeIsTrue ==
  journal.op # "none" =>
    IF journal.stage = "complete" THEN state = journal.after
    ELSE state = journal.before \/ state = [journal.before EXCEPT !.recovery = "none"]

\* Once no operation is pending, the state file, the binary, Compose, the
\* access files and the running service agree, and they are what the journal
\* says the last operation left, whatever failed or died on the way there, up
\* to the two exceptions of InOnePiece (install: Update, recoverTransaction,
\* rollbackExposure, Install, Journal).
SettledAgrees == Doing("idle") /\ Closed(journal) => InOnePiece /\ OutcomeIsTrue

\* The builds the state file names can be deployed: a rollback never finds
\* that its artifact was pruned.
RollbackKept ==
  state # Absent /\ journal.op # "uninstall" /\ run.j.op # "uninstall" =>
    {state.cur, state.prev} \ {Absent} \subseteq artifacts \/ state.recovery = "install-incomplete"

\* A build never runs on data that a build with a newer contract migrated,
\* unless the operator deployed an older build where the installer does not
\* refuse it: an install on data that an uninstall kept (run.go compares
\* nothing), or an update of a build whose contract could not be read
\* (update.go:249-251, 306).
NeverOldOnNew == service # Absent /\ ~older => Contract(service) >= data

\* An update that asks for its backup has one, which the build it goes back to
\* can read, and that build is there.
RestoreOffered ==
  ~Closed(journal) /\ journal.need =>
    /\ archive \in {1, 2} /\ (~older => archive <= Contract(journal.prev[2]))
    /\ journal.prev \in artifacts

\* Whatever failed on the way, the way back stays open and safe: a rollback
\* finds its artifact, a restore its backup, and no build runs on data of a
\* newer contract unless an older one was deployed unrefused (install:
\* pruneArtifacts, Update, recoverTransaction, RestoreRecover, Install).
RollbackSafe == RollbackKept /\ NeverOldOnNew /\ RestoreOffered

\* The places of the recovery commands up to the closing of the journal.
Recovering ==
  {"r-begin", "r-abort", "r-stop", "r-data", "r-bin", "r-compose", "r-start", "r-health", "r-state", "r-brokers",
   "r-done", "r-needs", "r-restore", "q-stop", "q-swap", "q-apply", "q-bin", "q-compose", "q-started", "q-start",
   "q-health", "q-state", "q-done", "x-stop", "x-policy", "x-boot", "x-start", "x-health", "x-state", "x-done",
   "y-forget", "y-done", "t-prepared", "t-stop", "t-started", "t-start", "t-health", "t-done",
   "n-prepared", "n-stop", "n-swap", "n-remove", "n-state", "n-done"}

\* A recovery in which nothing fails succeeds: from whatever files the
\* interrupted operation left it never fails of itself, for want of an
\* artifact or of the snapshot, but goes on until it closes the journal or
\* asks for the backup; only a change of domains may have left it nothing to
\* work with (install: recoverTransaction, rollbackExposure, RestoreRecover,
\* Restart, Uninstall).
RecoveryHolds ==
  [][run.at \in Recovering /\ run.j.op # "domains" /\ faults' = faults =>
       \/ run'.at \in Recovering
       \/ Closed(journal') \/ (run'.at = "idle" /\ journal'.need)]_ivars

\* An interrupted operation other than a change of domains is brought to its
\* end by its recovery command.
Recovers == ~Closed(journal) /\ journal.op # "domains" ~> Closed(journal)

\* "`recover` restores the recorded working boot/Compose/policy after an
\* interrupted operation" (docs/operations/domains-and-tls.md).
DomainsRecovered == journal.op = "domains" /\ ~Closed(journal) ~> Closed(journal)
=============================================================================
