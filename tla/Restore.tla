------------------------------- MODULE Restore -------------------------------
(***************************************************************************)
(* internal/backup: apply.go, restore.go, review.go and recovery.go, with  *)
(* the host command of internal/install/restore.go.  An archive is staged  *)
(* as a preview, approved (renamed to restore.pending) and applied before  *)
(* the node opens its data: the active files are copied into               *)
(* restore.transaction, replaced one at a time, and the transaction is     *)
(* renamed away.  A step that fails, or the next start after a crash, puts *)
(* the copies back.  Applying and recovering run under the exclusive data  *)
(* lease and the review byte (module DataLease), so one actor at a time is *)
(* inside; a file is replaced by a synced copy and a rename, so one file   *)
(* changes in one step.                                                    *)
(***************************************************************************)
EXTENDS Naturals, FiniteSets

CONSTANTS
  NoStage,    \* no staged directory, no transaction
  MaxStages,  \* bound on the archives staged
  MaxWrites,  \* bound on the writes of the running node
  MaxFaults   \* bound on failing steps and crashes

VARIABLES
  active,     \* the files of the node: database, key, WAL, retained key
  txn,        \* restore.transaction: the copies, the stage it applies, whole or half deleted
  pending,    \* restore.pending
  pendingHalf,\* restore.pending is half deleted
  previews,   \* staged archives that are not approved
  staged,     \* archives staged so far
  guard,      \* restore.lifecycle-blocked
  service,    \* the supervisor keeps the node running
  opened,     \* the node has its data open
  who, rpc,   \* the actor inside apply or recoverPair, and where it is
  stage,      \* the stage it applies
  host,       \* where the host command is
  choice,     \* the preview of the host command
  writes, faults,
  committed,  \* ghost: the files the last committed restore and later writes left
  done,       \* ghost: stages whose restore was committed
  byHost      \* ghost: stages the host command approved

rvars == <<active, txn, pending, pendingHalf, previews, staged, guard, service, opened, who,
           rpc, stage, host, choice, writes, faults, committed, done, byHost>>

\* A stage: with or without a key, for the panel or of the original schema.
Stages == [id : 1..MaxStages, keyed : BOOLEAN, original : BOOLEAN]
Files == [db : 0..MaxStages, key : 0..MaxStages, wal : 0..MaxWrites, prev : 0..1]
Transactions == [files : Files, stage : Stages, approved : BOOLEAN, whole : BOOLEAN]

ASSUME NoStageAssumption == NoStage \notin Stages \cup Transactions
ASSUME RestoreBoundsAssumption == MaxStages \in Nat /\ MaxWrites \in Nat /\ MaxFaults \in Nat

RTypeOK ==
  /\ active \in Files /\ committed \in Files
  /\ txn = NoStage \/ txn \in Transactions
  /\ pending = NoStage \/ pending \in Stages
  /\ stage = NoStage \/ stage \in Stages
  /\ choice = NoStage \/ choice \in Stages
  /\ previews \subseteq Stages /\ done \subseteq 1..MaxStages /\ byHost \subseteq 1..MaxStages
  /\ staged \in 0..MaxStages
  /\ pendingHalf \in BOOLEAN /\ guard \in BOOLEAN /\ service \in BOOLEAN /\ opened \in BOOLEAN
  /\ who \in {"nobody", "node", "host"}
  /\ rpc \in {"idle", "protect", "db", "key", "wal", "prev", "pending", "rename", "validate",
              "backdb", "backkey", "backwal", "backprev", "discard", "forget"}
  /\ host \in {"idle", "prepared", "stopped", "guarded", "applying", "applied", "failed"}
  /\ writes \in 0..MaxWrites /\ faults \in 0..MaxFaults

RInit ==
  /\ active \in {[db |-> 0, key |-> 0, wal |-> 0, prev |-> v] : v \in 0..1}
  /\ committed = active
  /\ txn = NoStage /\ pending = NoStage /\ stage = NoStage /\ choice = NoStage
  /\ pendingHalf = FALSE /\ previews = {} /\ staged = 0
  /\ guard = FALSE /\ service = TRUE /\ opened = FALSE
  /\ who = "nobody" /\ rpc = "idle" /\ host = "idle"
  /\ writes = 0 /\ faults = 0 /\ done = {} /\ byHost = {}

reviewVars == <<pending, pendingHalf, previews, staged>>
hostVars == <<guard, service, host, choice>>
ghosts == <<writes, committed, done, byHost>>

-----------------------------------------------------------------------------
(* Review: the panel and host commands, under the review byte.              *)

\* StageReview, Stage and StageOriginal; an original-schema archive has its
\* key.  Only the inspection byte is held.
Stage(keyed, original) ==
  /\ staged < MaxStages /\ staged' = staged + 1 /\ (original => keyed)
  /\ previews' = previews \cup {[id |-> staged', keyed |-> keyed, original |-> original]}
  /\ UNCHANGED <<active, txn, pending, pendingHalf, opened, who, rpc, stage, faults, hostVars, ghosts>>

\* Approve, ApproveReview: nothing is pending, and the preview is not of the
\* original schema.
Approve(p) ==
  /\ who = "nobody" /\ p \in previews /\ ~p.original /\ pending = NoStage
  /\ pending' = p /\ previews' = previews \ {p}
  /\ UNCHANGED <<active, txn, pendingHalf, staged, opened, who, rpc, stage, faults, hostVars, ghosts>>

DiscardPreview(p) ==
  /\ who = "nobody" /\ p \in previews /\ previews' = previews \ {p}
  /\ UNCHANGED <<active, txn, pending, pendingHalf, staged, opened, who, rpc, stage, faults, hostVars, ghosts>>

\* CancelPending removes the directory it was shown; a crash leaves half.
CancelPending(whole) ==
  /\ who = "nobody" /\ pending # NoStage /\ ~pendingHalf
  /\ IF whole THEN pending' = NoStage /\ UNCHANGED <<pendingHalf, faults>>
     ELSE pendingHalf' = TRUE /\ faults < MaxFaults /\ faults' = faults + 1 /\ UNCHANGED pending
  /\ UNCHANGED <<active, txn, previews, staged, opened, who, rpc, stage, hostVars, ghosts>>

-----------------------------------------------------------------------------
(* The node.                                                                *)

\* PrepareOpen: consumePendingRestore refuses under the guard, recovers an
\* interrupted restore first, applies a pending one, else the data is opened.
PrepareOpen ==
  /\ service /\ ~opened /\ who = "nobody" /\ ~guard
  /\ \/ txn # NoStage /\ who' = "node" /\ rpc' = "validate" /\ UNCHANGED <<opened, stage>>
     \/ /\ txn = NoStage /\ pending # NoStage /\ ~pendingHalf
        /\ who' = "node" /\ rpc' = "protect" /\ stage' = pending /\ UNCHANGED opened
     \/ /\ txn = NoStage /\ pending = NoStage
        /\ opened' = TRUE /\ UNCHANGED <<who, rpc, stage>>
  /\ UNCHANGED <<active, txn, reviewVars, hostVars, faults, ghosts>>

Write ==
  /\ opened /\ writes < MaxWrites
  /\ writes' = writes + 1
  /\ active' = [active EXCEPT !.wal = writes']
  /\ committed' = [committed EXCEPT !.wal = writes']
  /\ UNCHANGED <<txn, reviewVars, opened, who, rpc, stage, hostVars, faults, done, byHost>>

\* The node stops; its WAL may stay behind.
StopNode ==
  /\ opened /\ opened' = FALSE
  /\ UNCHANGED <<active, txn, reviewVars, who, rpc, stage, hostVars, faults, ghosts>>

-----------------------------------------------------------------------------
(* apply: one step per file.                                                *)

LeaveInside == who' = "nobody" /\ rpc' = "idle" /\ stage' = NoStage

\* Whoever was inside returns: with success or with an error.
Return(ok) ==
  /\ LeaveInside
  /\ host' = IF who = "host" THEN (IF ok THEN "applied" ELSE "failed") ELSE host

\* The staged data is checked again and the active files are copied; until
\* the copy is renamed to restore.transaction nothing has changed.
Protect(ok) ==
  /\ rpc = "protect"
  /\ IF ok
       THEN /\ txn' = [files |-> active, stage |-> stage, approved |-> stage = pending, whole |-> TRUE]
            /\ rpc' = "db" /\ UNCHANGED <<who, stage, host, faults>>
       ELSE faults < MaxFaults /\ faults' = faults + 1 /\ Return(FALSE) /\ UNCHANGED txn
  /\ UNCHANGED <<active, reviewVars, opened, guard, service, choice, ghosts>>

Then(next) == rpc' = next /\ UNCHANGED <<txn, opened, who, stage, hostVars, faults>>

ReplaceDb ==
  /\ rpc = "db" /\ active' = [active EXCEPT !.db = stage.id]
  /\ Then("key") /\ UNCHANGED <<reviewVars, ghosts>>

ReplaceKey ==
  /\ rpc = "key" /\ active' = [active EXCEPT !.key = IF stage.keyed THEN stage.id ELSE @]
  /\ Then("wal") /\ UNCHANGED <<reviewVars, ghosts>>

RemoveWal ==
  /\ rpc = "wal" /\ active' = [active EXCEPT !.wal = 0]
  /\ Then("prev") /\ UNCHANGED <<reviewVars, ghosts>>

RemovePrevKey ==
  /\ rpc = "prev" /\ active' = [active EXCEPT !.prev = IF stage.keyed THEN 0 ELSE @]
  /\ Then("pending") /\ UNCHANGED <<reviewVars, ghosts>>

\* "Publish success only after the approved input can no longer be replayed."
RemoveStage ==
  /\ rpc = "pending"
  /\ IF txn.approved THEN pending' = NoStage /\ pendingHalf' = FALSE /\ UNCHANGED previews
                     ELSE previews' = previews \ {stage} /\ UNCHANGED <<pending, pendingHalf>>
  /\ Then("rename") /\ UNCHANGED <<active, staged, ghosts>>

\* What a committed restore leaves of files f.
Result(p, f) == [db |-> p.id, key |-> IF p.keyed THEN p.id ELSE f.key,
                 wal |-> 0, prev |-> IF p.keyed THEN 0 ELSE f.prev]

\* restore.transaction becomes restore.previous: the restore is committed.
RenamePrevious ==
  /\ rpc = "rename" /\ txn' = NoStage
  /\ committed' = Result(txn.stage, txn.files) /\ done' = done \cup {stage.id}
  /\ Return(TRUE)
  /\ UNCHANGED <<active, reviewVars, opened, guard, service, choice, writes, faults, byHost>>

\* An error in one of these steps: recoverPair follows at once.
ApplyFails ==
  /\ rpc \in {"db", "key", "wal", "prev", "pending", "rename"} /\ faults < MaxFaults
  /\ faults' = faults + 1 /\ rpc' = "validate"
  /\ UNCHANGED <<active, txn, reviewVars, opened, who, stage, hostVars, ghosts>>

-----------------------------------------------------------------------------
(* recoverPair: every copy is validated before the first is put back.       *)

Validate ==
  /\ rpc = "validate"
  /\ IF txn.whole THEN rpc' = "backdb" /\ UNCHANGED <<who, stage, host>> ELSE Return(FALSE)
  /\ UNCHANGED <<active, txn, reviewVars, opened, guard, service, choice, faults, ghosts>>

PutBack(at, files, next) ==
  /\ rpc = at /\ active' = files
  /\ Then(next) /\ UNCHANGED <<reviewVars, ghosts>>

PutBackDb == PutBack("backdb", [active EXCEPT !.db = txn.files.db], "backkey")
PutBackPrev == PutBack("backprev", [active EXCEPT !.prev = txn.files.prev], "discard")

\* Variant: the WAL is not among the protected files.
RecoverPairNoWal ==
  \/ PutBackDb \/ PutBack("backkey", [active EXCEPT !.key = txn.files.key], "backprev")
  \/ PutBackPrev

RecoverPair ==
  \/ PutBackDb \/ PutBack("backkey", [active EXCEPT !.key = txn.files.key], "backwal")
  \/ PutBack("backwal", [active EXCEPT !.wal = txn.files.wal], "backprev") \/ PutBackPrev

\* The approved input of a failed restore is given up.
DiscardStage ==
  /\ rpc = "discard"
  /\ IF txn.approved THEN pending' = NoStage /\ pendingHalf' = FALSE
                     ELSE UNCHANGED <<pending, pendingHalf>>
  /\ Then("forget") /\ UNCHANGED <<active, previews, staged, ghosts>>

\* Variant: the transaction stays for the operator to look at.
ForgetNothing ==
  /\ rpc = "forget" /\ Return(FALSE)
  /\ UNCHANGED <<active, txn, reviewVars, opened, guard, service, choice, faults, ghosts>>

\* The transaction is removed; the caller returns the error that it was
\* interrupted, and the next start opens the data.
ForgetTransaction ==
  /\ rpc = "forget" /\ txn' = NoStage /\ Return(FALSE)
  /\ UNCHANGED <<active, reviewVars, opened, guard, service, choice, faults, ghosts>>

\* The process dies inside apply or recoverPair.  A directory that was being
\* removed may be half gone.
Crash ==
  /\ who # "nobody" /\ faults < MaxFaults /\ faults' = faults + 1
  /\ LeaveInside /\ host' = IF who = "host" THEN "idle" ELSE host
  /\ \/ UNCHANGED <<txn, pendingHalf, choice>>
     \/ rpc = "forget" /\ txn' = [txn EXCEPT !.whole = FALSE] /\ UNCHANGED <<pendingHalf, choice>>
     \/ /\ rpc \in {"pending", "discard"} /\ txn.approved /\ pending # NoStage
        /\ pendingHalf' = TRUE /\ UNCHANGED <<txn, choice>>
  /\ UNCHANGED <<active, pending, previews, staged, opened, guard, service, ghosts>>

-----------------------------------------------------------------------------
(* wg-guard restore on the host, under the lifecycle lock.                  *)

\* Prepared: the archive is staged and confirmed; the journal of an unfinished
\* restore admits a retry.
HostPrepare(p) ==
  /\ host \in {"idle", "failed"} /\ p \in previews
  /\ host' = "prepared" /\ choice' = p
  /\ UNCHANGED <<active, txn, reviewVars, guard, service, opened, who, rpc, stage, faults, ghosts>>

HostStop ==
  /\ host = "prepared" /\ who = "nobody" /\ host' = "stopped"
  /\ service' = FALSE /\ opened' = FALSE
  /\ UNCHANGED <<active, txn, reviewVars, guard, choice, who, rpc, stage, faults, ghosts>>

HostGuard ==
  /\ host = "stopped" /\ host' = "guarded" /\ guard' = TRUE
  /\ UNCHANGED <<active, txn, reviewVars, service, choice, opened, who, rpc, stage, faults, ghosts>>

\* RecoverInterrupted; then ApplyOriginal, or Approve and ApplyStaged.
HostApply ==
  /\ host = "guarded" /\ who = "nobody"
  /\ \/ /\ txn # NoStage /\ host' = "applying" /\ who' = "host" /\ rpc' = "validate"
        /\ UNCHANGED <<stage, pending, previews, byHost>>
     \/ /\ txn = NoStage /\ choice \in previews /\ (choice.original \/ pending = NoStage)
        /\ host' = "applying" /\ who' = "host" /\ rpc' = "protect" /\ stage' = choice
        /\ IF choice.original THEN UNCHANGED <<pending, previews, byHost>>
           ELSE /\ pending' = choice /\ previews' = previews \ {choice}
                /\ byHost' = byHost \cup {choice.id}
     \/ /\ txn = NoStage /\ (choice \notin previews \/ (~choice.original /\ pending # NoStage))
        /\ host' = "failed" /\ UNCHANGED <<who, rpc, stage, pending, previews, byHost>>
  /\ UNCHANGED <<active, txn, pendingHalf, staged, guard, service, choice, opened, faults,
                 writes, committed, done>>

\* Success: the guard is removed before the service is started.
HostStart ==
  /\ host = "applied" /\ host' = "idle" /\ guard' = FALSE /\ service' = TRUE /\ choice' = NoStage
  /\ UNCHANGED <<active, txn, reviewVars, opened, who, rpc, stage, faults, ghosts>>

\* Failure: the guard stays, and with it the service down, until a retry; the
\* preview of the command is discarded.
HostFails ==
  /\ host \in {"failed", "stopped", "guarded"} /\ host' = "idle" /\ guard' = TRUE
  /\ choice' = NoStage /\ previews' = previews \ {choice}
  /\ UNCHANGED <<active, txn, pending, pendingHalf, staged, service, opened, who, rpc, stage, faults, ghosts>>

RNext ==
  \/ \E k, o \in BOOLEAN : Stage(k, o)
  \/ \E p \in previews : Approve(p) \/ DiscardPreview(p) \/ HostPrepare(p)
  \/ (\E w \in BOOLEAN : CancelPending(w))
  \/ PrepareOpen \/ Write \/ StopNode
  \/ (\E ok \in BOOLEAN : Protect(ok))
  \/ ReplaceDb \/ ReplaceKey \/ RemoveWal \/ RemovePrevKey \/ RemoveStage \/ RenamePrevious
  \/ ApplyFails \/ Validate \/ RecoverPair \/ DiscardStage \/ ForgetTransaction \/ Crash
  \/ HostStop \/ HostGuard \/ HostApply \/ HostStart \/ HostFails

\* Steps of whoever is inside, and the supervisor's restarts.
Inside ==
  \/ (\E ok \in BOOLEAN : Protect(ok))
  \/ ReplaceDb \/ ReplaceKey \/ RemoveWal \/ RemovePrevKey \/ RemoveStage \/ RenamePrevious
  \/ Validate \/ RecoverPair \/ DiscardStage \/ ForgetTransaction

RFairness == WF_rvars(Inside) /\ WF_rvars(PrepareOpen)

RSpec == RInit /\ [][RNext]_rvars /\ RFairness

-----------------------------------------------------------------------------

\* The node only ever opens the files of the last committed restore with all
\* its later writes, or the files from before a restore that did not commit:
\* never half of each, wherever apply or the recovery failed or crashed.
OpenedIsWhole == opened => active = committed

\* A committed restore is not applied again by a later start: its stage is
\* gone, so nothing written since can be replaced by it.
NotReplayed ==
  /\ pending # NoStage => pending.id \notin done
  /\ \A p \in previews : p.id \notin done

\* While a transaction exists the files from before it are safe: in the copy
\* or, for files the restore has not reached, in place.
OriginalsKept == txn # NoStage /\ txn.whole => txn.files = committed

\* What apply and recoverPair owe the owner of the data: nothing half
\* restored is opened, nothing is restored twice, nothing is lost meanwhile.
RestoreSound == OpenedIsWhole /\ NotReplayed /\ OriginalsKept

\* A removal cut short by a crash: the start refuses until an operator acts.
Stuck == (txn # NoStage /\ ~txn.whole) \/ pendingHalf

\* With the service up and no guard, the node opens its data in the end,
\* whatever a crash interrupted, unless the crash hit a removal.
OpensAgain == (service /\ ~guard) ~> (opened \/ guard \/ ~service \/ Stuck)

=============================================================================
