------------------------------ MODULE DataLease ------------------------------
(***************************************************************************)
(* internal/backup/data_lease.go, work.go, migrate.go and the sessions of  *)
(* internal/nodestate: who may touch the database and the master key.      *)
(* Every process opens one lock file of the data directory and takes byte  *)
(* locks on it that never wait: a lock that is held by another process     *)
(* fails, and the caller closes the file, which releases all it held; so   *)
(* does the kernel when the process dies.  Byte 0 is admission, byte 1 the *)
(* database and key (shared or exclusive), bytes 3 and 5 archive work and  *)
(* restore review, byte 2 the mark of a purge.                             *)
(***************************************************************************)
EXTENDS Naturals, FiniteSets

CONSTANTS
  Procs,      \* processes: the node, host commands, the installer
  NoProc,     \* nobody
  MaxKeys     \* bound on the master keys ever made

ASSUME NoProcAssumption == NoProc \notin Procs

VARIABLES
  adm,        \* owner of byte 0
  pair,       \* hold of byte 1, per process
  work,       \* owner of byte 3
  review,     \* owner of byte 5
  lpc,        \* where a process is in its operation
  job,        \* the operation
  marked,     \* the purge mark
  members,    \* what is in the data directory
  schema,     \* the database has no pending migration
  keyId,      \* the key in the key file
  keys,       \* keys made so far
  ring,       \* the key a process has loaded, 0: none
  torn        \* ghost: a purge has removed some members and not all

lvars == <<adm, pair, work, review, lpc, job, marked, members, schema, keyId, keys, ring, torn>>

Guards == {"purge", "reset"}
Sessions == {"db", "services", "initialize", "rotate", "runtime"}
Jobs == {"none"} \cup Sessions \cup Guards \cup {"archive", "inspect", "review"}
Members == {"db", "key", "private"}

Places == {"idle", "lock0", "lock1", "admit", "open", "migrate", "unlock", "upgrade", "failed",
           "load", "share", "relock", "session", "lock3", "lock5", "check", "working", "guard",
           "purging"}

\* Places at which the process has the database open.
InUse(p) == lpc[p] \in {"migrate", "unlock", "upgrade", "failed", "load", "share", "relock", "session"}

LTypeOK ==
  /\ adm \in Procs \cup {NoProc} /\ work \in Procs \cup {NoProc} /\ review \in Procs \cup {NoProc}
  /\ pair \in [Procs -> {"none", "shared", "excl"}]
  /\ lpc \in [Procs -> Places]
  /\ job \in [Procs -> Jobs]
  /\ marked \in BOOLEAN /\ schema \in BOOLEAN /\ torn \in BOOLEAN
  /\ members \subseteq Members
  /\ keyId \in 0..MaxKeys /\ keys \in 0..MaxKeys /\ ring \in [Procs -> 0..MaxKeys]

\* A new node, or one whose software was replaced by a version with migrations.
LInit ==
  /\ adm = NoProc /\ work = NoProc /\ review = NoProc
  /\ pair = [p \in Procs |-> "none"] /\ lpc = [p \in Procs |-> "idle"]
  /\ job = [p \in Procs |-> "none"]
  /\ marked = FALSE /\ schema = FALSE
  /\ \/ members = {} /\ keyId = 0 /\ keys = 0
     \/ members = {"db", "key"} /\ keyId = 1 /\ keys = 1
  /\ ring = [p \in Procs |-> 0] /\ torn = FALSE

At(p, l) == lpc[p] = l
Goto(p, l) == lpc' = [lpc EXCEPT ![p] = l]

\* leaseLock on byte 1: what the other processes hold decides.
CanLock(p, kind) ==
  \A q \in Procs \ {p} : pair[q] = "none" \/ (kind = "shared" /\ pair[q] = "shared")

\* Close, or the death of the process: the kernel releases every byte.
Release(p) ==
  /\ Goto(p, "idle")
  /\ adm' = IF adm = p THEN NoProc ELSE adm
  /\ work' = IF work = p THEN NoProc ELSE work
  /\ review' = IF review = p THEN NoProc ELSE review
  /\ pair' = [pair EXCEPT ![p] = "none"]
  /\ ring' = [ring EXCEPT ![p] = 0]
  /\ job' = [job EXCEPT ![p] = "none"]

dataVars == <<marked, members, schema, keyId, keys, torn>>

\* A caller begins.  openWorkFile refuses a purged directory at once.
Start(p, j) ==
  /\ At(p, "idle")
  /\ job' = [job EXCEPT ![p] = j]
  /\ IF j \in {"inspect", "review"}
       THEN ~marked /\ Goto(p, IF j = "inspect" THEN "lock3" ELSE "lock5")
       ELSE Goto(p, "lock0")
  /\ UNCHANGED <<adm, pair, work, review, ring, dataVars>>

LockAdmission(p) ==
  /\ At(p, "lock0")
  /\ IF adm = NoProc THEN adm' = p /\ Goto(p, "lock1") /\ UNCHANGED <<pair, work, review, ring, job>>
                     ELSE Release(p)
  /\ UNCHANGED dataVars

Exclusive(j) == j \in {"initialize", "rotate", "runtime"} \cup Guards

LockPair(p) ==
  LET kind == IF Exclusive(job[p]) THEN "excl" ELSE "shared" IN
  /\ At(p, "lock1")
  /\ IF CanLock(p, kind)
       THEN /\ pair' = [pair EXCEPT ![p] = kind]
            /\ Goto(p, IF job[p] \in Guards THEN "lock3" ELSE "admit")
            /\ UNCHANGED <<adm, work, review, ring, job>>
       ELSE Release(p)
  /\ UNCHANGED dataVars

\* lockData ends: a purged directory is not opened; a shared owner lets the
\* next one in, an exclusive owner keeps admission.
Admit(p) ==
  /\ At(p, "admit")
  /\ IF marked THEN Release(p)
     ELSE /\ adm' = IF pair[p] = "shared" THEN NoProc ELSE adm
          /\ Goto(p, IF job[p] = "archive" THEN "lock3" ELSE "open")
          /\ UNCHANGED <<pair, work, review, ring, job>>
  /\ UNCHANGED dataVars

\* OpenKeys: without a key file a shared caller closes and starts over as an
\* exclusive one.  Then the database is opened, which creates it.
OpenKeys(p) ==
  /\ At(p, "open")
  /\ IF job[p] = "services" /\ "key" \notin members
       THEN /\ lpc' = [lpc EXCEPT ![p] = "lock0"] /\ job' = [job EXCEPT ![p] = "initialize"]
            /\ pair' = [pair EXCEPT ![p] = "none"]
            /\ adm' = IF adm = p THEN NoProc ELSE adm
            /\ UNCHANGED members
       ELSE /\ Goto(p, "migrate") /\ members' = members \cup {"db"}
            /\ UNCHANGED <<job, pair, adm>>
  /\ UNCHANGED <<work, review, ring, marked, schema, keyId, keys, torn>>

\* Variant: RequireExclusive without the admission byte.
MigrateNodeUnadmitted(p) ==
  /\ At(p, "migrate")
  /\ \/ schema /\ Goto(p, "load") /\ UNCHANGED <<schema, adm, pair, work, review, ring>>
     \/ ~schema /\ pair[p] = "excl" /\ schema' = TRUE /\ Goto(p, "load")
        /\ UNCHANGED <<adm, pair, work, review, ring>>
     \/ ~schema /\ pair[p] = "shared" /\ Goto(p, "unlock")
        /\ UNCHANGED <<schema, adm, pair, work, review, ring>>
  /\ UNCHANGED <<job, marked, members, keyId, keys, torn>>

\* MigrateNode: pending migrations need exclusive ownership; RequireExclusive
\* takes admission first.
MigrateNode(p) ==
  /\ At(p, "migrate")
  /\ \/ schema /\ Goto(p, "load") /\ UNCHANGED <<schema, adm, pair, work, review, ring, job>>
     \/ ~schema /\ pair[p] = "excl" /\ schema' = TRUE /\ Goto(p, "load")
        /\ UNCHANGED <<adm, pair, work, review, ring, job>>
     \/ ~schema /\ pair[p] = "shared" /\ adm = NoProc /\ adm' = p /\ Goto(p, "unlock")
        /\ UNCHANGED <<schema, pair, work, review, ring, job>>
     \/ ~schema /\ pair[p] = "shared" /\ adm # NoProc /\ Release(p) /\ UNCHANGED schema
  /\ UNCHANGED <<marked, members, keyId, keys, torn>>

RequireExclusiveUnlock(p) ==
  /\ At(p, "unlock") /\ Goto(p, "upgrade")
  /\ pair' = [pair EXCEPT ![p] = "none"]
  /\ UNCHANGED <<adm, work, review, ring, job, dataVars>>

\* The exclusive lock, or the shared one again before admission reopens; if
\* even that failed, admission would be kept until Close.
RequireExclusiveRelock(p) ==
  /\ At(p, "upgrade")
  /\ IF CanLock(p, "excl")
       THEN pair' = [pair EXCEPT ![p] = "excl"] /\ Goto(p, "migrate") /\ UNCHANGED adm
       ELSE /\ Goto(p, "failed")
            /\ IF CanLock(p, "shared")
                 THEN pair' = [pair EXCEPT ![p] = "shared"] /\ adm' = IF adm = p THEN NoProc ELSE adm
                 ELSE UNCHANGED <<pair, adm>>
  /\ UNCHANGED <<work, review, ring, job, dataVars>>

\* LoadNodeKeyRing: the key of the file, or a new one.
LoadNodeKeyRing(p) ==
  /\ At(p, "load") /\ Goto(p, "share")
  /\ \/ /\ job[p] = "db" /\ UNCHANGED <<ring, keyId, keys, members>>
     \/ /\ job[p] # "db" /\ "key" \in members
        /\ ring' = [ring EXCEPT ![p] = keyId] /\ UNCHANGED <<keyId, keys, members>>
     \/ /\ job[p] # "db" /\ "key" \notin members /\ keys < MaxKeys
        /\ keys' = keys + 1 /\ keyId' = keys' /\ members' = members \cup {"key"}
        /\ ring' = [ring EXCEPT ![p] = keys']
  /\ UNCHANGED <<adm, pair, work, review, job, marked, schema, torn>>

\* Share: byte 1 is released and taken again while admission is held.
ShareUnlock(p) ==
  /\ At(p, "share")
  /\ IF job[p] = "rotate" \/ pair[p] # "excl"
       THEN Goto(p, "session") /\ UNCHANGED pair
       ELSE Goto(p, "relock") /\ pair' = [pair EXCEPT ![p] = "none"]
  /\ UNCHANGED <<adm, work, review, ring, job, dataVars>>

ShareRelock(p) ==
  /\ At(p, "relock")
  /\ IF CanLock(p, "shared")
       THEN /\ Goto(p, "session") /\ pair' = [pair EXCEPT ![p] = "shared"]
            /\ adm' = IF adm = p THEN NoProc ELSE adm
            /\ UNCHANGED <<work, review, ring, job>>
       ELSE Release(p)
  /\ UNCHANGED dataVars

\* wg-guard rotate-key: a new key replaces the one of the file.
RotateKey(p) ==
  /\ At(p, "session") /\ job[p] = "rotate" /\ keys < MaxKeys
  /\ keys' = keys + 1 /\ keyId' = keys' /\ ring' = [ring EXCEPT ![p] = keys']
  /\ UNCHANGED <<adm, pair, work, review, lpc, job, marked, members, schema, torn>>

\* claimWork and AcquirePurgeGuard take byte 3, claimReview and the guard
\* byte 5; the guard ends with both.
LockWork(p) ==
  /\ At(p, "lock3")
  /\ IF work = NoProc
       THEN /\ work' = p /\ Goto(p, IF job[p] \in Guards THEN "lock5" ELSE "check")
            /\ UNCHANGED <<adm, pair, review, ring, job>>
       ELSE Release(p)
  /\ UNCHANGED dataVars

LockReview(p) ==
  /\ At(p, "lock5")
  /\ IF review = NoProc
       THEN /\ review' = p /\ Goto(p, IF job[p] \in Guards THEN "guard" ELSE "check")
            /\ UNCHANGED <<adm, pair, work, ring, job>>
       ELSE Release(p)
  /\ UNCHANGED dataVars

\* Variant: the purge mark is not looked at again under the byte.
CheckWorkBlind(p) ==
  /\ At(p, "check") /\ Goto(p, "working") /\ members' = members \cup {"private"}
  /\ UNCHANGED <<adm, pair, work, review, ring, job, marked, schema, keyId, keys, torn>>

\* "Purge could have completed between opening and acquiring the work byte."
CheckWork(p) ==
  /\ At(p, "check")
  /\ IF marked THEN Release(p) /\ UNCHANGED members
     ELSE /\ Goto(p, "working") /\ members' = members \cup {"private"}
          /\ UNCHANGED <<adm, pair, work, review, ring, job>>
  /\ UNCHANGED <<marked, schema, keyId, keys, torn>>

\* Purge marks the directory and only then removes its first member.
Mark(p) ==
  /\ At(p, "guard") /\ job[p] = "purge" /\ Goto(p, "purging") /\ marked' = TRUE
  /\ UNCHANGED <<adm, pair, work, review, ring, job, members, schema, keyId, keys, torn>>

RemoveMember(p, m) ==
  /\ At(p, "purging") /\ m \in members
  /\ members' = members \ {m}
  /\ torn' = (members' # {})
  /\ schema' = (schema /\ m # "db")
  /\ UNCHANGED <<adm, pair, work, review, lpc, ring, job, marked, keyId, keys>>

\* ResetPurgedDataDir: only an empty directory loses its mark.
ResetPurgedDataDir(p) ==
  /\ At(p, "guard") /\ job[p] = "reset" /\ Release(p)
  /\ marked' = (marked /\ members # {})
  /\ UNCHANGED <<members, schema, keyId, keys, torn>>

\* The operation ends, or the process dies wherever it is.
Close(p) == ~At(p, "idle") /\ Release(p) /\ UNCHANGED dataVars

LNext ==
  \E p \in Procs :
     \/ \E j \in Jobs \ {"none", "initialize"} : Start(p, j)
     \/ LockAdmission(p) \/ LockPair(p) \/ Admit(p) \/ OpenKeys(p) \/ MigrateNode(p)
     \/ RequireExclusiveUnlock(p) \/ RequireExclusiveRelock(p) \/ LoadNodeKeyRing(p)
     \/ ShareUnlock(p) \/ ShareRelock(p) \/ RotateKey(p)
     \/ LockWork(p) \/ LockReview(p) \/ CheckWork(p)
     \/ Mark(p) \/ (\E m \in Members : RemoveMember(p, m)) \/ ResetPurgedDataDir(p)
     \/ Close(p)

LSpec == LInit /\ [][LNext]_lvars

-----------------------------------------------------------------------------

\* While a process holds the pair exclusively (to migrate, to create or
\* rotate the key, to apply a restore, to purge), no other process has the
\* database open, not even one that is between releasing byte 1 and taking
\* it again.
AloneWhenExclusive ==
  \A p, q \in Procs : p # q /\ pair[p] = "excl" => ~InUse(q)

\* Every process works with the key that is in the key file: initializers
\* that start together do not publish two keys, nobody keeps a key that was
\* rotated away.
KeysAgree == \A p \in Procs : ring[p] # 0 => ring[p] = keyId

\* In a directory that is marked as purged, or from which a purge that died
\* removed some members and not all, nobody has the database open and nobody
\* is at work on private files.
PurgedIsUnused == marked \/ torn => \A p \in Procs : ~InUse(p) /\ ~At(p, "working")

\* What the lease is for: one key, and no use of a directory that is purged.
LeaseProtects == KeysAgree /\ PurgedIsUnused
=============================================================================
