----------------------------- MODULE KeyRotation -----------------------------
(***************************************************************************)
(* internal/secrets: the master key, its retained predecessor during a     *)
(* rotation, and the rows encrypted under them (keyring.go Rotate,         *)
(* storage.go nodeCarrier).  Key files are written by a synced temporary   *)
(* file, a rename and a directory sync, so one write is one durable step.  *)
(* Rows are not: with synchronous=NORMAL a committed row is in the WAL and *)
(* a power failure may take it back until a checkpoint.  Rotation runs     *)
(* under the exclusive data lease (module DataLease).                      *)
(***************************************************************************)
EXTENDS Naturals

CONSTANTS
  Rows,         \* rows with a stored secret
  MaxKeyIds,    \* bound on the keys generated
  MaxFailures   \* bound on failing steps, crashes and power failures

VARIABLES
  cur, prev,    \* the key file and its .prev, 0: no file
  prevBack,     \* .prev was removed and its directory is not synced yet
  stored,       \* the key each row is encrypted under
  durable,      \* the same, as a power failure would leave it
  kpc,          \* where Rotate is
  old,          \* the key it rotates from
  made, failures

kvars == <<cur, prev, prevBack, stored, durable, kpc, old, made, failures>>

KTypeOK ==
  /\ cur \in 1..MaxKeyIds /\ prev \in 0..MaxKeyIds /\ prevBack \in 0..MaxKeyIds
  /\ stored \in [Rows -> 1..MaxKeyIds] /\ durable \in [Rows -> 1..MaxKeyIds]
  /\ kpc \in {"idle", "swap", "rows", "checkpoint", "remove", "sync"}
  /\ old \in 0..MaxKeyIds /\ made \in 1..MaxKeyIds /\ failures \in 0..MaxFailures

KInit ==
  /\ cur = 1 /\ prev = 0 /\ prevBack = 0 /\ made = 1
  /\ stored = [r \in Rows |-> 1] /\ durable = stored
  /\ kpc = "idle" /\ old = 0 /\ failures = 0

\* A running node stores a secret under the current key.
Store(r) ==
  /\ kpc = "idle" /\ stored[r] # cur /\ stored' = [stored EXCEPT ![r] = cur]
  /\ UNCHANGED <<cur, prev, prevBack, durable, kpc, old, made, failures>>

\* SQLite checkpoints on its own.
AutoCheckpoint ==
  /\ durable # stored /\ durable' = stored
  /\ UNCHANGED <<cur, prev, prevBack, stored, kpc, old, made, failures>>

\* Rotate begins: it completes a window that is open, or opens one by
\* publishing the predecessor first.
Rotate ==
  /\ kpc = "idle"
  /\ \/ prev # 0 /\ old' = prev /\ kpc' = "rows" /\ UNCHANGED <<prev, prevBack>>
     \/ prev = 0 /\ made < MaxKeyIds /\ old' = cur /\ prev' = cur /\ prevBack' = 0 /\ kpc' = "swap"
  /\ UNCHANGED <<cur, stored, durable, made, failures>>

SwapKey ==
  /\ kpc = "swap" /\ made' = made + 1 /\ cur' = made' /\ kpc' = "rows"
  /\ UNCHANGED <<prev, prevBack, stored, durable, old, failures>>

\* rotateField: a page of rows is decrypted with either key and written under
\* the new one; a row that opens with neither aborts the rotation.
RotateField(r) ==
  /\ kpc = "rows" /\ stored[r] # cur /\ stored[r] = old
  /\ stored' = [stored EXCEPT ![r] = cur]
  /\ UNCHANGED <<cur, prev, prevBack, durable, kpc, old, made, failures>>

\* ReencryptSecrets walks all rows with the new key, then checkpoints.
VerifyRows ==
  /\ kpc = "rows" /\ \A r \in Rows : stored[r] = cur
  /\ kpc' = "checkpoint"
  /\ UNCHANGED <<cur, prev, prevBack, stored, durable, old, made, failures>>

\* Variant: the checkpoint is skipped.
CheckpointSkipped ==
  /\ kpc = "checkpoint" /\ kpc' = "remove"
  /\ UNCHANGED <<cur, prev, prevBack, stored, durable, old, made, failures>>

Checkpoint ==
  /\ kpc = "checkpoint" /\ durable' = stored /\ kpc' = "remove"
  /\ UNCHANGED <<cur, prev, prevBack, stored, old, made, failures>>

\* Success: the predecessor goes, and its removal is synced.
RemovePrevious ==
  /\ kpc = "remove" /\ prev' = 0 /\ prevBack' = prev /\ kpc' = "sync"
  /\ UNCHANGED <<cur, stored, durable, old, made, failures>>

SyncKeyDirectory ==
  /\ kpc = "sync" /\ prevBack' = 0 /\ kpc' = "idle" /\ old' = 0
  /\ UNCHANGED <<cur, prev, stored, durable, made, failures>>

\* A step fails or the process is killed: what it wrote stays.
Abort ==
  /\ kpc # "idle" /\ failures < MaxFailures /\ failures' = failures + 1
  /\ kpc' = "idle" /\ old' = 0
  /\ UNCHANGED <<cur, prev, prevBack, stored, durable, made>>

\* The power fails: rows may fall back, an unsynced removal may be undone.
PowerFailure ==
  /\ failures < MaxFailures /\ failures' = failures + 1
  /\ stored' \in {s \in [Rows -> 1..MaxKeyIds] : \A r \in Rows : s[r] \in {stored[r], durable[r]}}
  /\ durable' = stored'
  /\ prev' \in {prev, IF prevBack # 0 THEN prevBack ELSE prev} /\ prevBack' = 0
  /\ kpc' = "idle" /\ old' = 0
  /\ UNCHANGED <<cur, made>>

KNext ==
  \/ \E r \in Rows : Store(r) \/ RotateField(r)
  \/ AutoCheckpoint \/ Rotate \/ SwapKey \/ VerifyRows \/ Checkpoint
  \/ RemovePrevious \/ SyncKeyDirectory \/ Abort \/ PowerFailure

KSpec == KInit /\ [][KNext]_kvars

\* Whatever a crash or a power failure leaves, the key files on disk open
\* every stored secret, so LoadNodeKeyRing does not refuse the node's own data.
SecretsReadable ==
  \A r \in Rows : {stored[r], durable[r]} \subseteq {cur, prev}

=============================================================================
