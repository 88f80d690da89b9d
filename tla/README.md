# wg-guard in TLA+

wg-guard is a panel that sells and meters WireGuard and AmneziaWG access on one
node. One Go process owns a SQLite database (what should be), a set of tunnel
links (what is), and the jobs and HTTP handlers that move both; a privileged
helper on the host updates, restores and reconfigures the installation. This
directory models the parts in which several actors touch the same state, checks
them with TLC on small instances and proves the central safety properties with
TLAPS for all values of the constants. Paths below are relative to the
repository.

## 1. Inventory

Everything that changes rows goes through SQLite transactions; there is one
writer at a time, but a *read* followed by a *later* transaction is not one
step, and neither is anything that talks to the tunnel backend, to the file
system, to another process or to another host. That is where the hard
behaviours are.

| component | state | operations | correct when |
|---|---|---|---|
| runtime apply coordinator, `internal/runtimeapply` | Desired and Applied revisions, status, in-flight flag, a one-slot gate; `Node.networkReady` | `Run`, `Attempt`, `Snapshot`; called by handlers after their commit, by the accounting job, by the repair job | "applied" is true of the runtime; a caller that gives up loses nothing; passes do not undo one another |
| reconcile engine, `internal/reconcile` | none of its own: `devices`, `tunnel_interfaces`, `retired_peer_keys`, and the live links | `Run`: four queries, then per interface dump, create / recreate / setconf, sync peers, acknowledge retired keys | a pass that reports success left every link as it read the database; a peer of a revoked device is never forgotten; foreign peers follow the drift policy |
| traffic metering, `internal/accounting` | per device: baseline (`last_rx`, `last_tx`) and totals; per account: usage | `RunCycle` (dump, then one transaction), `ResetTraffic` | no byte charged twice; none lost without a counter reset |
| traffic samples, `internal/accounting/samples.go` | accumulator in memory, three tables of buckets | push inside a cycle's transaction, flush, clear after a reset, prune of each table, restart | charts agree with the ledger, up to retention and what a failed flush, a reset or a restart loses |
| account lifecycle, `internal/user`, `internal/accounting` | status, reason, limit, policy, activation, expiry, usage | create, `Update`, `SetStatus`, `Renew`, the cycle's activation and quota edge, `EnforceExpiry`, `AddQuotaTx`, `AddTraffic`, `SetTraffic`, `ResetTraffic` | status agrees with dates and usage; blocked accounts are taken out of service |
| purchases and successor plans, `internal/integration`, `internal/api/idempotency.go` | idempotency keys, operations, queued plans | claim, handle, settle; purchase, top-up; queue, list, activate | a retry has no second effect; a plan starts once, at the boundary, on the plan it was queued for; the allowance is what was paid, granted and used |
| tunnel profiles and device addresses, `internal/iface`, `internal/device`, `internal/ipam` | interface rows, pools, device addresses, links | create, update, enable, `DeleteReconciled` with its rollback, allocate | addresses unique and inside a pool; no live link without a profile |
| scheduler, `internal/scheduler` | heap of jobs with interval and next run | `Every`, `SetInterval`, `Start`, `Stop`, the loop | starts an interval apart, no starvation, bounded lateness, `Stop` returns |
| node, `internal/serve`, `internal/boot` | what is open, handlers, slow workers and their wake-ups | `Start`, `Shutdown`, its drain and its retry | the database and lease are closed only when nobody uses them; a wake-up is not lost |
| webhooks, `internal/webhook` | events, deliveries (status, attempts, next attempt), endpoints | `RecordTx`, `Worker.Pass`, redelivery, endpoint changes, pruning | delivered means accepted, dead means tried, everything settles |
| egress manager, `internal/egress/routing` | outbounds, links, policy routes, nftables table, health, retries | `Apply`, `ProbeAll`, `Test`, edits, boot, shutdown | kernel agrees with the record; the last configuration is reached |
| egress resolver, `internal/egress/dnsrouter` | feeder's memory, kernel sets, generation | learn, flush, configure, forget | an answer goes out only when its address is in the set |
| update queue, `internal/updatequeue` | a mailbox of files shared with the helper | enqueue, schedule, cancel, promote, claim, record, recover | a request is worked at most once; an accepted one ends with a record, but for the races of section 6 |
| domain queue, `internal/domainqueue` | request and running file, staged imports, lock | stage, sweep, enqueue, claim, recover, renew | an import outlives its request; renewals go on |
| data lease, `internal/backup/data_lease.go`, `internal/nodestate` | byte locks on one file | open, migrate, rotate, archive, review, purge | exclusive means alone; nobody uses a purged directory |
| key rotation, `internal/secrets` | key, predecessor, rows under either | `Rotate`, resume after a crash | every stored secret stays readable |
| restore and schedules, `internal/backup` | staged archive, transaction directory, schedule rows | stage, approve, apply, recover, `RunDue` | an interrupted restore is completed or undone; a slot is archived once, and again only for a pass that was cut short |
| installer, `internal/install` | journal, state file, artifacts, access files, data contract | install, update, rollback, restore, restart, access and domain changes, uninstall, recovery of each | after an operation state, binary and data agree; recovery ends |
| firewall, shaper, sessions, tokens, settings, resellers, cleanup, telemetry, web, API rendering, i18n, client configuration | rows, rules and text | one transaction each, or rendering | see "Not modelled" |

Interactions. A handler commits, then calls `Attempt`, which calls the
coordinator, which calls the reconcile engine; the engine reads SQLite again.
The accounting job calls the same coordinator after a cycle that changed who is
in service. Cycles read the counters of the links the engine creates, so a
recreated link is a counter reset for the meter. Every change of an account
records an event in its own transaction; the webhook worker reads it later. The
scheduler's one goroutine runs accounting, repair, samples and housekeeping;
webhooks, egress probes and other slow work run on goroutines it only wakes. The
panel asks the helper for privileged work through files; the helper takes one
lock for updates and domain work, stops the panel, and works under the data
lease.

The hazards of this code, each at the line where it bites, are the `hazards` of
`PROJECT.json`. In short:

- *read, then write later*: `user.Update/SetStatus/Renew` save a whole row they
  read before their transaction; `Worker.Pass` writes results over rows that
  may have been requeued; `RunCycle` charges counters dumped earlier;
  `loadDesiredPeers` is three queries, not one snapshot; `DeleteReconciled` and
  `updatePoolsTx` work from rows others change; a due plan is listed before it
  is activated; a backup is advanced after its schedule may have been edited;
- *part of a sequence fails*: a backend command in the middle of a pass, one
  link of an egress apply, a flush after the accumulator was drained, the
  transaction that records posts already made, any step of an update;
- *the process dies between two steps* of each of these, or between two renames
  of a queue, a rotation or a restore;
- *waiting*: callers queue on the gate and may be cancelled; jobs queue on one
  goroutine; deliveries queue in a bounded batch; shutdown waits for workers
  with a deadline; byte locks never wait and the caller must give up all it has;
- *numbers*: 64-bit counters that reset, sums of two saturated counters, the
  next wall-clock slot of a schedule.

## 2. Modules

| module | models | runs in | proofs |
|---|---|---|---|
| `RuntimeContract` | what the coordinator promises, abstractly | `coordinator` (as a property) | refined in `CoordinatorProofs` |
| `Coordinator` | `runtimeapply.Coordinator`, its callers, the repair job, restarts | `MCCoordinator` | `CoordinatorProofs` |
| `Reconcile` | `reconcile.Engine.Run` against handlers, backend failures, crashes, reboots | `MCReconcile` | `ReconcileProofs` |
| `Feeder` | the resolver's feeder against queries and applies | `MCData` | `DataProofs` |
| `Metering` | the cycle of `accounting`, devices of one account, the counters | `MCData` | `DataProofs` |
| `Samples` | accumulator, flush and rollups | `MCData` | `DataProofs` |
| `Profiles` | profiles, pools, device addresses and links | `MCData` | `DataProofs` |
| `DataLease` | the byte locks, sessions and migrations | `MCData` | `DataLeaseProofs` |
| `KeyRotation` | keys and the rows under them | `MCData` | `DataLeaseProofs` |
| `UserLifecycle` | one account: `user.Service` and the account writes of `accounting` | `MCUserLifecycle` | `UserLifecycleProofs` |
| `Orders` | idempotency keys, purchases, top-ups, successor plans | `MCUserLifecycle` | `UserLifecycleProofs` |
| `Scheduler` | `scheduler.Scheduler` | `MCNode` | `NodeProofs` |
| `Node` | start, slow workers, `Shutdown` | `MCNode` | `NodeProofs` |
| `BackupSchedule` | scheduled backups by two processes | `MCNode` | `NodeProofs` |
| `Restore` | staged restore, apply, recovery, host command | `MCNode` | `NodeProofs` |
| `Webhook` | outbox, endpoints, `webhook.Worker.Pass` | `MCWebhook` | `WebhookProofs` |
| `Egress` | `routing.Manager` | `MCWebhook` | `WebhookProofs` |
| `UpdateQueue` | the maintenance queue and the helper's loop | `MCQueues` | `QueuesProofs` |
| `DomainQueue` | the domain queue, its handler and the helper's run | `MCQueues` | `QueuesProofs` |
| `Deployment` | the journalled operations of the installer | `MCQueues` | `QueuesProofs` |

An `MC` module puts the components that belong to one part of the system under
one next-state relation. It EXTENDS the components, so a theorem and a run speak
of the same definition of a property; only the further settings of `Reconcile`
are instances. Its variable `subject`, chosen in the initial state and
never changed, names the component a behaviour exercises; the variables of the
others keep their initial values. So one run explores the sum, not the product,
of the state spaces, an invariant of one component holds in the states of the
others because these are its initial ones, and weak or strong fairness of an
action of a component is what it is in the component alone. Where components
do interact the interaction is inside one module: passes of the coordinator with
commits and the repair job; a link's recreation as a counter reset of the meter;
profile deletion with the passes it asks for; the two helpers on one lock;
the resolver's applies with its feeder; the byte locks of every process.

Operators whose comment starts with *Variant* are deliberately wrong forms of
the definition after them: substituted for it, each makes TLC find a property
violated, which shows that the property depends on that piece of the code. No
specification uses them.

**Coordinator, RuntimeContract.** `pc[p]` is the place of a caller in `Run`; one
action per critical section: `Announce` (Desired++, pending, not ready), `Enter`
or `Cancel` (the select on gate and context), `Begin` (read the revision), `Read`
and `Apply` (the inner pass reads the database once, then makes the runtime
reflect it or fails), `Finish` (publish, release). `RepairTick` is
`jobRuntimeRepair`; `Restart` forgets the observation and does what
`Node.Start` does. The inner pass is abstracted to how many mutations it read;
ghosts count what was committed, announced and is live. `RuntimeContract` has no
gate, revision or caller: mutations are saved, somebody asks, the runtime
follows and never goes back, and "applied" is shown only while everything asked
for is live. The refinement mapping takes its four variables from the ghosts and
the published status.

**Reconcile.** The four queries of a pass are four actions; then per interface
`Dump`, one of `CreateLink`, `RecreateLink`, `ApplyConfig`, `KeepLink`, then
`SyncPeers` and `AckRetiredKeys`, or `RemoveInterface` for a disabled profile.
Between any two of them a handler may commit, a backend command may fail
(`Fail`: the error is recorded and the pass goes on with the next interface),
the process may die, the host may reboot, somebody may edit a link by hand. A
device row is its interface, its key and whether `desiredPeerWhere` selects it;
parameters are split into what `setconf` changes and what needs a new link.
The shaper and NAT hooks of a pass are left out.

**Feeder.** `Learn` is a query handler with an answer for a matched name: it
returns at once if the memory says the address is there, or queues it and waits.
`Receive`, `FlushOnTick`, `FlushRead`, `WriteAll` / `WriteOne` and `FlushRecord`
are the feeder's goroutine; `Configure`, `ReadInventory`, `ApplyTable`, `Forget`
the part of an apply that recreates the sets. Memory is written back only if the
generation did not change meanwhile.

**Metering.** `DumpInterface` copies the counters of some peers, `CommitCycle`
charges all that were observed, `AbortCycle` is a failed transaction. A cycle
observes a device only if its key is among those dumped. `ResetCounters` is
everything that sets counters back (link recreated, reboot, peer removed and
added). Ghost `flowed` is what a device really moved.

**Samples.** `Push` is a cycle's transaction with the push it makes inside: if it
rolls back, the accumulator keeps the amount. `Take` drains, `FlushSamples`
writes or loses the batch; `ResetSamples` commits and `ClearDevices` comes later.
`Prune` deletes any part of the samples, the hourly and the daily rollups, each by
a retention of its own; `Restart` loses the accumulator and a batch in flight.
Ghosts record what rolled back cycles add (`excess`), what each table's retention
removed (`aged`) and what reached no table (`lost`, one number for the three: they
are written in one transaction), so the property says that *nothing else* differs.
Buckets are left out, a device has one amount per table.

**Profiles.** A handler's request is read, transaction, pass under the gate,
answer. `Update` changes pools against the rows and devices it sees in its
transaction; `DeleteReconciled` disables, asks for a pass, checks the result,
deletes the row, or rolls back. `CreateClient` takes the first free address of
the first pool with one. Ghost `raced` marks a profile enabled again while it is
being deleted (section 6).

**DataLease.** One variable per byte; a process goes through the locks of
`Open`, `MigrateNode`, `LoadNodeKeyRing`, `RotateKey`, work, review and purge one
byte at a time, and a lock that is taken makes it close the file. Downgrading an
exclusive lock to a shared one is two steps, as in the code.

**KeyRotation.** Writing a key file is a durable step; storing a row is not until
a checkpoint. `Rotate`, `SwapKey`, `RotateField`, `VerifyRows`, `Checkpoint`,
`RemovePrevious`, `SyncKeyDirectory` are the steps of `Rotate`; `Abort` and
`PowerFailure` may come between any two, and the latter takes back rows, and the
removal of a file whose directory was not synced.

**UserLifecycle.** `Hold` is the read of a request, `Save` its later
transaction, which writes all columns but the usage. `Cycle` does what one
cycle does to one account, in the code's order: charge, activate, quota edge.
Byte counts are integers of width `MaxInt`, and sums the code does not saturate
wrap.

**Orders.** `Claim`, `Handle`, `Settle` are the three transactions of the API's
middleware, each of which a lost client or a failure may cut. A handler succeeds,
fails without an effect, or fails *late*: its transaction has committed and a read
for the answer fails, the key is released and a retry has a second effect (ghost
`late`). `Operate` is a purchase or top-up that records its result in its own
transaction. `ListDue` reads accounts whose plan is due, `ActivateNextPlan` runs
later, checks again, and sends a successor to review when the operator has changed
the plan or the devices do not fit. Around them the account lives: `Use` charges any
amount, past the limit too; `Edit` reads the whole row and changes plan, limit, time
or switch, `SaveEdit` writes that row later; `Correct` is a reset or correction of
the usage. Ghost `owed` follows paid, granted and used traffic by itself: usage
beyond the limit is written off when a successor starts, as the code does.

**Scheduler.** Times are relative to now, so unbounded time has finitely many
states. `Begin` and `Finish` are the two critical sections of `step`;
`SetOwnInterval` is the accounting job changing its own interval.

**Node.** What is open, how many handlers and jobs use it, and per slow worker
the place in its loop and the wake-up slot. `Shutdown` drains HTTP, the
scheduler, the workers; each drain may time out, and only a complete one closes
the database and the lease; a second call continues.

**BackupSchedule.** Time is counted in slots of half a day with weekdays, so that
`nextWallClock` can be compared with the first slot that fits. `RunDue` reads due
rows under a byte lock, `Create` archives, `Advance` writes the next run only to
a row nobody edited. Between the archive and the advance a pass may be cancelled
(`CreateCancelled`), fail its UPDATE (`AdvanceFails`) or die (`CrashRunner`); `cut`
counts these passes, each of which leaves the slot due again.

**Restore.** Files have contents (`Files`); `Protect` copies the originals into
the transaction, `ReplaceDb`, `ReplaceKey`, `RemoveWal`, `RemovePrevKey`,
`RemoveStage`, `RenamePrevious` are apply's steps, each of which may fail or be
the last before a crash; `PutBack`, `RecoverPair`, `DiscardStage`,
`ForgetTransaction` recover, called by a panel start or by the host command.

**Webhook.** There are several endpoints, and the secret of some cannot be read
until it is replaced. `next_attempt_at` is a position in a queue. `Select` is the query
and the decryption of secrets, `Deliver` one post (posts of a batch overlap),
`Record` the transaction at the end of the pass, which writes from what was
selected. `Crash` loses all results of a pass.

**Egress.** `StartApply` to `Finish` are `apply` under its mutex: load, remove
stale links, keep / adopt / create / sync each link, policy routes, resolver,
table; any step may fail and the rest goes on or stops as in the code. `ProbeAll`
retries what is due, repairs, probes, re-resolves and renders again if a health
changed. A crash loses memory; links and table stay, and are adopted.

**UpdateQueue, DomainQueue.** A step is one file operation. Calls of one process
exclude each other (a mutex), calls of the panel and the helper interleave at
every step. Both helpers contend for one lock. A panel that dies in a call is dead
until it is started again, and the file a cancellation had taken stays under a name
nobody looks at. In `DomainQueue` an import is a directory that ages and is swept
unless a request names it; a `Finish` that fails (`FinishFails`) leaves the running
file and removes the import all the same.

**Deployment.** The operations of `internal/install` (install, update, rollback,
restart, changes of exposure and domains, uninstall, and the recovery of each) as
sequences of journalled stages with what each stage changes. Left out are
`CleanupIncompleteInstall` and the install branch of `recoverTransaction` (an
interrupted install is taken over by an uninstall) and certificate renewals. An
artifact carries its version, the data contract recorded for it (0 when it could not
be read) and the access its frozen Compose was rendered for; the access files are the
policy (certificates, nginx), the boot configuration and what Compose mounts and
probes. `Fault` lets a step fail, `Dies` ends the process; recovery commands start
from journal, state and files alone. Once nothing is pending, `SettledAgrees` asks
that the files and the service agree and that the journal's last stage tells the
truth about the state file, with two exceptions the code makes: a rollback over a
change of access brings back the older Compose, and an install whose certificate is
pending removes the policy files. `RollbackSafe` asks that a rollback finds its
artifact and a restore a backup its build can read, and that no build runs on newer
data unless an older one was deployed where the installer refuses nothing (ghost
`older`). `RecoveryEnds` asks that a recovery is never at fault itself
(`RecoveryHolds`) and that it ends.

## 3. Runs

Run with `tlc -config <cfg> <module>` here. All bounds are constants named as
such in the modules.

| run | question | instance | distinct states |
|---|---|---|---|
| `coordinator` | is what the coordinator publishes true of the runtime, does it implement the contract with its fairness, does no pending state last? | 2 handlers, repair job, 2 commits, 2 faults | 147 k |
| `reconcile_pass` | does a successful pass leave the links as it read the database, are former keys never lost, foreign peers treated by the policy? | 1 profile with changing kind and parameters, 1 device with 2 keys, a foreign peer, policy report; or 2 profiles; or policy remove; 1 fault | 2.0 M |
| `data` | is usage never overcharged and exact without resets; are samples accounted for; addresses and links sound; exclusive holders alone; secrets readable; does the feeder's memory tell the truth? | meter: 2 devices, 2 keys, 3 bytes; samples: 2 devices, 3 bytes; profiles: 2 profiles, 2 clients, 2 handlers, 3 calls, 1 failed pass; lease: 2 processes, 2 keys; rotation: 3 rows, 3 key ids, 2 failures; feeder: 2 sets, queue 1, batch 2, memory 1, 2 applies, 1 fault | 1.8 M |
| `lifecycle` | does the status agree with the dates, do blocked accounts leave service, has a key one effect but for late errors, is the allowance conserved, are plans replaced once, at the boundary, on the plan they were queued for? | account: 1 stale request, 2 ticks, a limit of 1 byte; API: 1 key, 1 body, 2 clients, 1 late error, 1 window; plans: 2 plans, 2 authorizations, 3 units (1 beyond a limit of 2), 1 hour | 976 k |
| `webhook` | do "delivered" and resends mean what they say, does every delivery settle while no unreadable secret clogs the batch; does the kernel agree with the egress manager's record and does it converge? | 1 event, 2 endpoints, one with an unreadable secret, batch of 1, limits 1 and 2, 1 redelivery, 1 fault; 1 outbound with 2 identities and 2 endpoints, 2 edits, 1 fault, 2 health flips | 404 k |
| `queues` | is a request worked once, canceled ones not, does every accepted one end with a record but for the named races; are imports kept and renewals continued; do state, build and data agree after every operation, and does recovery end? | 2 requests, 1 crash; 2 requests, 1 import, 1 crash; nothing installed, or an installation updated and then given other access; 3 versions, the last with new data, 6 artifacts, 2 operations, 2 faults | 332 k |
| `node` | are starts an interval apart, late by a bound, never starved; is the database closed only when unused; are slots archived once but for passes cut short; is a restore whole or undone, and does the node open again? | 3 jobs, intervals 1 and 2; 2 workers, 2 handlers, 2 shutdowns; 2 runners, 4 slots, 2 edits, 1 busy archive, 2 passes cut short; 2 stages, 1 write, 2 faults | 218 k |
| `reconcile_ack_race`, `meter_reset_rebaseline`, `lifecycle_activation`, `webhook_starved`, `domains_recover` | the findings of section 6 | | violated |

Every module but the MC modules has a type invariant
(`TypeOK`, or prefixed with the module's letter). They hold on these instances;
the configurations list the properties above only.

Why the bounds are enough for what they are meant to show. Two handlers and a
repair job reach every order of two passes on one gate; a third handler only
repeats one of them. One device with two keys has a former and a current key;
two profiles give a pass a first and a second interface. Two devices of one
account are what a sum can get wrong; three bytes allow a baseline, a reset and
a counter that passes the baseline again. One stale request is enough to
overwrite any other transaction; usage there stays below the point where int64
sums wrap (section 6). Two clients of one key meet in every order; two plans give a
successor a plan it was not queued for, two authorizations one that was replaced.
A batch of one with deliveries to two endpoints is the smallest backlog in which
one endpoint can block another. Two processes are enough for a byte lock, since a
lock relates two. Three rows let a rotation die before, between and after; two
failures let a resumed rotation die again, and so for restores. Three versions
give an update something to roll back to and data the older build cannot read; two
operations let one meet what the one before left, and the second initial state
stands for an update and a change of access made before, so that a rollback meets
both. Where a theorem exists (section 5) the bounds do not matter for safety.
Model values that are interchangeable are symmetric in runs that check safety
only.

Deadlock is checked in `reconcile_pass`, `data`, `lifecycle` and `queues`; where
a bound ends a behaviour an explicit stuttering step says which (`AtBound`,
`OutOfOps`). The others really stop: the coordinator and the webhook worker when
commits and events are used up, the scheduler and the node when stopped; there
liveness properties say what must have happened.

## 4. Fairness

- *Coordinator*: a goroutine that can run does; waiters on the gate channel are
  served in order (strong fairness of `Enter`: the gate is taken and released
  again and again); the repair job is called every 15 seconds. `serve` registers
  that job only if there is a userspace backend or a policy probe: on a node
  with neither, liveness after a failed pass rests on the next handler or on a
  restart, and the leads-to properties do not apply. Faults are bounded,
  because nothing can be promised while every pass fails.
- *UserLifecycle*: `jobAccounting` runs a cycle and an expiry pass every
  interval: weak fairness of both. Requests have none.
- *Scheduler*: time passes, jobs return (they honour their context), the loop
  goes round.
- *Node*: a wake-up is repeated by every tick of the scheduler (strong fairness
  of `WakeUp`: a worker in its loop disables it for a while); workers, jobs,
  handlers already running, and a started shutdown go on.
- *Webhook*: passes are started every few seconds, a post ends by its timeout,
  a backoff ends. Nothing is assumed of receivers.
- *Egress*: a started apply and health pass go on, the scheduler starts health
  passes, a crashed panel is started again by systemd; a pass that finds a retry
  due again and again makes it (`SF` of `PassRetries`).
- *UpdateQueue, DomainQueue*: a panel call ends, systemd starts the helper again
  and again, its run ends, and the other helper lets go of the lock; an announced
  window opens. Taking the lock has strong fairness, and that is an assumption:
  a helper that finds the lock held ends with an error, and nothing in the code
  orders the two helpers, so one could meet the other at every attempt. The
  hazard is listed without a property for this reason.
- *BackupSchedule*: a runner that started goes on. *Restore*: whoever is inside
  goes on, and the service manager starts a stopped panel again.
- *Deployment*: an operation that runs goes on; the operator keeps running the
  recovery command the error message names (`SF`). Without an operator nothing
  recovers, as in the code.

No fairness is assumed of handlers, receivers, new requests or faults.

## 5. Theorems

All proofs are inductive: `Init => IInv`, `IInv /\ [Next]_vars => IInv'`,
`IInv => property`, with one step per action. Constants are only assumed to be
what the `ASSUME`s say (naturals, non-empty, distinct null values), which TLC
evaluates in every run that extends the module. The interesting part of each
argument is the strengthening; the types it also contains are not repeated here.

*Coordinator* (any callers, commits and faults)

- `AppliedIsLive`, `OutcomeIsHonest`, `RuntimeNeverFallsBack`, `ReadyIsApplied`.
  The properties speak of the last published state only; the strengthening says
  that one process holds the gate, that what a pass has read covers its own
  announcement and everything live, and that it covers every announcement as long
  as its revision is still Desired. `ReadyIsApplied` is inductive as it stands:
  every place that stores readiness publishes a status in the same step.
- `ContractKept`: the coordinator implements `RuntimeContract`. Every action maps
  to one of its actions or to a stutter; the same strengthening gives the guards
  of `Follow` and `Show`. The fair form, `FairContract`, is checked by TLC
  (`KeepsPromises`).

*Reconcile* (any profiles, devices, keys, policies, passes, failures, reboots)

- `KeysStayTracked`: what a pass will put on a link is on file, that is the desired
  keys and the peers it has seen and may hand back (`DesiredOnFile`, `SeenOnFile`);
  nobody adds a key of the node to a link behind the pass (`LinkSeen`), so a retired
  key it did not see is gone when it acknowledges it (`AckReady`); a key it read as
  desired *and* as retired has been noted (`TornNoted`) and is the exception
  (section 6).
- `GoodPassesApply`: in a pass without error, on links nobody edits, every interface
  it is done with is as it read it (`Treated`) and the one it is at is half way
  there (`HalfWay`).
- `ForeignPeersAreKept`, an action property: an effect of each step on the link is
  derived from the invariant.

*Accounts* (any number of stale requests, amounts, keys, disconnects)

- `ExpiredIsHonest` (UserLifecycle). The invariant holds of the
  row in the database *and of every row a request still holds*, since a save may
  bring any of them back; `now` only grows, so a held expired row stays expired.
- `KeysActOnce` (Orders): a key is held by one request from the claim of its row to
  the end of the request, and before its handler has run every effect of the key was
  answered with an error (`KeyHeld`: `commits = late`); an operation has had an effect
  only if its result is on record.
- `TrafficStaysConserved`, `PlansEndFirst` (Orders; any plans, amounts, edits and
  authorizations). The invariant adds that a queued authorization has not been applied
  and a later one neither (`Unapplied`), which gives "once"; `CarriedIsOwed` shows that
  what a successor carries, from limit and usage, is what is owed when the quota is not
  used up, and that nothing positive is owed when it is. The rest of `PlansEndFirst`
  is about one transaction, `activateNextPlanTx`, which reads the row again and never
  trusts the list made before.

*Metering, samples, feeder* (`DataProofs`; any devices, keys, sets, traffic)

- `ChargesAreSound`. That nobody is overcharged is not inductive by itself: a cycle
  adds `delta`. `Room` says that whatever a dump taken now would add has flowed,
  and, with a dump in flight, that what its commit *and then* the next dump would
  add has flowed too. This is what makes counters dumped before a reset and
  charged after it harmless. `Levelled` is the equality that holds until the first
  reset, and gives exactness.
- `LedgerStaysBalanced` (any finite set of devices). The sum over the devices,
  `SumOver`, is a fold, so two facts about it come first: a sum of counters is a
  counter, and adding to every device adds the sum of what was added (`SumAdds`).
  They are proved without an induction scheme: `SetInduction` gets induction over
  a *set* of naturals from its least counterexample (`LeastNatural`), and
  `SubsetInduction` carries it to sets of devices by the element the fold takes
  next. With them a cycle charges account and devices alike, a deletion moves a
  device's charges to those of the deleted ones, and a reset clears both sides.
- `SamplesStayAccounted`: memory, batch in flight and each table of a device add up
  to its charges with the ghosts of what failures add or lose and retention removes;
  the strengthening is that between flushes there is no batch (`NoBatch`).
- `KnownStaysPresent`: what is remembered, and what a flush has written, stays in the
  kernel's set for a full timeout after its time, unless the generation has moved or
  the apply in progress has created the set anew and will say so (`MemoryHolds`).
- `ProfilesStaySound` (Profiles, any profiles, pools, clients, handlers, failed
  passes): pools of two profiles are disjoint (`Disjoint`) and a new address is
  the first free one of a pool its profile owns, so addresses stay unique; an id is
  not used again (`OldIds`); a profile a deletion has switched off stays off, and is
  seen off by the pass the deletion asked for, unless it was raced (`Off`), so no
  link outlives its row. That `Free` finds a free address is proved of its
  definition.

*Data lease, key rotation* (any processes, rows, keys and failures)

- `ExclusiveIsAlone`, `LeaseIsSound`. What a process does next is bound to what it
  holds: an exclusive holder, and whoever is between releasing byte 1 and taking
  it in another mode, holds admission; the guard of a purge holds every byte; a
  caller admitted because there was a key file still finds it. The only
  assumption is that "nobody" is not a process.
- `SecretsStayReadable`: where `Rotate` is tells which of predecessor, key, rows and
  checkpoint are done, and a removed predecessor that a power failure may bring
  back belongs to rows that do not need it.

*Node* (`NodeProofs`)

- `RunsStartApart` (Scheduler, any jobs and intervals): for a queued job the
  time since its last start plus the time to its next run is at least its
  interval, and a run in progress is as old as its start.
- `LatenessStaysBounded` (Scheduler): what a due job has waited, plus one longest run
  for every job that may still go before it (`Ahead`), stays below one longest run
  per job. The run in progress counts only for jobs that were due when it began:
  a job that becomes due later is later in the heap than those already due.
- `DataClosedLast` (Node, any workers and handlers): the place in `Shutdown` tells
  what has been drained, and only a call that met no error knows that the handlers
  are gone (`StopOrder`); without its database the node neither listens nor
  schedules (`NoNewUse`).
- `BackupsComeOnTime` (BackupSchedule, any runners, edits and crashes): byte 4 keeps
  other runners out, so the row a runner works on differs from the one on file only
  if the panel edited it, and every edit leaves a new stamp (`ReadOrEdited`). The slot
  that is due has been archived at most once for every pass cut short, and once more
  while a runner is about to advance it (`Counted`). That
  `nextWallClock` is the *first* slot that fits is proved of its definition.
- `RestoresAreSound` (Restore, any stages, writes and faults): where
  apply or recovery is tells which files it has reached (`Reached`), who may be inside
  (`OneInside`) and where the stage is (`OnePlace`); a crash anywhere leaves a
  transaction from which these can be told again.

*Webhook* (any batch size and number of faults)

- `DeliveredIsHonest`, `DeadIsHonest`: a success not yet recorded was accepted;
  attempts stored, and those a pass is about to store, are bounded by posts that
  really failed; a pass uses a limit the setting had.
- `ResentWithCause`: a cause (a lost answer, a lost pass, a request to redeliver) is
  spent by the post it explains: a delivery that may be posted again without a
  further cause was accepted no more often than it has causes (`Credit`).

*Egress* (`WebhookProofs`; any outbounds, edits, faults and health flips)

- `KernelStaysAgreed`: a link's record names the identity the link really has, and
  what is redirected or routed is served, unless the table failed. Where an apply
  is tells what it knows (`ApplyKnows`): it writes a redirect only while the
  resolver listens and no route to a link that failed; an idle manager has left no
  redirect behind (`IdleIsClean`), so a resolver may be stopped then.

*Queues* (`QueuesProofs`; any number of requests, imports and crashes)

- `QueueWorkIsSound` (UpdateQueue). The conjuncts relate the files of the mailbox,
  what a panel call has scanned and where the helper is: an id about to be
  published is in no file and was never run (`Fresh`); an operation is in one file
  but for a promotion's two (`Apart`); what can still be claimed has not been
  started (`Unstarted`); as long as no helper died, scan and promotion keep out of
  each other's way (`Orderly`) and the newest operation, once canceled, cannot be
  claimed any more (`CanceledGone`). The proof describes each action by what it does
  to the flat fields of these records and shows the invariant from that alone.
- `DomainWorkIsSound` (DomainQueue): a request that can still be claimed has not been
  worked on, and what the sweep has looked up stays true until it removes the
  directory, because request.json is read first and a request leaves it only for
  running.json (`DSwept`).

*Installation* (`QueuesProofs`; any builds with two data contracts, any number of
operations, failed steps and deaths; the assumptions are that versions are integers,
1 is one of them, and "absent" is neither a version nor a record of access files)

- `SettledStaysAgreed`, `RollbackStaysSafe` (Deployment). The invariant has two
  halves. `OnDisk` is about the files alone and is what a process that dies leaves
  to the recovery commands: closed journals belong to an installation in one piece
  (`Settled`, `Whole`, with the exceptions of `SettledAgrees`: policy files removed, or
  Compose of the artifact's access), and for an open one the journal's operation says what can be
  relied on. For an update or rollback (`Swapping`): both artifacts are there, a
  journal that is only prepared has changed nothing, a later one has marked the
  data as changed, and a build with another contract has its backup, which the
  predecessor can read. Builds fit the data as long as no older one was deployed
  unrefused (`Fits`). For an access change (`Changing`): the build is untouched
  and a snapshot, where there is one, is of the access before. The second half,
  `Here`, says for each of the installer's places what has been done by then
  (`SwapDone`, `ChangeDone`, `AtInstall`...) and that the process and the file agree
  on the journal (`Linked`). Every step is one of ten kinds (a stage saved, a state
  file saved, a service stopped or started...); the lemmas describe each kind by
  what it changes, once, and each operation is then taken place by place. Artifact
  IDs only grow, so an update that is given up cannot remove an artifact the state
  names (`Aged`).
  That the journal's last word is true is proved on top of it: `Told` says so of a
  closed journal, and `Knows` that a restart is for the state there is, that an
  installation found none and that a removal leaves none. The rest is that a journal
  is closed only at places where its stage is true of the state file (`Ends`).
- `RecoveriesHold` (Deployment), the safety half of `RecoveryEnds`: a step of a
  recovery in which nothing fails stays on the way to the end, closes the journal or
  asks for the backup. The artifact it goes back to is there by `Swapping`; for the
  snapshot of an exposure change the invariant is strengthened by `Retained`: a
  change past its first stage has one, since it is taken while the journal is still
  prepared and dropped only after the journal is closed, or before anything was
  announced. Domain changes are excepted because the code does not keep this for
  them (section 6).

Only model-checked:

- liveness: `KeepsPromises` (its fair part), `OverQuotaStops`, `DueStops`,
  `DeliveriesSettle`, `Converges`, `WorkGoesOn`, `NodeOpensAgain`, `Settles`,
  `KeepsRenewing`, `RecoveryEnds` (the half of it that says a recovery ends at
  all). Fairness and `ENABLED` are out of the prover's reach;
- the five violated properties of section 6, which are false.

## 6. Where the code and its comments disagree

Each has a run whose counterexample shows it; `PROJECT.json` quotes the lines.

1. `reconcile_ack_race`: a device deleted between the first and the third query
   of `loadDesiredPeers` is both desired and retired for that pass; its peer is
   added and its retired key acknowledged. The peer then counts as foreign.
   `FormerKeysTracked` excepts such keys (ghost `torn`).
2. `meter_reset_rebaseline`: a counter reset on an idle device is not stored, so
   the first bytes after it are never charged.
3. `lifecycle_activation`: a stale save clears `activated_at` and the
   subscription starts a second time, with a later end.
4. `webhook_starved`: deliveries of an endpoint whose secret does not decrypt
   are skipped and never leave the head of the queue.
5. `domains_recover`: a domain change that dies before its snapshot is complete
   cannot be recovered: every recovery stops the panel and fails.

Noted while modelling, without a run of their own. The models take the steps the
code takes in each of them, unless the entry says otherwise, and where a property
excepts one its comment says so.

- Accounts: `addTraffic` saturates rx and tx but their sum wraps
  (`internal/accounting/accounting.go:917`); `ResetTraffic`, `addTraffic` and
  `SetTraffic` erase `disable_reason` of an account disabled for another reason
  (`:646`, `:855`). A client that disconnects leaves its idempotency key "in
  progress" for 24 hours (`internal/api/idempotency.go:29`). A handler that commits
  and then fails to read the account back answers with an error
  (`internal/api/handlers_users.go:289-298`), the key is released
  (`internal/api/idempotency.go:112`) and the retry adds the traffic again, while
  its comment (`:20-21`) promises that retries "never duplicate effects" (ghost
  `late`). A
  stale whole-row save overwrites a top-up or a successor committed in between
  (`internal/user/user.go:592`); `TrafficConserved` counts the limit that is saved.
- Webhooks: a delivery requeued while it is in flight is overwritten by the
  running pass (`internal/webhook/worker.go:229`), although the handler's comment
  says the worker picks it up on the next pass (`internal/webhook/webhook.go:579`).
- Scheduler: the next run is one interval after the *start* of a run
  (`internal/scheduler/scheduler.go:263`), while the package comment (`:9-13`) and
  `internal/serve/serve.go:841` say after its finish: a job longer than its interval
  is due again as soon as it returns. `StartsApart` states the distance the code
  keeps, from start to start.
- Backup schedules: a pass cancelled after it published its archive, or whose UPDATE
  fails, leaves the slot due and it is archived again
  (`internal/backup/schedule.go:280-282`, `:305-310`), in line with "at-least-once"
  (`:241`).
- Profiles: one enabled again while `DeleteReconciled` runs, by an update that
  carries the old flag or by the rollback of a second deletion, leaves a live
  link without a row (`internal/iface/iface.go:974`).
- Egress: a health flip is dropped when the pass meets its deadline
  (`internal/egress/routing/manager.go:859`); a drain uses the health read when
  the status was built; an empty snapshot with a stale link that cannot be removed
  makes the manager idle and the link stays; `Resolver.Configure` stops listeners
  before the redirect is removed, and if the table then fails DNS goes nowhere
  (`RenderedIsServed` excepts table errors).
- Update queue: a cancellation that loses the race to a promotion may report
  success and the update still runs (`internal/updatequeue/records.go:256`, `:288`;
  `CancelHolds` excepts every case in which a helper died or a newer operation was
  drawn, which is more than this race). `PromoteDue` and `Cancel` read a file and
  then rename whatever has its name by then (`records.go:242-262`, `:296-311`): a
  newer operation that took the name leaves the queue without a record. So does one
  whose `Cancel` dies with the panel, and a request that arrives between the two
  writes of a `Claim` whose second fails, since `Claim` renames its own request over
  it (`queue.go:225`). `Overtaken` names these four; `Settles` excepts them and
  nothing else but `Wedged`: clearing an expired active file races the promotion
  and wedges the queue until the file is removed. A panel that dies after scheduling
  shows "scheduled" for ever. Panel and
  helper may both be inside `archive`, which reads and rewrites the history, and one
  of the records is then lost: an archive is one step in the model, so `Settles` says
  that the record is written.
- Domain queue: a request nobody claims blocks new requests and renewals until
  the helper runs; when `Finish` fails the staged import is removed although the
  running file still names it (`cmd/wg-guard/domains.go:133-136`).
- Restore: a failure between approval and the transaction makes every retry
  refuse, which `docs/operations/backup-restore.md:399` does not say (`Stuck`); a
  crash inside `RemoveAll` leaves half a directory that blocks starts. Rotation: a
  crash between writing the predecessor and the key makes the resumed rotation
  report success with the key unchanged.
- Installer: an older build installed over data an uninstall kept is not refused, nor
  an update of a build whose data contract could not be read
  (`internal/install/update.go:249`, `:306`; ghost `older`). A rollback over a change
  of access deploys the Compose frozen with the artifact, with the mounts and the
  probe of the access before (`update.go:484-492`). An install whose certificate is
  pending completes its journal and its deferred cleanups then remove the policy
  files the state names (`internal/install/run.go:512-520`, `:352-383`). A domain change that fails
  before activation removes its snapshot even if saving "aborted" failed; a
  certificate renewal is marked "rolled-back" even when restoring failed.

## 7. Not modelled, and what is left

- *Firewall, shaper, NAT, rule and route rendering*: pure functions from rows to
  text for external programs, run from the passes that are modelled. What can go
  wrong in them is what their tests compare.
- *Sessions, tokens, administrators, resellers, settings*: rows read or written in
  one transaction. The one place with state of its own is the cache of
  `internal/settings`, which guards against a slow read that would bring an old
  value back; it is listed below.
- *Cleanup and telemetry*: bounded deletion of old rows and sampling of the host.
- *Web and API handlers, i18n, client configuration, QR codes, archive format,
  templates*: request parsing, formatting and cryptographic containers. These
  are most of the implementation's lines (the message catalogs, page handlers
  and command-line output alone are more than the modelled parts), which is why
  the map covers the core packages well and the whole repository thinly.
- *External programs* (`wg`, `ip`, `nft`, `systemctl`, Docker, nginx, certbot)
  are modelled from how the code uses them: a command does its work or fails.

Left to do, in this order: the certificate renewal as one more operation of
`Deployment`; sessions and the settings cache.
