---------------------------- MODULE Coordinator ----------------------------
(***************************************************************************)
(* internal/runtimeapply: the coordinator that serialises the application  *)
(* of the desired state in SQLite to the node's runtime.                   *)
(*                                                                         *)
(* A caller (a web or API handler after its commit, the accounting job, or *)
(* the runtime-repair job) announces itself by bumping Desired, waits for  *)
(* the gate or for its context to end, reads the revision it is about to   *)
(* apply, runs the inner pass and publishes the outcome.  The content of   *)
(* the inner pass is the subject of module Reconcile; here it reads how    *)
(* many mutations are durable, once, and makes the runtime reflect them.   *)
(***************************************************************************)
EXTENDS Naturals, FiniteSets

CONSTANTS Callers,    \* request goroutines and the accounting job
          Repair,     \* the runtime-repair job of the scheduler goroutine
          MaxCommits, \* bound: durable mutations
          MaxFaults   \* bound: failed passes, unhealthy probes, restarts

ASSUME RepairAssumption == Repair \notin Callers
ASSUME BoundsAssumption == MaxCommits \in Nat /\ MaxFaults \in Nat

Procs == Callers \cup {Repair}
Statuses == {"not_configured", "pending", "applied"}

\* idle       no request
\* committed  about to call Run (a handler: its mutation is durable)
\* waiting    announced, blocked on the gate
\* entered    gate held, context about to be checked a second time
\* begun      revision read and InFlight set, inner.Run has read nothing yet
\* read       inner.Run has read the database
\* done       inner.Run returned, outcome not published
PCs == {"idle", "committed", "waiting", "entered", "begun", "read", "done"}
Holding == {"entered", "begun", "read", "done"}

VARIABLES desired,      \* Observation.Desired
          applied,      \* Observation.Applied
          status,       \* Observation.Status
          inFlight,     \* Observation.InFlight
          networkReady, \* Node.networkReady, stored by the ready callback
          pc,           \* pc[p]: where p is in Run
          revision,     \* revision[p]: local variable of p's Run
          outcome,      \* outcome[p]: p's inner.Run returned no error
          commits,      \* durable mutations so far
          announced,    \* ghost: announced[p] = commits at p's last announcement
          promised,     \* ghost: commits at anybody's last announcement
          snap,         \* ghost: snap[p] = commits p's inner pass has read
          live,         \* ghost: mutations the runtime reflects
          faults        \* faults injected so far

obs == <<desired, applied, status, inFlight, networkReady>>
ghosts == <<announced, promised, snap, live>>
vars == <<desired, applied, status, inFlight, networkReady, pc, revision,
          outcome, commits, announced, promised, snap, live, faults>>

TypeOK ==
  /\ desired \in Nat
  /\ applied \in Nat
  /\ status \in Statuses
  /\ inFlight \in BOOLEAN
  /\ networkReady \in BOOLEAN
  /\ pc \in [Procs -> PCs]
  /\ revision \in [Procs -> Nat]
  /\ outcome \in [Procs -> BOOLEAN]
  /\ commits \in Nat
  /\ announced \in [Procs -> Nat]
  /\ promised \in Nat
  /\ snap \in [Procs -> Nat]
  /\ live \in Nat
  /\ faults \in Nat

Init ==
  /\ desired = 0 /\ applied = 0
  /\ status = "not_configured"
  /\ inFlight = FALSE
  /\ networkReady = TRUE
  /\ pc = [p \in Procs |-> "idle"]
  /\ revision = [p \in Procs |-> 0]
  /\ outcome = [p \in Procs |-> FALSE]
  /\ commits = 0
  /\ announced = [p \in Procs |-> 0]
  /\ promised = 0
  /\ snap = [p \in Procs |-> 0]
  /\ live = 0
  /\ faults = 0

Goto(p, l) == pc' = [pc EXCEPT ![p] = l]

GateFree == \A p \in Procs : pc[p] \notin Holding

-----------------------------------------------------------------------------
(* The callers.                                                            *)

\* A handler's transaction commits; runtimeapply.Attempt has not called Run.
Commit(c) ==
  /\ pc[c] = "idle"
  /\ commits < MaxCommits
  /\ commits' = commits + 1
  /\ Goto(c, "committed")
  /\ UNCHANGED <<obs, revision, outcome, ghosts, faults>>

\* jobRuntimeRepair: runs a pass when the node is not ready, or when the
\* policy probe fails, in which case it clears the flag itself first.
RepairTick(unhealthy) ==
  /\ pc[Repair] = "idle"
  /\ unhealthy => faults < MaxFaults
  /\ ~networkReady \/ unhealthy
  /\ networkReady' = IF unhealthy THEN FALSE ELSE networkReady
  /\ faults' = IF unhealthy THEN faults + 1 ELSE faults
  /\ Goto(Repair, "committed")
  /\ UNCHANGED <<desired, applied, status, inFlight, revision, outcome,
                 commits, ghosts>>

-----------------------------------------------------------------------------
(* Coordinator.Run.                                                        *)

\* Variant used to test the properties: ready(false) is forgotten.
AnnounceKeepsReady(p) ==
  /\ pc[p] = "committed"
  /\ desired' = desired + 1
  /\ status' = "pending"
  /\ announced' = [announced EXCEPT ![p] = commits]
  /\ promised' = commits
  /\ Goto(p, "waiting")
  /\ UNCHANGED <<applied, inFlight, networkReady, revision, outcome, commits,
                 snap, live, faults>>

\* First critical section: Desired++, Status = Pending, ready(false).
Announce(p) ==
  /\ pc[p] = "committed"
  /\ desired' = desired + 1
  /\ status' = "pending"
  /\ networkReady' = FALSE
  /\ announced' = [announced EXCEPT ![p] = commits]
  /\ promised' = commits
  /\ Goto(p, "waiting")
  /\ UNCHANGED <<applied, inFlight, revision, outcome, commits, snap, live,
                 faults>>

\* The select chose ctx.Done(), or ctx.Err() was set once the gate was held
\* (the deferred receive then releases it).  The scheduler's context is not
\* cancelled while the node runs, so only handlers are cancelled.
Cancel(c) ==
  /\ pc[c] \in {"waiting", "entered"}
  /\ Goto(c, "idle")
  /\ UNCHANGED <<obs, revision, outcome, commits, ghosts, faults>>

\* Variant: the gate is not taken, passes overlap.
EnterWithoutGate(p) ==
  /\ pc[p] = "waiting"
  /\ Goto(p, "entered")
  /\ UNCHANGED <<obs, revision, outcome, commits, ghosts, faults>>

\* The select chose the gate.
Enter(p) ==
  /\ pc[p] = "waiting"
  /\ GateFree
  /\ Goto(p, "entered")
  /\ UNCHANGED <<obs, revision, outcome, commits, ghosts, faults>>

\* revision := c.last.Desired, then InFlight = true.  The two critical
\* sections are one step: nothing reads InFlight to decide anything.
Begin(p) ==
  /\ pc[p] = "entered"
  /\ revision' = [revision EXCEPT ![p] = desired]
  /\ inFlight' = TRUE
  /\ Goto(p, "begun")
  /\ UNCHANGED <<desired, applied, status, networkReady, outcome, commits,
                 ghosts, faults>>

\* inner.Run loads the desired state.
Read(p) ==
  /\ pc[p] = "begun"
  /\ snap' = [snap EXCEPT ![p] = commits]
  /\ Goto(p, "read")
  /\ UNCHANGED <<obs, revision, outcome, commits, announced, promised, live,
                 faults>>

\* inner.Run applied what it had read, completely or not.
Apply(p, ok) ==
  /\ pc[p] = "read"
  /\ ok \/ faults < MaxFaults
  /\ outcome' = [outcome EXCEPT ![p] = ok]
  /\ live' = IF ok THEN snap[p] ELSE live
  /\ faults' = IF ok THEN faults ELSE faults + 1
  /\ Goto(p, "done")
  /\ UNCHANGED <<obs, revision, commits, announced, promised, snap>>

\* Variant: any good pass counts as Applied.
FinishAnyRevision(p) ==
  /\ pc[p] = "done"
  /\ inFlight' = FALSE
  /\ applied' = IF outcome[p] THEN revision[p] ELSE applied
  /\ status' = IF outcome[p] THEN "applied" ELSE "pending"
  /\ networkReady' = outcome[p]
  /\ Goto(p, "idle")
  /\ UNCHANGED <<desired, revision, outcome, commits, ghosts, faults>>

\* Last critical section and the deferred release of the gate.  A good pass
\* counts as Applied only if nobody announced since its revision was read.
Finish(p) ==
  /\ pc[p] = "done"
  /\ inFlight' = FALSE
  /\ applied' = IF outcome[p] THEN revision[p] ELSE applied
  /\ LET good == outcome[p] /\ desired = revision[p]
     IN  /\ status' = IF good THEN "applied" ELSE "pending"
         /\ networkReady' = good
  /\ Goto(p, "idle")
  /\ UNCHANGED <<desired, revision, outcome, commits, ghosts, faults>>

-----------------------------------------------------------------------------
\* The process dies and starts again: the observation and every caller are
\* gone, boot.BringUp runs one pass before the coordinator exists, and its
\* outcome is stored in networkReady.
Restart(ok) ==
  /\ faults < MaxFaults
  /\ faults' = faults + 1
  /\ desired' = 0 /\ applied' = 0
  /\ status' = "not_configured"
  /\ inFlight' = FALSE
  /\ networkReady' = ok
  /\ pc' = [p \in Procs |-> "idle"]
  /\ revision' = [p \in Procs |-> 0]
  /\ outcome' = [p \in Procs |-> FALSE]
  /\ announced' = [p \in Procs |-> 0]
  /\ promised' = 0
  /\ snap' = [p \in Procs |-> 0]
  /\ live' = IF ok THEN commits ELSE live
  /\ UNCHANGED commits

\* The steps of Run that p takes once its call has begun.
RunStep(p) ==
  \/ Announce(p) \/ Enter(p) \/ Begin(p) \/ Read(p) \/ Finish(p)
  \/ \E ok \in BOOLEAN : Apply(p, ok)

Next ==
  \/ \E c \in Callers : Commit(c) \/ Cancel(c)
  \/ \E u \in BOOLEAN : RepairTick(u)
  \/ \E p \in Procs : RunStep(p)
  \/ \E ok \in BOOLEAN : Restart(ok)

\* Goroutines that are not blocked run; the scheduler calls the repair job
\* every 15 seconds.  The gate is a channel: waiters queue first in first
\* out, so a waiter for whom the gate is free again and again gets it.
Fairness ==
  /\ \A p \in Procs : WF_vars(RunStep(p)) /\ SF_vars(Enter(p))
  /\ WF_vars(RepairTick(FALSE))

Spec == Init /\ [][Next]_vars
FairSpec == Spec /\ Fairness

-----------------------------------------------------------------------------
(* Properties.                                                             *)

\* "applied" is never a stale claim: whenever Snapshot reports Applied, the
\* runtime reflects every mutation announced to Run so far, also those whose
\* caller gave up waiting.
AppliedMeansLive == status = "applied" => live >= promised

\* The readiness flag never outruns the observation: once a pass has been
\* requested, the node is ready only when the last announced revision is
\* applied (Run's ready callback against the repair job's own store).
ReadyMeansApplied ==
  networkReady => status = "applied" \/ (status = "not_configured" /\ desired = 0)

\* An older pass never overwrites a newer one: what a handler is told
\* (Attempt's Applied, from its own report) is true of the runtime.
OutcomeHonest ==
  \A p \in Procs : pc[p] = "done" /\ outcome[p] => live >= announced[p]

\* The runtime never falls back behind a state it already reflected.
NeverFallsBack == [][live' >= live]_vars

\* Coordinator.Run keeps the contract of its package: what it publishes as
\* "applied" and the runtime it drives behave like RuntimeContract, whatever
\* callers are cancelled, passes fail or processes restart.
C == INSTANCE RuntimeContract WITH durable <- commits, owed <- promised,
                                   shown <- (status = "applied")
KeepsContract == C!Contract

\* The same with its liveness: no durable mutation is forgotten.  Cancelled
\* waiters, failed passes and restarts between commit and Run only delay it,
\* because a pending revision keeps networkReady false and the repair job
\* runs until it is applied.
KeepsFairContract == C!FairContract

\* A pending observation does not last.
PendingResolves == status = "pending" ~> status # "pending"

\* Both of what Run owes its callers in the end.
KeepsPromises == KeepsFairContract /\ PendingResolves

=============================================================================
