------------------------------ MODULE Webhook ------------------------------
(***************************************************************************)
(* internal/webhook: the outbox of events and the delivery worker.         *)
(*                                                                         *)
(* A transaction that changes state records the event and one pending      *)
(* delivery per enabled endpoint.  A pass of the worker selects a bounded  *)
(* batch of due deliveries, posts each one outside any transaction, and    *)
(* records every result in one transaction at the end.  Endpoints are      *)
(* paused, deleted and given new secrets, deliveries requeued and pruned   *)
(* at any moment of the pass; answers get lost; the process may die.       *)
(*                                                                         *)
(* Abstraction: next_attempt_at is a position.  queue holds the pending    *)
(* deliveries that are due, in that order, and a delivery in backoff joins *)
(* it later.  Whether an endpoint is enabled stands for the whole filter   *)
(* of the query, the reseller scope included.                              *)
(***************************************************************************)
EXTENDS Naturals, FiniteSets, Sequences, SequencesExt

CONSTANTS Events, Endpoints,
          Unreadable,     \* endpoints whose stored secret cannot be decrypted
          AttemptLimits,  \* values the setting webhooks.max_attempts takes
          MaxBatch,       \* maxBatch
          MaxRequeues,    \* bound: manual redeliveries
          MaxFaults       \* bound: crashes, failed transactions, lost answers

ASSUME EndpointsAssumption == Unreadable \subseteq Endpoints
ASSUME LimitsAssumption == AttemptLimits \subseteq Nat \ {0}
ASSUME BatchAssumption == MaxBatch \in Nat \ {0}

Deliveries == Events \X Endpoints
Statuses == {"none", "pending", "delivered", "dead", "gone"}
Results == {"open", "ok", "failed", "skipped"}

VARIABLES
  \* SQLite
  status,    \* status[d]; "none" before its event, "gone" after its removal
  attempts,  \* attempts[d]
  queue,     \* pending deliveries that are due, by next_attempt_at
  enabled,   \* enabled[e]: "on", "off" or "gone"
  readable,  \* readable[e]: the stored secret decrypts
  \* locals of Pass
  batch,     \* deliveries selected; empty between passes
  result,    \* result[d]: what came of d in this pass
  seenTries, \* seenTries[d]: attempts when d was selected
  limit,     \* maxAttempts
  \* ghosts
  receipts,  \* receipts[d]: times the receiver accepted d
  failures,  \* failures[d]: posts of d that were not acknowledged
  causes,    \* causes[d]: reasons to send d again
  owed,      \* deliveries requeued by hand and not posted since
  requeues, faults

rows == <<status, attempts, queue>>
config == <<enabled, readable>>
pass == <<batch, result, seenTries, limit>>
ghosts == <<receipts, failures, causes, owed>>
vars == <<status, attempts, queue, enabled, readable, batch, result, seenTries,
          limit, receipts, failures, causes, owed, requeues, faults>>

TypeOK ==
  /\ status \in [Deliveries -> Statuses]
  /\ attempts \in [Deliveries -> Nat]
  /\ queue \in Seq(Deliveries)
  /\ enabled \in [Endpoints -> {"on", "off", "gone"}]
  /\ readable \in [Endpoints -> BOOLEAN]
  /\ batch \subseteq Deliveries
  /\ result \in [Deliveries -> Results]
  /\ seenTries \in [Deliveries -> Nat]
  /\ limit \in Nat
  /\ receipts \in [Deliveries -> Nat]
  /\ failures \in [Deliveries -> Nat]
  /\ causes \in [Deliveries -> Nat]
  /\ owed \subseteq Deliveries
  /\ requeues \in Nat /\ faults \in Nat

Init ==
  /\ status = [d \in Deliveries |-> "none"]
  /\ attempts = [d \in Deliveries |-> 0]
  /\ queue = << >>
  /\ enabled = [e \in Endpoints |-> "on"]
  /\ readable = [e \in Endpoints |-> e \notin Unreadable]
  /\ batch = {}
  /\ result = [d \in Deliveries |-> "open"]
  /\ seenTries = [d \in Deliveries |-> 0]
  /\ limit = 0
  /\ receipts = [d \in Deliveries |-> 0]
  /\ failures = [d \in Deliveries |-> 0]
  /\ causes = [d \in Deliveries |-> 0]
  /\ owed = {}
  /\ requeues = 0 /\ faults = 0

-----------------------------------------------------------------------------
(* Transactions of the rest of the program.                                *)

\* Commits with the change the event reports.  Paused endpoints get nothing.
RecordTx(ev) ==
  /\ \A e \in Endpoints : status[<<ev, e>>] = "none"
  /\ LET fanout == {<<ev, e>> : e \in {x \in Endpoints : enabled[x] = "on"}}
     IN  /\ \E order \in SetToSeqs(fanout) : queue' = queue \o order
         /\ status' = [d \in Deliveries |->
                         IF d \in fanout THEN "pending"
                         ELSE IF d[1] = ev THEN "gone" ELSE status[d]]
  /\ UNCHANGED <<attempts, config, pass, ghosts, requeues, faults>>

\* update: pausing and resuming, and a new secret.
UpdateEndpoint(e, on, newSecret) ==
  /\ enabled[e] # "gone"
  /\ enabled' = [enabled EXCEPT ![e] = IF on THEN "on" ELSE "off"]
  /\ readable' = [readable EXCEPT ![e] = @ \/ newSecret]
  /\ UNCHANGED <<rows, pass, ghosts, requeues, faults>>

\* The rows of ds are deleted by a cascade.
Drop(ds) ==
  /\ status' = [d \in Deliveries |-> IF d \in ds /\ status[d] # "none"
                                       THEN "gone" ELSE status[d]]
  /\ queue' = SelectSeq(queue, LAMBDA d : d \notin ds)
  /\ owed' = owed \ ds
  /\ UNCHANGED <<attempts, readable, pass, receipts, failures, causes, requeues,
                 faults>>

DeleteEndpoint(e) ==
  /\ enabled[e] # "gone"
  /\ enabled' = [enabled EXCEPT ![e] = "gone"]
  /\ Drop({d \in Deliveries : d[2] = e})

\* Housekeeping removes an event past its retention.
Prune(ev) ==
  /\ \E e \in Endpoints : status[<<ev, e>>] \notin {"none", "gone"}
  /\ Drop({d \in Deliveries : d[1] = ev})
  /\ UNCHANGED enabled

\* Any delivery that still exists may be requeued, one in flight too.
Redeliver(d) ==
  /\ status[d] \notin {"none", "gone"}
  /\ requeues < MaxRequeues
  /\ requeues' = requeues + 1
  /\ status' = [status EXCEPT ![d] = "pending"]
  /\ attempts' = [attempts EXCEPT ![d] = 0]
  /\ queue' = Append(Remove(queue, d), d)
  /\ owed' = owed \cup {d}
  /\ causes' = [causes EXCEPT ![d] = @ + 1]
  /\ UNCHANGED <<config, pass, receipts, failures, faults>>

InBackoff == {d \in Deliveries : status[d] = "pending"} \ ToSet(queue)

\* A backoff is over.  It counts from the start of the pass, so the delivery
\* may be older than some that came due before it.
Elapse(d) ==
  /\ d \in InBackoff
  /\ \E i \in 1..(Len(queue) + 1) : queue' = InsertAt(queue, i, d)
  /\ UNCHANGED <<status, attempts, config, pass, ghosts, requeues, faults>>

-----------------------------------------------------------------------------
(* Worker.Pass.                                                            *)

\* Variant: the query finds only deliveries that were never tried.
WantedFirstTry(d) == status[d] = "pending" /\ enabled[d[2]] = "on" /\ attempts[d] = 0

\* WHERE, then ORDER BY next_attempt_at LIMIT MaxBatch.
Wanted(d) == status[d] = "pending" /\ enabled[d[2]] = "on"

Batch ==
  {d \in Deliveries :
     /\ Wanted(d)
     /\ \E i \in DOMAIN queue :
          /\ queue[i] = d
          /\ Cardinality({j \in 1..(i - 1) : Wanted(queue[j])}) < MaxBatch}

\* Select the batch and decrypt the secrets: without one, a delivery is left
\* as it is.
Select(n) ==
  /\ batch = {} /\ Batch # {}
  /\ batch' = Batch
  /\ limit' = n
  /\ seenTries' = [d \in Deliveries |-> IF d \in Batch THEN attempts[d] ELSE 0]
  /\ result' = [d \in Deliveries |-> IF d \in Batch /\ ~readable[d[2]]
                                       THEN "skipped" ELSE "open"]
  /\ UNCHANGED <<rows, config, ghosts, requeues, faults>>

\* deliver: the receiver accepts and the answer comes back, or gets lost, or
\* the receiver refuses.  The posts of a batch overlap.
Deliver(d, accepted, answered) ==
  /\ d \in batch /\ result[d] = "open"
  /\ accepted /\ ~answered => faults < MaxFaults
  /\ faults' = IF accepted /\ ~answered THEN faults + 1 ELSE faults
  /\ result' = [result EXCEPT ![d] = IF accepted /\ answered THEN "ok" ELSE "failed"]
  /\ receipts' = [receipts EXCEPT ![d] = IF accepted THEN @ + 1 ELSE @]
  /\ failures' = [failures EXCEPT ![d] = IF accepted /\ answered THEN @ ELSE @ + 1]
  /\ causes' = [causes EXCEPT ![d] = IF accepted /\ ~answered THEN @ + 1 ELSE @]
  /\ owed' = owed \ {d}
  /\ UNCHANGED <<rows, config, batch, seenTries, limit, requeues>>

AllPosted == batch # {} /\ \A d \in batch : result[d] # "open"

EndPass ==
  /\ batch' = {}
  /\ result' = [d \in Deliveries |-> "open"]
  /\ seenTries' = [d \in Deliveries |-> 0]
  /\ limit' = 0

\* Variant: only deliveries whose post failed are written.
TriedOnlyFailed == {d \in batch : result[d] = "failed" /\ status[d] # "gone"}

\* Deliveries whose row the transaction updates: it finds no row for one that
\* was deleted in the meantime.
Tried == {d \in batch : result[d] # "skipped" /\ status[d] # "gone"}

\* Variant: the last attempt is taken for a success.
NewStatusAtLimit(d) ==
  IF seenTries[d] + 1 >= limit THEN "delivered"
  ELSE IF result[d] = "ok" THEN "delivered" ELSE "pending"

NewStatus(d) ==
  IF result[d] = "ok" THEN "delivered"
  ELSE IF seenTries[d] + 1 >= limit THEN "dead" ELSE "pending"

\* One transaction writes status, attempts and next_attempt_at from what the
\* pass read and saw, whatever the row says by now.
Record ==
  /\ AllPosted
  /\ status' = [d \in Deliveries |-> IF d \in Tried THEN NewStatus(d) ELSE status[d]]
  /\ attempts' = [d \in Deliveries |-> IF d \in Tried THEN seenTries[d] + 1
                                                      ELSE attempts[d]]
  /\ queue' = SelectSeq(queue, LAMBDA d : d \notin Tried)
  /\ EndPass
  /\ UNCHANGED <<config, ghosts, requeues, faults>>

\* The process dies, or the transaction fails: every result is lost.
Crash ==
  /\ batch # {}
  /\ faults < MaxFaults
  /\ faults' = faults + 1
  /\ causes' = [d \in Deliveries |-> IF result[d] = "ok" THEN causes[d] + 1
                                                         ELSE causes[d]]
  /\ EndPass
  /\ UNCHANGED <<rows, config, receipts, failures, owed, requeues>>

Post == \E d \in Deliveries, accepted, answered \in BOOLEAN : Deliver(d, accepted, answered)

Next ==
  \/ \E ev \in Events : RecordTx(ev) \/ Prune(ev)
  \/ \E e \in Endpoints, on, newSecret \in BOOLEAN : UpdateEndpoint(e, on, newSecret)
  \/ \E e \in Endpoints : DeleteEndpoint(e)
  \/ \E d \in Deliveries : Redeliver(d) \/ Elapse(d)
  \/ \E n \in AttemptLimits : Select(n)
  \/ Post
  \/ Record
  \/ Crash

Spec == Init /\ [][Next]_vars

\* jobWebhooks starts a pass every few seconds, every post has a timeout and
\* every backoff ends.
FairSpec ==
  /\ Spec
  /\ \A d \in Deliveries : WF_vars(Elapse(d))
  /\ WF_vars(\E n \in AttemptLimits : Select(n))
  /\ WF_vars(Post)
  /\ WF_vars(Record)

-----------------------------------------------------------------------------
(* Properties.                                                             *)

\* A delivery is marked delivered only if the receiver accepted it, whatever
\* was requeued, paused or lost meanwhile.
DeliveredWasReceived ==
  \A d \in Deliveries : status[d] = "delivered" => receipts[d] > 0

\* A delivery is given up only after that many posts went unacknowledged:
\* paused endpoints, unreadable secrets and crashes use up no attempt.
DeadWasTried ==
  \A d \in Deliveries :
    status[d] = "dead" => \E n \in AttemptLimits : failures[d] >= n

\* "Delivery is at least once": a receiver sees an event twice only because an
\* answer was lost, a pass died before recording, or somebody asked for it.
ResentOnlyWithCause ==
  \A d \in Deliveries : receipts[d] <= 1 + causes[d]

\* A pending delivery the worker could post.
Deliverable(d) == status[d] = "pending" /\ enabled[d[2]] = "on" /\ readable[d[2]]

\* Deliveries of an endpoint whose secret cannot be read fill the batch.
Clogged == \E e \in Endpoints : enabled[e] = "on" /\ ~readable[e]

\* Worker.Pass: a pending delivery is settled in the end, behind any backlog
\* and beside an endpoint that refuses everything, unless an enabled endpoint
\* has an unreadable secret (BrokenBlocksNobody shows why).  Settled says only
\* that the row is no longer pending: a requeue of a delivery a running pass
\* has posted already is overwritten by the result of that pass (worker.go:229).
DeliveriesSettle ==
  \A d \in Deliveries : Deliverable(d) ~> (~Deliverable(d) \/ Clogged)

\* "One broken endpoint can never block the process ... failures only touch the
\* delivery row": the deliveries of an endpoint whose secret cannot be read do
\* not hold up the others.
BrokenBlocksNobody ==
  \A d \in Deliveries : Deliverable(d) ~> ~Deliverable(d)

=============================================================================
