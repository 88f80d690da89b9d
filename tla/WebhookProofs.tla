---------------------------- MODULE WebhookProofs ----------------------------
(***************************************************************************)
(* What "delivered" and "dead" say about the receiver, for any events,     *)
(* endpoints, settings and batch size, and any number of faults; and that  *)
(* the egress manager's record agrees with the kernel, for any outbounds.  *)
(***************************************************************************)
EXTENDS Webhook, Egress, TLAPS

Shape ==
  /\ status \in [Deliveries -> Statuses]
  /\ attempts \in [Deliveries -> Nat]
  /\ batch \subseteq Deliveries
  /\ result \in [Deliveries -> Results]
  /\ seenTries \in [Deliveries -> Nat]
  /\ receipts \in [Deliveries -> Nat]
  /\ failures \in [Deliveries -> Nat]

\* A success the pass has yet to record was accepted.
OkWasReceived == \A d \in Deliveries : result[d] = "ok" => receipts[d] > 0

\* The attempts of a row not settled yet, and those a pass is about to record, were
\* posts that went unacknowledged.
AttemptsFailed ==
  \A d \in Deliveries :
    /\ status[d] \in {"none", "pending"} => attempts[d] <= failures[d]
    /\ d \in batch => seenTries[d] <= failures[d]
    /\ d \in batch /\ result[d] = "failed" => seenTries[d] + 1 <= failures[d]

\* A pass uses a value the setting had.
LimitWasSet == batch # {} => limit \in AttemptLimits

IInv ==
  /\ Shape
  /\ OkWasReceived
  /\ AttemptsFailed
  /\ LimitWasSet
  /\ DeliveredWasReceived
  /\ DeadWasTried

\* Nothing was posted yet.
LEMMA InitIInv == Init => IInv
  BY DEF Init, IInv, Shape, OkWasReceived, AttemptsFailed, LimitWasSet,
         DeliveredWasReceived, DeadWasTried, Statuses, Results

\* A change of rows alone that settles no delivery and adds no attempt keeps
\* the invariant.
LEMMA RowsIInv ==
  ASSUME IInv, UNCHANGED <<pass, receipts, failures>>,
         status' \in [Deliveries -> Statuses], attempts' \in [Deliveries -> Nat],
         \A d \in Deliveries :
           \/ status'[d] = status[d] /\ attempts'[d] = attempts[d]
           \/ status'[d] = "gone"
           \/ status'[d] = "pending" /\ attempts'[d] = 0
           \/ status'[d] = "pending" /\ status[d] = "none" /\ attempts'[d] = attempts[d]
  PROVE  IInv'
  BY DEF IInv, Shape, OkWasReceived, AttemptsFailed, LimitWasSet,
         DeliveredWasReceived, DeadWasTried, pass

\* Every step keeps the invariant.
LEMMA NextIInv == IInv /\ [Next]_vars => IInv'
<1> SUFFICES ASSUME IInv, [Next]_vars PROVE IInv'
  OBVIOUS
<1>0. CASE UNCHANGED vars
  BY <1>0, RowsIInv DEF vars, pass, IInv, Shape
<1>1. ASSUME NEW ev \in Events, RecordTx(ev) PROVE IInv'
  <2>1. UNCHANGED <<attempts, pass, receipts, failures>>
    BY <1>1 DEF RecordTx, ghosts
  <2>2. /\ status' \in [Deliveries -> Statuses]
        /\ \A d \in Deliveries :
             \/ status'[d] = status[d]
             \/ status'[d] = "gone"
             \/ status'[d] = "pending" /\ status[d] = "none"
    <3> DEFINE fanout == {<<ev, e>> : e \in {x \in Endpoints : enabled[x] = "on"}}
    <3>1. \A d \in fanout : status[d] = "none"
      BY <1>1 DEF RecordTx
    <3>2. status' = [d \in Deliveries |-> IF d \in fanout THEN "pending"
                                          ELSE IF d[1] = ev THEN "gone" ELSE status[d]]
      BY <1>1 DEF RecordTx
    <3> HIDE DEF fanout
    <3> QED
      BY <3>1, <3>2 DEF IInv, Shape, Statuses
  <2> QED
    BY <2>1, <2>2, RowsIInv DEF IInv, Shape
<1>2. ASSUME NEW ds, Drop(ds) PROVE IInv'
  <2>1. UNCHANGED <<attempts, pass, receipts, failures>>
    BY <1>2 DEF Drop
  <2>2. /\ status' \in [Deliveries -> Statuses]
        /\ \A d \in Deliveries : status'[d] = status[d] \/ status'[d] = "gone"
    BY <1>2 DEF Drop, IInv, Shape, Statuses
  <2> QED
    BY <2>1, <2>2, RowsIInv DEF IInv, Shape
<1>3. ASSUME NEW e \in Endpoints, NEW on \in BOOLEAN, NEW newSecret \in BOOLEAN,
             UpdateEndpoint(e, on, newSecret)
      PROVE  IInv'
  BY <1>3, RowsIInv DEF UpdateEndpoint, rows, ghosts, IInv, Shape
<1>4. ASSUME NEW d \in Deliveries, Redeliver(d) PROVE IInv'
  BY <1>4, RowsIInv DEF Redeliver, IInv, Shape, Statuses
<1>5. ASSUME NEW d \in Deliveries, Elapse(d) PROVE IInv'
  BY <1>5, RowsIInv DEF Elapse, ghosts, IInv, Shape
<1>6. ASSUME NEW n \in AttemptLimits, Select(n) PROVE IInv'
  <2>1. \A d \in Batch : d \in Deliveries /\ status[d] = "pending"
    BY DEF Batch, Wanted
  <2>2. /\ batch' \subseteq Deliveries /\ limit' \in AttemptLimits
        /\ result' \in [Deliveries -> Results]
        /\ seenTries' \in [Deliveries -> Nat]
        /\ \A d \in Deliveries : result'[d] \notin {"ok", "failed"}
        /\ \A d \in batch' : status[d] = "pending" /\ seenTries'[d] = attempts[d]
        /\ UNCHANGED <<status, attempts, receipts, failures>>
    BY <1>6, <2>1 DEF Select, IInv, Shape, Results, rows, ghosts
  <2> QED
    BY <2>2 DEF IInv, Shape, OkWasReceived, AttemptsFailed, LimitWasSet,
                DeliveredWasReceived, DeadWasTried
<1>7. ASSUME NEW d \in Deliveries, NEW accepted \in BOOLEAN, NEW answered \in BOOLEAN,
             Deliver(d, accepted, answered)
      PROVE  IInv'
  <2>1. /\ UNCHANGED <<status, attempts, batch, seenTries, limit>>
        /\ result' \in [Deliveries -> Results]
        /\ receipts' \in [Deliveries -> Nat] /\ failures' \in [Deliveries -> Nat]
        /\ \A x \in Deliveries : receipts'[x] >= receipts[x] /\ failures'[x] >= failures[x]
        /\ \A x \in Deliveries \ {d} : result'[x] = result[x]
        /\ result'[d] = "ok" => receipts'[d] = receipts[d] + 1
        /\ result'[d] = "failed" => failures'[d] = failures[d] + 1
    BY <1>7 DEF Deliver, IInv, Shape, Results, rows
  <2>2. OkWasReceived'
    BY <2>1 DEF IInv, Shape, OkWasReceived
  <2>3. AttemptsFailed'
    BY <2>1 DEF IInv, Shape, AttemptsFailed
  <2>4. DeliveredWasReceived' /\ DeadWasTried'
    <3>1. ASSUME NEW x \in Deliveries, status[x] = "dead"
          PROVE  \E n \in AttemptLimits : failures'[x] >= n
      <4>1. PICK n \in AttemptLimits : failures[x] >= n
        BY <3>1 DEF IInv, DeadWasTried
      <4> QED
        BY <4>1, <2>1, LimitsAssumption DEF IInv, Shape
    <3> QED
      BY <2>1, <3>1 DEF IInv, Shape, DeliveredWasReceived, DeadWasTried
  <2> QED
    BY <2>1, <2>2, <2>3, <2>4 DEF IInv, Shape, LimitWasSet
<1>8. CASE Record
  <2>1. /\ UNCHANGED <<receipts, failures>> /\ batch' = {}
        /\ result' = [d \in Deliveries |-> "open"]
        /\ seenTries' = [d \in Deliveries |-> 0]
    BY <1>8 DEF Record, EndPass, ghosts
  <2>2. ASSUME NEW d \in Deliveries, d \notin Tried
        PROVE  status'[d] = status[d] /\ attempts'[d] = attempts[d]
    BY <1>8, <2>2 DEF Record
  <2>3. ASSUME NEW d \in Deliveries, d \in Tried
        PROVE  /\ status'[d] = NewStatus(d) /\ attempts'[d] = seenTries[d] + 1
               /\ d \in batch /\ result[d] \in {"ok", "failed"}
    BY <1>8, <2>3 DEF Record, Tried, AllPosted, IInv, Shape, Results
  <2>4. status' \in [Deliveries -> Statuses] /\ attempts' \in [Deliveries -> Nat]
    BY <1>8 DEF Record, NewStatus, Statuses, IInv, Shape
  <2>5. AttemptsFailed'
    BY <2>1, <2>2, <2>3, <2>4 DEF IInv, Shape, AttemptsFailed, NewStatus
  <2>6. DeliveredWasReceived'
    BY <2>1, <2>2, <2>3 DEF IInv, DeliveredWasReceived, OkWasReceived, NewStatus
  <2>7. DeadWasTried'
    <3>1. ASSUME NEW d \in Tried, NewStatus(d) = "dead"
          PROVE  limit \in AttemptLimits /\ failures[d] >= limit
      <4>1. d \in Deliveries /\ d \in batch /\ limit \in AttemptLimits
        BY DEF Tried, IInv, Shape, LimitWasSet
      <4>2. result[d] = "failed" /\ seenTries[d] + 1 >= limit
        BY <4>1, <2>3, <3>1 DEF NewStatus
      <4>3. seenTries[d] + 1 <= failures[d] /\ failures[d] \in Nat /\ seenTries[d] \in Nat
        BY <4>1, <4>2 DEF IInv, Shape, AttemptsFailed
      <4> QED
        BY <4>1, <4>2, <4>3, LimitsAssumption
    <3> QED
      BY <2>1, <2>2, <2>3, <3>1 DEF IInv, DeadWasTried
  <2> QED
    BY <2>1, <2>4, <2>5, <2>6, <2>7 DEF IInv, Shape, OkWasReceived, LimitWasSet, Results
<1>9. CASE Crash
  BY <1>9 DEF Crash, EndPass, rows, IInv, Shape, Results, OkWasReceived, AttemptsFailed,
              LimitWasSet, DeliveredWasReceived, DeadWasTried
<1> QED
  BY <1>0, <1>1, <1>2, <1>3, <1>4, <1>5, <1>6, <1>7, <1>8, <1>9
     DEF Next, Prune, DeleteEndpoint, Post

\* worker.go: a row says "delivered" only if the receiver accepted the event,
\* through every requeue, pause, deletion, lost answer and lost pass.
THEOREM DeliveredIsHonest == Spec => []DeliveredWasReceived
<1>1. IInv => DeliveredWasReceived
  BY DEF IInv
<1> QED
  BY InitIInv, NextIInv, <1>1, PTL DEF Spec

\* worker.go: a row says "dead" only after as many posts as the setting asked
\* for at some pass went unacknowledged.
THEOREM DeadIsHonest == Spec => []DeadWasTried
<1>1. IInv => DeadWasTried
  BY DEF IInv
<1> QED
  BY InitIInv, NextIInv, <1>1, PTL DEF Spec
\* A cause is spent by the post it explains: a delivery that may be posted again
\* without a further cause was accepted no more often than it has causes.
Credit ==
  /\ causes \in [Deliveries -> Nat]
  /\ \A d \in Deliveries :
       /\ receipts[d] <= 1 + causes[d]
       /\ d \in batch /\ result[d] # "ok" => receipts[d] <= causes[d]
       /\ d \notin batch /\ status[d] \in {"none", "pending", "dead"} => receipts[d] <= causes[d]

\* Every step keeps the account of causes.
LEMMA NextCredit == ASSUME IInv, Credit, [Next]_vars PROVE Credit'
<1> USE DEF IInv, Shape, Credit
<1>0. CASE UNCHANGED vars
  BY <1>0 DEF vars
<1>1. ASSUME NEW ev \in Events, RecordTx(ev) PROVE Credit'
  <2> DEFINE fanout == {<<ev, e>> : e \in {x \in Endpoints : enabled[x] = "on"}}
  <2>1. \A d \in fanout : status[d] = "none"
    BY <1>1 DEF RecordTx
  <2>2. status' = [d \in Deliveries |-> IF d \in fanout THEN "pending"
                                        ELSE IF d[1] = ev THEN "gone" ELSE status[d]]
    BY <1>1 DEF RecordTx
  <2>3. UNCHANGED <<batch, result, receipts, causes>>
    BY <1>1 DEF RecordTx, pass, ghosts
  <2> HIDE DEF fanout
  <2> QED
    BY <2>1, <2>2, <2>3
<1>2. ASSUME NEW ds, Drop(ds) PROVE Credit'
  BY <1>2 DEF Drop, pass
<1>3. ASSUME NEW e \in Endpoints, NEW on \in BOOLEAN, NEW newSecret \in BOOLEAN,
             UpdateEndpoint(e, on, newSecret)
      PROVE  Credit'
  BY <1>3 DEF UpdateEndpoint, rows, pass, ghosts
<1>4. ASSUME NEW d \in Deliveries, Redeliver(d) PROVE Credit'
  BY <1>4 DEF Redeliver, pass
<1>5. ASSUME NEW d \in Deliveries, Elapse(d) PROVE Credit'
  BY <1>5 DEF Elapse, pass, ghosts
<1>6. ASSUME NEW n \in AttemptLimits, Select(n) PROVE Credit'
  <2>1. \A d \in Batch : status[d] = "pending"
    BY DEF Batch, Wanted
  <2> QED
    BY <1>6, <2>1 DEF Select, rows, ghosts
<1>7. ASSUME NEW d \in Deliveries, NEW accepted \in BOOLEAN, NEW answered \in BOOLEAN,
             Deliver(d, accepted, answered)
      PROVE  Credit'
  BY <1>7 DEF Deliver, rows
<1>8. CASE Record
  <2>1. UNCHANGED <<receipts, causes>> /\ batch' = {}
    BY <1>8 DEF Record, EndPass, ghosts
  <2>2. \A d \in Deliveries : \/ d \notin batch /\ status'[d] = status[d]
                              \/ status'[d] = "delivered" \/ status'[d] = "gone"
                              \/ d \in batch /\ result[d] # "ok"
    BY <1>8 DEF Record, Tried, NewStatus, Results
  <2> QED
    BY <2>1, <2>2
<1>9. CASE Crash
  BY <1>9 DEF Crash, EndPass, rows
<1> QED
  BY <1>0, <1>1, <1>2, <1>3, <1>4, <1>5, <1>6, <1>7, <1>8, <1>9
     DEF Next, Prune, DeleteEndpoint, Post

\* worker.go: a receiver accepts a delivery a second time only after an answer
\* was lost, a pass was not recorded, or somebody asked for it again.
THEOREM ResentWithCause == Spec => []ResentOnlyWithCause
<1>1. Init => Credit
  BY DEF Init, Credit
<1>2. Credit => ResentOnlyWithCause
  BY DEF Credit, ResentOnlyWithCause
<1> QED
  BY InitIInv, NextIInv, NextCredit, <1>1, <1>2, PTL DEF Spec

-----------------------------------------------------------------------------
(* The egress manager.                                                     *)

\* The records keep their shape.
EgShapes ==
  /\ ap = [at |-> ap.at, for |-> ap.for, snap |-> ap.snap, dns |-> ap.dns, down |-> ap.down,
           exists |-> ap.exists, todo |-> ap.todo, failed |-> ap.failed, ok |-> ap.ok,
           error |-> ap.error]
  /\ table = [present |-> table.present, routes |-> table.routes, redirect |-> table.redirect]
  /\ DOMAIN link = Outbounds /\ link = [o \in Outbounds |-> link[o]]
  /\ DOMAIN applied = Outbounds /\ applied = [o \in Outbounds |-> applied[o]]

\* An apply knows whether the resolver serves, and what it rendered.
ApplyKnows ==
  /\ ap.at = "table" => (ap.ok => listening /\ ap.dns)
  /\ ap.at = "finish" /\ ap.error # "table" =>
       /\ table.redirect => listening /\ ap.dns
       /\ table.routes \cap ap.failed = {}

\* A panel that is down applies nothing, and forgets that it was idle.
DownIsEmpty == ~up => ap.at = "none"

\* An idle manager has left no redirect, but for the one an apply has just made.
IdleIsClean == idle /\ ap.at # "finish" => ~table.redirect

EgInv == EgShapes /\ ApplyKnows /\ DownIsEmpty /\ IdleIsClean
           /\ LinkRecordHonest /\ RenderedIsServed

\* The manager starts in the invariant.
LEMMA EgInitial == EInit => EgInv
  BY DEF EInit, EgInv, EgShapes, ApplyKnows, DownIsEmpty, IdleIsClean, LinkRecordHonest, RenderedIsServed,
         NoApply, NoTable, NoStatus

\* Every step of an apply, the health pass, the panel and the kernel keeps it.
LEMMA EgStep == EgInv /\ [ENext]_evars => EgInv'
<1> SUFFICES ASSUME EgInv, [ENext]_evars PROVE EgInv'
  OBVIOUS
<1>s. EgShapes
  BY DEF EgInv
<1>i. ApplyKnows /\ DownIsEmpty /\ IdleIsClean /\ LinkRecordHonest /\ RenderedIsServed
  BY DEF EgInv
<1> USE DEF EgInv, ApplyKnows, DownIsEmpty, IdleIsClean, LinkRecordHonest, RenderedIsServed
\* Links, table, resolver and the record stay, and so does the apply.
<1>k. ASSUME UNCHANGED <<link, applied, idle, estatus, listening, table, ap, up>> PROVE EgInv'
  BY <1>s, <1>i, <1>k DEF EgShapes
\* An apply starts.
<1>b. ASSUME NEW f, ap' = [NoApply EXCEPT !.at = "load", !.for = f], ap.at = "none", up',
             UNCHANGED <<link, applied, idle, estatus, listening, table>>
      PROVE  EgInv'
  <2>1. ap' = [at |-> "load", for |-> f, snap |-> [o \in Outbounds |-> None],
               dns |-> FALSE, down |-> {}, exists |-> {}, todo |-> {}, failed |-> {},
               ok |-> FALSE, error |-> "none"]
    BY <1>b DEF NoApply
  <2>2. EgShapes'
    BY <1>s, <1>b, <2>1 DEF EgShapes
  <2> QED BY <1>i, <1>b, <2>1, <2>2
\* An apply ends with the status st.
<1>e. ASSUME NEW st, ap' = NoApply, estatus' = st,
             /\ up' => st.error \in {"never", "table", "snapshot"}
                       \/ (/\ table'.redirect => listening'
                           /\ table'.routes \cap st.links = {}),
             idle' => ~table'.redirect,
             EgShapes', LinkRecordHonest'
      PROVE  EgInv'
  BY <1>e DEF NoApply
\* The apply goes on to the place p, before the table.
<1>g. ASSUME NEW p \in {"links", "policy", "resolver"}, ap'.at = p, ap.at # "finish",
             UNCHANGED <<idle, table, up>>, EgShapes', LinkRecordHonest', up
      PROVE  EgInv'
  BY <1>i, <1>g
<1>u. CASE UNCHANGED evars
  BY <1>k, <1>u DEF evars, memory
<1>1. CASE StartApply
  BY <1>1, <1>b, <1>i DEF StartApply, Start, memory
<1>2. CASE LoadFails
  <2>1. EgShapes'
    BY <1>2, <1>s DEF LoadFails, Return, NoApply, EgShapes
  <2> QED BY <1>2, <1>e, <1>i, <2>1 DEF LoadFails, Return
<1>3. CASE LoadEmpty
  <2>1. EgShapes'
    BY <1>3, <1>s DEF LoadEmpty, Return, NoApply, EgShapes
  <2> QED BY <1>3, <1>e, <1>i, <2>1 DEF LoadEmpty, Return
<1>4. CASE Load
  <2>1. ap'.at \in {"links", "policy"} /\ ap.at = "load" /\ up
        /\ UNCHANGED <<link, applied, idle, estatus, listening, table, up>>
    BY <1>4, <1>s, <1>i DEF Load, EgShapes
  <2>2. EgShapes'
    BY <1>4, <1>s, <2>1 DEF Load, EgShapes
  <2> QED BY <1>g, <1>i, <2>1, <2>2
<1>5. ASSUME NEW o \in Outbounds, SyncLink(o) PROVE EgInv'
  <2>1. /\ ap.at = "links" /\ up /\ UNCHANGED <<idle, estatus, listening, table, up>>
        /\ \E bad \in BOOLEAN : LinkDone(o, bad)
    BY <1>5, <1>i DEF SyncLink, RemoveStale, KeepLink, Adopt, ReplaceFails, CreateLink, CreateFails
  <2>2. PICK b \in BOOLEAN : LinkDone(o, b)
    BY <2>1
  <2>3. ap' = [at |-> ap.at, for |-> ap.for, snap |-> ap.snap, dns |-> ap.dns, down |-> ap.down,
               exists |-> ap.exists, todo |-> ap.todo \ {o},
               failed |-> IF b THEN ap.failed \cup {o} ELSE ap.failed, ok |-> ap.ok,
               error |-> ap.error]
    BY <1>s, <2>2 DEF LinkDone, EgShapes
  <2>4. \/ UNCHANGED <<link, applied>>
        \/ \E l, r : /\ link' = [link EXCEPT ![o] = l] /\ applied' = [applied EXCEPT ![o] = r]
                     /\ r = None \/ l = r
    BY <1>5 DEF SyncLink, RemoveStale, KeepLink, Adopt, ReplaceFails, CreateLink, CreateFails
  <2>5. LinkRecordHonest'
    BY <1>i, <1>s, <2>4 DEF EgShapes
  <2>6. EgShapes'
    BY <1>s, <2>1, <2>3, <2>4 DEF EgShapes
  <2> QED BY <1>g, <2>1, <2>3, <2>5, <2>6
<1>6. CASE LinksDone
  <2>1. /\ ap.at = "links" /\ up /\ UNCHANGED <<link, applied, idle, estatus, listening, table, up>>
        /\ ap' = [ap EXCEPT !.at = "policy"]
    BY <1>6, <1>i DEF LinksDone, memory
  <2>2. EgShapes' /\ ap'.at = "policy"
    BY <1>s, <2>1 DEF EgShapes
  <2> QED BY <1>g, <1>i, <2>1, <2>2
<1>7. CASE SyncPolicy
  <2>1. /\ ap.at = "policy" /\ up /\ UNCHANGED <<link, applied, idle, estatus, listening, table, up>>
        /\ ap' = [ap EXCEPT !.at = "resolver"] \/ ap' = [ap EXCEPT !.at = "resolver", !.error = "policy"]
    BY <1>7, <1>i DEF SyncPolicy, memory
  <2>2. EgShapes' /\ ap'.at = "resolver"
    BY <1>s, <2>1 DEF EgShapes
  <2> QED BY <1>g, <1>i, <2>1, <2>2
<1>8. CASE ConfigureResolver
  <2>1. /\ ap.at = "resolver" /\ up /\ UNCHANGED <<link, applied, idle, estatus, table, up>>
        /\ listening' = ap.dns \/ listening' = FALSE
        /\ ap' = [ap EXCEPT !.at = "table", !.ok = listening']
    BY <1>8, <1>i DEF ConfigureResolver
  <2>2. ap' = [at |-> "table", for |-> ap.for, snap |-> ap.snap, dns |-> ap.dns, down |-> ap.down,
               exists |-> ap.exists, todo |-> ap.todo, failed |-> ap.failed, ok |-> listening',
               error |-> ap.error]
    BY <1>s, <2>1 DEF EgShapes
  <2>3. EgShapes'
    BY <1>s, <2>1, <2>2 DEF EgShapes
  <2>4. ap'.at = "table" /\ ap'.dns = ap.dns /\ ap'.ok = listening'
    BY <2>2
  <2> QED BY <1>i, <2>1, <2>3, <2>4
<1>9. CASE SyncTable
  <2>1. ap.at = "table" /\ up /\ UNCHANGED <<link, applied, idle, estatus, listening, up>>
    BY <1>9, <1>i DEF SyncTable, memory
  <2>2. CASE ap' = [ap EXCEPT !.at = "finish", !.error = "table"] /\ UNCHANGED table
    <3>1. EgShapes' /\ ap'.at = "finish" /\ ap'.error = "table"
      BY <1>s, <2>1, <2>2 DEF EgShapes
    <3> QED BY <1>i, <2>1, <2>2, <3>1
  <2>3. CASE /\ ap' = [ap EXCEPT !.at = "finish"]
             /\ \/ table' = [present |-> TRUE, routes |-> Routes, redirect |-> ap.ok]
                \/ table' = NoTable
    <3>1. ap' = [at |-> "finish", for |-> ap.for, snap |-> ap.snap, dns |-> ap.dns,
                 down |-> ap.down, exists |-> ap.exists, todo |-> ap.todo,
                 failed |-> ap.failed, ok |-> ap.ok, error |-> ap.error]
      BY <1>s, <2>3 DEF EgShapes
    <3>2. ap'.at = "finish" /\ ap'.failed = ap.failed /\ ap'.dns = ap.dns
      BY <3>1
    <3>3. /\ table'.redirect => ap.ok
          /\ table'.routes \cap ap.failed = {}
      BY <2>3 DEF NoTable, Routes
    <3>4. EgShapes'
      BY <1>s, <2>1, <2>3, <3>1 DEF EgShapes, NoTable
    <3> QED BY <1>i, <2>1, <3>2, <3>3, <3>4
  <2> QED BY <1>9, <2>2, <2>3 DEF SyncTable
<1>10. CASE Finish
  <2>1. /\ ap.at = "finish" /\ up /\ ap' = NoApply /\ UNCHANGED <<link, applied, listening, table, up>>
        /\ idle' => ~ap.dns /\ ap.error = "none"
        /\ estatus' = [error |-> ap.error, links |-> ap.failed,
                       known |-> {o \in Outbounds : ap.snap[o] # None}]
    BY <1>10, <1>i DEF Finish, Return
  <2>2. EgShapes' /\ LinkRecordHonest'
    BY <1>s, <1>i, <2>1 DEF NoApply, EgShapes
  <2>3. idle' => ~table'.redirect
    BY <1>i, <2>1
  <2>4. estatus'.error \in {"never", "table", "snapshot"}
        \/ ((table'.redirect => listening') /\ table'.routes \cap estatus'.links = {})
    BY <1>i, <2>1
  <2> QED BY <1>e, <2>1, <2>2, <2>3, <2>4
<1>11. CASE ProbeAll
  <2>1. CASE PassRetries \/ PassRepairs \/ PassRerenders
    <3>1. /\ UNCHANGED <<link, applied, idle, estatus, listening, table, up>>
          /\ Start("pass") \/ UNCHANGED ap
      BY <2>1 DEF PassRetries, PassRepairs, PassRerenders, memory
    <3>2. CASE Start("pass")
      BY <1>b, <3>1, <3>2 DEF Start
    <3>3. CASE UNCHANGED ap
      BY <1>k, <3>1, <3>3
    <3> QED BY <3>1, <3>2, <3>3
  <2>2. CASE PassBegins \/ PassRetried \/ PassRepaired \/ PassEnds \/ PassRendered
    BY <2>2, <1>k DEF PassBegins, PassRetried, PassRepaired, PassEnds, PassRendered, memory
  <2> QED BY <1>11, <2>1, <2>2 DEF ProbeAll
<1>12. CASE Edit
  BY <1>12, <1>k DEF Edit, memory
<1>13. CASE Boot
  BY <1>13, <1>b, <1>i DEF Boot, memory
<1>14. CASE PanelDies \/ Shutdown
  <2>1. ap' = NoApply /\ ~up' /\ idle' = FALSE /\ estatus' = NoStatus
        /\ applied' = [o \in Outbounds |-> None] /\ UNCHANGED link
        /\ (table' = table \/ table' = [table EXCEPT !.redirect = FALSE])
    BY <1>14 DEF PanelDies, Shutdown, Forgotten
  <2>2. EgShapes'
    BY <1>s, <2>1 DEF EgShapes, NoApply
  <2> QED BY <2>1, <2>2 DEF NoApply
<1>15. CASE Removed
  <2>1. /\ ap.at = "none" /\ UNCHANGED <<applied, idle, estatus, listening, ap, up>>
        /\ \/ table' = NoTable /\ UNCHANGED link
           \/ \E o \in Outbounds : link' = [link EXCEPT ![o] = None] /\ UNCHANGED table
    BY <1>15 DEF Removed, memory
  <2>2. EgShapes'
    BY <1>s, <2>1 DEF EgShapes, NoTable
  <2>3. LinkRecordHonest'
    BY <1>s, <1>i, <2>1 DEF EgShapes
  <2> QED BY <1>i, <2>1, <2>2, <2>3 DEF NoTable
<1>16. ASSUME NEW o \in Outbounds, Reresolve(o) PROVE EgInv'
  <2>1. /\ applied' = [applied EXCEPT ![o] = None]
        /\ UNCHANGED <<link, idle, estatus, listening, table, ap, up>>
    BY <1>16 DEF Reresolve
  <2>2. EgShapes' /\ LinkRecordHonest'
    BY <1>s, <1>i, <2>1 DEF EgShapes
  <2> QED BY <1>i, <2>1, <2>2
<1>17. ASSUME NEW o \in Outbounds, NEW good \in BOOLEAN, Test(o, good) \/ PassProbes(o, good)
       PROVE  EgInv'
  BY <1>17, <1>k DEF Test, PassProbes
<1> QED
  BY <1>u, <1>1, <1>2, <1>3, <1>4, <1>5, <1>6, <1>7, <1>8, <1>9, <1>10, <1>11, <1>12, <1>13, <1>14,
     <1>15, <1>16, <1>17 DEF ENext, Apply

\* manager.go: what the manager remembers of a link is what the kernel has, DNS is
\* redirected only to a resolver that serves and no chain uses a link in error:
\* for any outbounds, edits, failures, crashes and health results.
THEOREM KernelStaysAgreed == ESpec => []KernelAgrees
<1>1. EgInv => KernelAgrees
  BY DEF EgInv, KernelAgrees
<1> QED BY <1>1, EgInitial, EgStep, PTL DEF ESpec
=============================================================================
