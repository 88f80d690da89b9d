------------------------------ MODULE Metering ------------------------------
(***************************************************************************)
(* internal/accounting: from peer counters to charged usage.               *)
(*                                                                         *)
(* The backend counts bytes per peer since the peer was added.  A cycle    *)
(* dumps the interfaces one after the other outside any transaction, then  *)
(* charges, in one transaction, the difference between what it saw and the *)
(* stored baseline.  Between a dump and that transaction peers go on       *)
(* counting, links are recreated, devices are created, rekeyed or deleted  *)
(* and usage is reset.  The module models the devices of one account.      *)
(***************************************************************************)
EXTENDS Naturals, FiniteSets, FiniteSetsExt

CONSTANTS Devices, Keys,
          Dirs,     \* counter directions: rx and tx
          NoKey,    \* a device without a row
          MaxFlow   \* bound: bytes put on the wire

ASSUME NoKeyAssumption == NoKey \notin Keys
ASSUME MaxFlowAssumption == MaxFlow \in Nat
ASSUME DevicesAssumption == IsFiniteSet(Devices)

Counters == [Dirs -> Nat]
Zero == [r \in Dirs |-> 0]

VARIABLES
  \* SQLite
  key,      \* key[d]: devices.public_key, NoKey when there is no row
  last,     \* last[d]: devices.last_rx, last_tx (the baseline)
  total,    \* total[d]: devices.rx_bytes, tx_bytes
  used,     \* users.traffic_used_rx, traffic_used_tx
  issued,   \* keys generated so far
  \* the backend
  up,       \* keys that are peers
  wire,     \* wire[k]: the peer's counters
  \* RunCycle
  pc,       \* "idle" or "dumping"
  seen,     \* keys dumped so far
  view,     \* view[k]: the counters dumped for k
  \* ghosts
  flowed,   \* flowed[d]: bytes d really moved since its usage was last reset
  gone,     \* totals of deleted devices, which stay charged to the account
  pristine, \* pristine[d]: the counters behind d's baseline were never reset
  flows     \* bytes put on the wire

rows == <<key, last, total, used, issued>>
runtime == <<up, wire>>
cycle == <<pc, seen, view>>
vars == <<key, last, total, used, issued, up, wire, pc, seen, view, flowed,
          gone, pristine, flows>>

TypeOK ==
  /\ key \in [Devices -> Keys \cup {NoKey}]
  /\ last \in [Devices -> Counters]
  /\ total \in [Devices -> Counters]
  /\ used \in Counters
  /\ issued \subseteq Keys
  /\ up \subseteq Keys
  /\ wire \in [Keys -> Counters]
  /\ pc \in {"idle", "dumping"}
  /\ seen \subseteq Keys
  /\ view \in [Keys -> Counters]
  /\ flowed \in [Devices -> Counters]
  /\ gone \in Counters
  /\ pristine \in [Devices -> BOOLEAN]
  /\ flows \in Nat

Init ==
  /\ key = [d \in Devices |-> NoKey]
  /\ last = [d \in Devices |-> Zero]
  /\ total = [d \in Devices |-> Zero]
  /\ used = Zero
  /\ issued = {}
  /\ up = {}
  /\ wire = [k \in Keys |-> Zero]
  /\ pc = "idle" /\ seen = {}
  /\ view = [k \in Keys |-> Zero]
  /\ flowed = [d \in Devices |-> Zero]
  /\ gone = Zero
  /\ pristine = [d \in Devices |-> TRUE]
  /\ flows = 0

-----------------------------------------------------------------------------
(* The backend.                                                            *)

\* SyncPeers adds a peer: its counters start at zero.
AddPeer(k) ==
  /\ k \in issued \ up
  /\ up' = up \cup {k}
  /\ wire' = [wire EXCEPT ![k] = Zero]
  /\ UNCHANGED <<rows, cycle, flowed, gone, pristine, flows>>

\* The counters of ks are lost: the peers are removed, their link is
\* recreated with them (stay), or the host reboots.
ResetCounters(ks, stay) ==
  /\ ks # {} /\ ks \subseteq up
  /\ up' = IF stay THEN up ELSE up \ ks
  /\ wire' = [k \in Keys |-> IF k \in ks THEN Zero ELSE wire[k]]
  /\ pristine' = [d \in Devices |-> pristine[d] /\ key[d] \notin ks]
  /\ UNCHANGED <<rows, cycle, flowed, gone, flows>>

\* One byte passes through peer k.
Traffic(k, r) ==
  /\ k \in up
  /\ flows < MaxFlow
  /\ flows' = flows + 1
  /\ wire' = [wire EXCEPT ![k][r] = @ + 1]
  /\ flowed' = [d \in Devices |-> IF key[d] = k
                                    THEN [flowed[d] EXCEPT ![r] = @ + 1]
                                    ELSE flowed[d]]
  /\ UNCHANGED <<rows, up, cycle, gone, pristine>>

-----------------------------------------------------------------------------
(* Handlers that touch the metering columns.                               *)

CreateDevice(d, k) ==
  /\ key[d] = NoKey
  /\ k \in Keys \ issued
  /\ key' = [key EXCEPT ![d] = k]
  /\ issued' = issued \cup {k}
  /\ last' = [last EXCEPT ![d] = Zero]
  /\ total' = [total EXCEPT ![d] = Zero]
  /\ flowed' = [flowed EXCEPT ![d] = Zero]
  /\ pristine' = [pristine EXCEPT ![d] = TRUE]
  /\ UNCHANGED <<used, runtime, cycle, gone, flows>>

\* Regenerate and access rotation: a new key, counted from zero.  Bytes the
\* old key moved since the last cycle are not charged any more.
Regenerate(d, k) ==
  /\ key[d] # NoKey
  /\ k \in Keys \ issued
  /\ key' = [key EXCEPT ![d] = k]
  /\ issued' = issued \cup {k}
  /\ last' = [last EXCEPT ![d] = Zero]
  /\ pristine' = [pristine EXCEPT ![d] = total[d] = flowed[d]]
  /\ UNCHANGED <<total, used, runtime, cycle, flowed, gone, flows>>

\* The row goes; what it was charged stays on the account.
DeleteDevice(d) ==
  /\ key[d] # NoKey
  /\ key' = [key EXCEPT ![d] = NoKey]
  /\ last' = [last EXCEPT ![d] = Zero]
  /\ total' = [total EXCEPT ![d] = Zero]
  /\ flowed' = [flowed EXCEPT ![d] = Zero]
  /\ gone' = [r \in Dirs |-> gone[r] + total[d][r]]
  /\ UNCHANGED <<used, issued, runtime, cycle, pristine, flows>>

\* Variant: the baselines are zeroed with the totals.
ResetTrafficAndBaselines ==
  /\ total' = [d \in Devices |-> Zero]
  /\ last' = [d \in Devices |-> Zero]
  /\ used' = Zero
  /\ gone' = Zero
  /\ flowed' = [d \in Devices |-> [r \in Dirs |-> flowed[d][r] - total[d][r]]]
  /\ UNCHANGED <<key, issued, runtime, cycle, pristine, flows>>

\* Charged usage and device totals go to zero, baselines stay: bytes moved
\* but not charged yet are charged by the next cycle.
ResetTraffic ==
  /\ total' = [d \in Devices |-> Zero]
  /\ used' = Zero
  /\ gone' = Zero
  /\ flowed' = [d \in Devices |-> [r \in Dirs |-> flowed[d][r] - total[d][r]]]
  /\ UNCHANGED <<key, last, issued, runtime, cycle, pristine, flows>>

-----------------------------------------------------------------------------
(* RunCycle.                                                               *)

StartCycle ==
  /\ pc = "idle"
  /\ pc' = "dumping"
  /\ seen' = {}
  /\ UNCHANGED <<rows, runtime, view, flowed, gone, pristine, flows>>

\* One interface is dumped: ks are its peers.  A failed dump contributes no
\* key, so which interfaces are dumped, and when, is left open.
DumpInterface(ks) ==
  /\ pc = "dumping"
  /\ ks # {} /\ ks \subseteq up \ seen
  /\ seen' = seen \cup ks
  /\ view' = [k \in Keys |-> IF k \in ks THEN wire[k] ELSE view[k]]
  /\ UNCHANGED <<rows, runtime, pc, flowed, gone, pristine, flows>>

\* delta: a decreasing counter is a reset and counts from zero.
delta(old, cur) == IF cur < old THEN cur ELSE cur - old

Observed(d) == key[d] # NoKey /\ key[d] \in seen
Delta(d, r) == IF Observed(d) THEN delta(last[d][r], view[key[d]][r]) ELSE 0

\* Idle rows are not written.  A newer handshake or endpoint (changed) makes
\* the row be written without traffic.
Written(d, changed) ==
  Observed(d) /\ (d \in changed \/ \E r \in Dirs : Delta(d, r) # 0)

EndCycle ==
  /\ pc' = "idle"
  /\ seen' = {}
  /\ view' = [k \in Keys |-> Zero]

\* The sum over the account's devices.
SumOver(f) == MapThenSumSet(LAMBDA d : f[d], Devices)

\* Variant: the account gets one device's charge instead of their sum.
CommitCycleChargesOne(changed) ==
  /\ pc = "dumping"
  /\ last' = [d \in Devices |-> IF Written(d, changed) THEN view[key[d]]
                                                       ELSE last[d]]
  /\ total' = [d \in Devices |-> [r \in Dirs |-> total[d][r] + Delta(d, r)]]
  /\ used' = [r \in Dirs |-> used[r] + Max({Delta(d, r) : d \in Devices})]
  /\ EndCycle
  /\ UNCHANGED <<key, issued, runtime, flowed, gone, pristine, flows>>

\* cycleTx: rows are read, totals and baselines written, the account charged,
\* in one transaction.
CommitCycle(changed) ==
  /\ pc = "dumping"
  /\ last' = [d \in Devices |-> IF Written(d, changed) THEN view[key[d]]
                                                       ELSE last[d]]
  /\ total' = [d \in Devices |-> [r \in Dirs |-> total[d][r] + Delta(d, r)]]
  /\ used' = [r \in Dirs |-> used[r] + SumOver([d \in Devices |-> Delta(d, r)])]
  /\ EndCycle
  /\ UNCHANGED <<key, issued, runtime, flowed, gone, pristine, flows>>

\* The transaction fails, or the process dies.
AbortCycle ==
  /\ pc = "dumping"
  /\ EndCycle
  /\ UNCHANGED <<rows, runtime, flowed, gone, pristine, flows>>

Next ==
  \/ \E k \in Keys : AddPeer(k)
  \/ \E ks \in SUBSET Keys, stay \in BOOLEAN : ResetCounters(ks, stay)
  \/ \E k \in Keys, r \in Dirs : Traffic(k, r)
  \/ \E d \in Devices, k \in Keys : CreateDevice(d, k)
  \/ \E d \in Devices, k \in Keys : Regenerate(d, k)
  \/ \E d \in Devices : DeleteDevice(d)
  \/ ResetTraffic
  \/ StartCycle
  \/ \E ks \in SUBSET Keys : DumpInterface(ks)
  \/ \E changed \in SUBSET Devices : CommitCycle(changed)
  \/ AbortCycle

Spec == Init /\ [][Next]_vars

-----------------------------------------------------------------------------
(* Properties.                                                             *)

\* "no double counting": whatever resets, rekeys, failed dumps and rolled
\* back cycles fall between a dump and its commit, a device is never charged
\* more than it moved.
NoOvercount ==
  \A d \in Devices, r \in Dirs : total[d][r] <= flowed[d][r]

\* Without a counter reset nothing is lost either: charged plus not yet
\* dumped is exactly what flowed, across cycles that failed half-way.
ExactWithoutResets ==
  \A d \in Devices : key[d] # NoKey /\ pristine[d] =>
    \A r \in Dirs : /\ last[d][r] <= wire[key[d]][r]
                    /\ flowed[d][r] + last[d][r] = total[d][r] + wire[key[d]][r]

\* Both: no byte is charged twice and, between resets of the counters, none is
\* lost (accounting.go delta, applyCycle).
ChargesSound == NoOvercount /\ ExactWithoutResets

\* The account's usage is the sum of what its devices were charged, deleted
\* devices included: totals and usage never drift apart (an operator's traffic
\* edits change the account alone and are UserLifecycle's).
LedgerBalanced ==
  \A r \in Dirs :
    used[r] = gone[r] + SumOver([d \in Devices |-> total[d][r]])

\* The package comment: "new < last => counter reset => count current from
\* zero and re-baseline".  A reset to zero on an idle device is seen by the
\* dump but not written, so later traffic is measured against the old
\* baseline and the first `last` bytes after the reset are never charged.
RebaselinesOnReset ==
  [][(\E changed \in SUBSET Devices : CommitCycle(changed)) =>
       \A d \in Devices :
         Observed(d) /\ (\E r \in Dirs : view[key[d]][r] < last[d][r])
           => last'[d] = view[key[d]]]_vars
=============================================================================
