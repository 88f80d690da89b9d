------------------------- MODULE CoordinatorProofs -------------------------
(***************************************************************************)
(* Coordinator, for any set of callers and any bounds: the observation     *)
(* "applied" is never stale and passes never undo one another.             *)
(***************************************************************************)
EXTENDS Coordinator, TLAPS

\* One process holds the gate at a time.
GateExclusive ==
  \A p, q \in Procs : pc[p] \in Holding /\ pc[q] \in Holding => p = q

\* Announcements count durable mutations, and a revision was once Desired.
Counted ==
  /\ promised <= commits
  /\ live <= commits
  /\ \A p \in Procs :
       /\ announced[p] <= commits
       /\ announced[p] <= promised
       /\ pc[p] \in {"begun", "read", "done"} => revision[p] <= desired

\* What a pass has read covers its own announcement, everything already live,
\* and, while nobody has announced since its revision, everything promised.
ReadCovers ==
  \A p \in Procs :
    /\ pc[p] \in {"read", "done"} =>
         /\ snap[p] <= commits
         /\ announced[p] <= snap[p]
         /\ revision[p] = desired => promised <= snap[p]
    /\ pc[p] = "read" => live <= snap[p]
    /\ pc[p] = "done" /\ outcome[p] => live = snap[p]

IInv == TypeOK /\ GateExclusive /\ Counted /\ ReadCovers
          /\ AppliedMeansLive /\ OutcomeHonest

\* The coordinator starts in the invariant.
LEMMA InitIInv == Init => IInv
<1> SUFFICES ASSUME Init PROVE IInv
  OBVIOUS
<1>1. TypeOK
  BY DEF Init, TypeOK, Statuses, PCs
<1>2. GateExclusive /\ Counted /\ ReadCovers /\ AppliedMeansLive /\ OutcomeHonest
  BY DEF Init, GateExclusive, Counted, ReadCovers, AppliedMeansLive, OutcomeHonest, Holding
<1> QED
  BY <1>1, <1>2 DEF IInv

\* Every action keeps it.
LEMMA NextIInv == IInv /\ [Next]_vars => IInv'
<1> SUFFICES ASSUME IInv, [Next]_vars PROVE IInv'
  OBVIOUS
<1> USE RepairAssumption, BoundsAssumption
<1> USE DEF IInv, Procs, Holding
<1>1. CASE UNCHANGED vars
  BY <1>1 DEF vars, TypeOK, GateExclusive, Counted, ReadCovers, AppliedMeansLive, OutcomeHonest
<1>2. ASSUME NEW c \in Callers, Commit(c) PROVE IInv'
  <2>1. TypeOK'
    BY <1>2 DEF Commit, TypeOK, Goto, obs, ghosts, PCs
  <2> QED
    BY <1>2, <2>1 DEF Commit, TypeOK, Goto, obs, ghosts, GateExclusive, Counted,
                 ReadCovers, AppliedMeansLive, OutcomeHonest
<1>3. ASSUME NEW c \in Callers, Cancel(c) PROVE IInv'
  <2>1. TypeOK'
    BY <1>3 DEF Cancel, TypeOK, Goto, obs, ghosts, PCs
  <2> QED
    BY <1>3, <2>1 DEF Cancel, TypeOK, Goto, obs, ghosts, GateExclusive, Counted,
                 ReadCovers, AppliedMeansLive, OutcomeHonest
<1>4. ASSUME NEW u \in BOOLEAN, RepairTick(u) PROVE IInv'
  <2>1. TypeOK'
    <3>1. networkReady' \in BOOLEAN
      BY <1>4, Zenon DEF RepairTick, TypeOK
    <3>2. status' \in Statuses /\ pc' \in [Procs -> PCs]
      BY <1>4 DEF RepairTick, TypeOK, Goto, PCs, Statuses
    <3>3. inFlight' \in BOOLEAN /\ outcome' \in [Procs -> BOOLEAN]
      BY <1>4, Zenon DEF RepairTick, TypeOK
    <3>4. /\ desired' \in Nat /\ applied' \in Nat /\ commits' \in Nat
          /\ promised' \in Nat /\ live' \in Nat /\ faults' \in Nat
      BY <1>4 DEF RepairTick, TypeOK, ghosts
    <3>5. /\ revision' \in [Procs -> Nat] /\ announced' \in [Procs -> Nat]
          /\ snap' \in [Procs -> Nat]
      BY <1>4 DEF RepairTick, TypeOK, ghosts
    <3> QED
      BY <3>1, <3>2, <3>3, <3>4, <3>5 DEF TypeOK
  <2> QED
    BY <1>4, <2>1 DEF RepairTick, TypeOK, Goto, ghosts, GateExclusive, Counted,
                 ReadCovers, AppliedMeansLive, OutcomeHonest
<1>5. ASSUME NEW p \in Procs, Announce(p) PROVE IInv'
  <2>1. TypeOK'
    <3>1. networkReady' \in BOOLEAN
      BY <1>5, Zenon DEF Announce, TypeOK
    <3>2. status' \in Statuses /\ pc' \in [Procs -> PCs]
      BY <1>5 DEF Announce, TypeOK, Goto, PCs, Statuses
    <3>3. inFlight' \in BOOLEAN /\ outcome' \in [Procs -> BOOLEAN]
      BY <1>5, Zenon DEF Announce, TypeOK
    <3>4. /\ desired' \in Nat /\ applied' \in Nat /\ commits' \in Nat
          /\ promised' \in Nat /\ live' \in Nat /\ faults' \in Nat
      BY <1>5 DEF Announce, TypeOK, ghosts
    <3>5. /\ revision' \in [Procs -> Nat] /\ announced' \in [Procs -> Nat]
          /\ snap' \in [Procs -> Nat]
      BY <1>5 DEF Announce, TypeOK, ghosts
    <3> QED
      BY <3>1, <3>2, <3>3, <3>4, <3>5 DEF TypeOK
  <2> QED
    BY <1>5, <2>1 DEF Announce, TypeOK, Goto, GateExclusive, Counted,
                 ReadCovers, AppliedMeansLive, OutcomeHonest
<1>6. ASSUME NEW p \in Procs, Enter(p) PROVE IInv'
  <2>1. TypeOK'
    BY <1>6 DEF Enter, TypeOK, Goto, obs, ghosts, PCs
  <2> QED
    BY <1>6, <2>1 DEF Enter, GateFree, TypeOK, Goto, obs, ghosts, GateExclusive,
                 Counted, ReadCovers, AppliedMeansLive, OutcomeHonest
<1>7. ASSUME NEW p \in Procs, Begin(p) PROVE IInv'
  <2>1. TypeOK'
    BY <1>7 DEF Begin, TypeOK, Goto, ghosts, PCs
  <2> QED
    BY <1>7, <2>1 DEF Begin, TypeOK, Goto, ghosts, GateExclusive, Counted,
                 ReadCovers, AppliedMeansLive, OutcomeHonest
<1>8. ASSUME NEW p \in Procs, Read(p) PROVE IInv'
  <2>1. TypeOK'
    BY <1>8 DEF Read, TypeOK, Goto, obs, PCs
  <2> QED
    BY <1>8, <2>1 DEF Read, TypeOK, Goto, obs, GateExclusive, Counted,
                 ReadCovers, AppliedMeansLive, OutcomeHonest
<1>9. ASSUME NEW p \in Procs, NEW ok \in BOOLEAN, Apply(p, ok) PROVE IInv'
  <2>1. TypeOK'
    BY <1>9 DEF Apply, TypeOK, Goto, obs, PCs
  <2> QED
    BY <1>9, <2>1 DEF Apply, TypeOK, Goto, obs, GateExclusive, Counted,
                 ReadCovers, AppliedMeansLive, OutcomeHonest
<1>10. ASSUME NEW p \in Procs, Finish(p) PROVE IInv'
  <2>1. TypeOK'
    BY <1>10 DEF Finish, TypeOK, Goto, ghosts, PCs, Statuses
  <2> QED
    BY <1>10, <2>1 DEF Finish, TypeOK, Goto, ghosts, GateExclusive, Counted,
                 ReadCovers, AppliedMeansLive, OutcomeHonest
<1>11. ASSUME NEW ok \in BOOLEAN, Restart(ok) PROVE IInv'
  <2>1. TypeOK'
    <3>1. networkReady' \in BOOLEAN
      BY <1>11, Zenon DEF Restart, TypeOK
    <3>2. status' \in Statuses /\ pc' \in [Procs -> PCs]
      BY <1>11 DEF Restart, TypeOK, Goto, PCs, Statuses
    <3>3. inFlight' \in BOOLEAN /\ outcome' \in [Procs -> BOOLEAN]
      BY <1>11, Zenon DEF Restart, TypeOK
    <3>4. /\ desired' \in Nat /\ applied' \in Nat /\ commits' \in Nat
          /\ promised' \in Nat /\ live' \in Nat /\ faults' \in Nat
      BY <1>11 DEF Restart, TypeOK, ghosts
    <3>5. /\ revision' \in [Procs -> Nat] /\ announced' \in [Procs -> Nat]
          /\ snap' \in [Procs -> Nat]
      BY <1>11 DEF Restart, TypeOK, ghosts
    <3> QED
      BY <3>1, <3>2, <3>3, <3>4, <3>5 DEF TypeOK
  <2> QED
    BY <1>11, <2>1 DEF Restart, TypeOK, GateExclusive, Counted, ReadCovers,
                 AppliedMeansLive, OutcomeHonest
<1> QED
  BY <1>1, <1>2, <1>3, <1>4, <1>5, <1>6, <1>7, <1>8, <1>9, <1>10, <1>11
  DEF Next, RunStep

\* Whenever the coordinator reports Applied, every announced mutation is live:
\* an older pass that ends after a newer announcement never claims it.
THEOREM AppliedIsLive == Spec => []AppliedMeansLive
<1>1. Spec => []IInv
  BY InitIInv, NextIInv, PTL DEF Spec
<1> QED
  BY <1>1, PTL DEF IInv

\* A handler that is told Applied by its own pass is told the truth.
THEOREM OutcomeIsHonest == Spec => []OutcomeHonest
<1>1. Spec => []IInv
  BY InitIInv, NextIInv, PTL DEF Spec
<1> QED
  BY <1>1, PTL DEF IInv

\* Node.networkReady, stored by Run's callback, by the repair job and at boot,
\* is set only while the last announced revision is applied.
THEOREM ReadyIsApplied == Spec => []ReadyMeansApplied
<1>1. Init => ReadyMeansApplied
  BY DEF Init, ReadyMeansApplied
<1>2. ASSUME ReadyMeansApplied, [Next]_vars PROVE ReadyMeansApplied'
  <2> USE <1>2 DEF ReadyMeansApplied
  <2>1. CASE UNCHANGED vars BY <2>1 DEF vars
  <2>2. ASSUME NEW c \in Callers, Commit(c) \/ Cancel(c) PROVE ReadyMeansApplied'
    BY <2>2 DEF Commit, Cancel, obs
  <2>3. ASSUME NEW u \in BOOLEAN, RepairTick(u) PROVE ReadyMeansApplied'
    BY <2>3 DEF RepairTick
  <2>4. ASSUME NEW p \in Procs, RunStep(p) PROVE ReadyMeansApplied'
    BY <2>4 DEF RunStep, Announce, Enter, Begin, Read, Apply, Finish, obs
  <2>5. ASSUME NEW ok \in BOOLEAN, Restart(ok) PROVE ReadyMeansApplied'
    BY <2>5 DEF Restart
  <2> QED BY <1>2, <2>1, <2>2, <2>3, <2>4, <2>5 DEF Next
<1> QED BY <1>1, <1>2, PTL DEF Spec

\* Passes are serialised: none overwrites a newer one with what it had read
\* earlier, also across cancelled waiters and restarts.
THEOREM RuntimeNeverFallsBack == Spec => NeverFallsBack
<1>1. Spec => []IInv
  BY InitIInv, NextIInv, PTL DEF Spec
<1>2. IInv /\ [Next]_vars => [live' >= live]_vars
  <2> SUFFICES ASSUME IInv, Next PROVE live' >= live
    BY DEF vars
  <2>1. live \in Nat /\ commits \in Nat /\ live <= commits
    BY DEF IInv, TypeOK, Counted
  <2>2. ASSUME NEW p \in Procs, NEW ok \in BOOLEAN, Apply(p, ok) PROVE live' >= live
    BY <2>1, <2>2 DEF IInv, ReadCovers, Apply, TypeOK
  <2>3. ASSUME NEW ok \in BOOLEAN, Restart(ok) PROVE live' >= live
    BY <2>1, <2>3 DEF Restart
  <2>4. ASSUME NEW c \in Callers, Commit(c) \/ Cancel(c) PROVE live' = live
    BY <2>4 DEF Commit, Cancel, ghosts
  <2>5. ASSUME NEW u \in BOOLEAN, RepairTick(u) PROVE live' = live
    BY <2>5 DEF RepairTick, ghosts
  <2>6. ASSUME NEW p \in Procs,
               Announce(p) \/ Enter(p) \/ Begin(p) \/ Read(p) \/ Finish(p)
        PROVE  live' = live
    BY <2>6 DEF Announce, Enter, Begin, Read, Finish, ghosts
  <2>7. live >= live
    BY <2>1
  <2> QED
    BY <2>2, <2>3, <2>4, <2>5, <2>6, <2>7 DEF Next, RunStep
<1> QED
  BY <1>1, <1>2, PTL DEF Spec, NeverFallsBack

\* What a step of the coordinator means for the contract: a commit is a Save,
\* an announcement an Ask, a good pass a Follow unless the runtime already had
\* what it read, the end of a pass a Show or a Hide, a restart a Reboot.
LEMMA StepKeepsContract == IInv /\ [Next]_vars => [C!CNext]_(C!cvars)
<1> SUFFICES ASSUME IInv, [Next]_vars PROVE C!CNext \/ UNCHANGED C!cvars
  OBVIOUS
<1> USE DEF C!cvars
<1>t. live \in Nat /\ commits \in Nat /\ promised \in Nat /\ live <= commits
  BY DEF IInv, TypeOK, Counted
<1>1. CASE UNCHANGED vars
  BY <1>1 DEF vars
<1>2. ASSUME NEW c \in Callers, Commit(c) PROVE C!Save
  BY <1>2 DEF Commit, obs, ghosts, C!Save
<1>3. ASSUME NEW c \in Callers, Cancel(c) PROVE UNCHANGED C!cvars
  BY <1>3 DEF Cancel, obs, ghosts
<1>4. ASSUME NEW u \in BOOLEAN, RepairTick(u) PROVE UNCHANGED C!cvars
  BY <1>4 DEF RepairTick, ghosts
<1>5. ASSUME NEW p \in Procs, Announce(p) PROVE C!Ask
  BY <1>5 DEF Announce, C!Ask
<1>6. ASSUME NEW p \in Procs, Enter(p) \/ Begin(p) \/ Read(p) PROVE UNCHANGED C!cvars
  BY <1>6 DEF Enter, Begin, Read, obs, ghosts
<1>7. ASSUME NEW p \in Procs, NEW ok \in BOOLEAN, Apply(p, ok)
      PROVE  C!Follow \/ UNCHANGED C!cvars
  <2>1. snap[p] \in Nat /\ live <= snap[p] /\ snap[p] <= commits
    BY <1>7 DEF Apply, IInv, TypeOK, ReadCovers
  <2>2. UNCHANGED <<commits, promised, status>>
    BY <1>7 DEF Apply, obs
  <2>3. live' = live \/ live' = snap[p]
    BY <1>7 DEF Apply
  <2>4. CASE live' = live
    BY <2>2, <2>4
  <2>5. CASE live' = snap[p] /\ live' # live
    <3>1. live' \in live + 1 .. commits
      BY <2>1, <2>5, <1>t
    <3> QED
      BY <2>2, <3>1 DEF C!Follow
  <2> QED
    BY <2>3, <2>4, <2>5
<1>8. ASSUME NEW p \in Procs, Finish(p) PROVE C!Show \/ C!Hide
  <2>1. UNCHANGED <<commits, promised, live>>
    BY <1>8 DEF Finish, ghosts
  <2>2. CASE outcome[p] /\ desired = revision[p]
    <3>1. live = snap[p] /\ promised <= snap[p]
      BY <1>8, <2>2 DEF Finish, IInv, ReadCovers
    <3>2. status' = "applied"
      BY <1>8, <2>2 DEF Finish
    <3> QED
      BY <2>1, <3>1, <3>2, <1>t DEF C!Show
  <2>3. CASE ~(outcome[p] /\ desired = revision[p])
    <3>1. status' = "pending"
      BY <1>8, <2>3 DEF Finish
    <3> QED
      BY <2>1, <3>1 DEF C!Hide
  <2> QED
    BY <2>2, <2>3
<1>9. ASSUME NEW ok \in BOOLEAN, Restart(ok) PROVE C!Reboot
  BY <1>9 DEF Restart, C!Reboot
<1> QED
  BY <1>1, <1>2, <1>3, <1>4, <1>5, <1>6, <1>7, <1>8, <1>9 DEF Next, RunStep, C!CNext

\* Coordinator.Run implements the contract of its package, for any number of
\* callers and any bounds: "applied" is shown only while every requested
\* mutation is live, and the runtime only moves towards the database.
THEOREM ContractKept == Spec => KeepsContract
<1>1. Spec => []IInv
  BY InitIInv, NextIInv, PTL DEF Spec
<1>2. Init => C!CInit
  BY DEF Init, C!CInit
<1> QED
  BY <1>1, <1>2, StepKeepsContract, PTL DEF Spec, KeepsContract, C!Contract
=============================================================================
