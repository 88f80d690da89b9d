----------------------------- MODULE DataProofs -----------------------------
(***************************************************************************)
(* What the node keeps of its traffic and profiles, for any devices, keys, *)
(* directions, sets, pools and amount of traffic: a device is never charged *)
(* more than it moved, and exactly that when no counter was reset; its      *)
(* charts account for the charges; what the resolver's feeder remembers of *)
(* the kernel's sets is in them; addresses are unique and no deleted        *)
(* profile leaves a link.                                                   *)
(***************************************************************************)
EXTENDS Metering, Samples, Feeder, Profiles, FiniteSetTheorems, TLAPS

(* ------------------------------ metering ------------------------------- *)

\* The metering columns, the counters and who may have them.
MeterType ==
  /\ key \in [Devices -> Keys \cup {NoKey}]
  /\ last \in [Devices -> Counters]
  /\ total \in [Devices -> Counters]
  /\ issued \subseteq Keys
  /\ up \subseteq issued
  /\ wire \in [Keys -> Counters]
  /\ seen \subseteq issued
  /\ view \in [Keys -> Counters]
  /\ flowed \in [Devices -> Counters]
  /\ \A d \in Devices : key[d] # NoKey => key[d] \in issued

\* A key nobody has carries no bytes.
UnusedIsZero == \A k \in Keys \ issued : wire[k] = Zero

\* A deleted device has no usage left.
NoRowNoUsage == \A d \in Devices : key[d] = NoKey => total[d] = Zero

\* Room for the next charge: whatever a dump taken now would add, and, with a
\* dump in flight, what its commit and then the next dump would add, has
\* flowed.
RoomFor(d, r) ==
  /\ total[d][r] + delta(last[d][r], wire[key[d]][r]) <= flowed[d][r]
  /\ key[d] \in seen =>
       total[d][r] + delta(last[d][r], view[key[d]][r])
         + delta(view[key[d]][r], wire[key[d]][r]) <= flowed[d][r]

Room == \A d \in Devices, r \in Dirs : key[d] # NoKey => RoomFor(d, r)

IInv == MeterType /\ UnusedIsZero /\ NoRowNoUsage /\ Room

\* The difference of two counters is a counter, zero on no change and on a
\* reset to zero, and a byte adds at most one to it.
LEMMA DeltaFacts ==
  \A a, b \in Nat : /\ delta(a, b) \in Nat
                    /\ delta(a, b + 1) <= delta(a, b) + 1
                    /\ delta(a, a) = 0
                    /\ delta(a, 0) = 0
                    /\ delta(0, b) = b
                    /\ delta(a, b) <= b
  BY DEF delta

\* The numbers the invariant speaks of are naturals.
LEMMA NumbersAreNaturals ==
  ASSUME MeterType, NEW d \in Devices, NEW r \in Dirs
  PROVE  /\ last[d][r] \in Nat /\ total[d][r] \in Nat /\ flowed[d][r] \in Nat
         /\ key[d] # NoKey => /\ key[d] \in issued /\ key[d] \in Keys
                              /\ wire[key[d]][r] \in Nat
                              /\ view[key[d]][r] \in Nat
<1>1. last[d] \in Counters /\ total[d] \in Counters /\ flowed[d] \in Counters
  BY DEF MeterType
<1>2. key[d] # NoKey => /\ key[d] \in issued /\ key[d] \in Keys
                        /\ wire[key[d]] \in Counters /\ view[key[d]] \in Counters
  BY DEF MeterType
<1> QED
  BY <1>1, <1>2 DEF Counters

\* Zero is a counter.
LEMMA ZeroCounter == Zero \in Counters /\ \A r \in Dirs : Zero[r] = 0
  BY DEF Zero, Counters

\* Charges never exceed what flowed, as soon as Room does not.
LEMMA RoomBounds ==
  ASSUME MeterType, NoRowNoUsage, Room PROVE NoOvercount
<1> SUFFICES ASSUME NEW d \in Devices, NEW r \in Dirs
             PROVE  total[d][r] <= flowed[d][r]
  BY DEF NoOvercount
<1>1. CASE key[d] = NoKey
  BY <1>1, NumbersAreNaturals, ZeroCounter DEF NoRowNoUsage
<1>2. CASE key[d] # NoKey
  <2>1. delta(last[d][r], wire[key[d]][r]) \in Nat
    BY <1>2, NumbersAreNaturals, DeltaFacts
  <2>2. total[d][r] + delta(last[d][r], wire[key[d]][r]) <= flowed[d][r]
    BY <1>2 DEF Room, RoomFor
  <2> QED
    BY <2>1, <2>2, NumbersAreNaturals
<1> QED
  BY <1>1, <1>2

\* Metering starts in the invariant.
LEMMA InitIInv == Init => IInv
<1> SUFFICES ASSUME Init PROVE IInv
  OBVIOUS
<1>1. MeterType
  BY ZeroCounter DEF Init, MeterType
<1>2. UnusedIsZero /\ NoRowNoUsage /\ Room
  BY NoKeyAssumption DEF Init, UnusedIsZero, NoRowNoUsage, Room
<1> QED
  BY <1>1, <1>2 DEF IInv

\* The numbers Room speaks of, for a device that has a row.
IsNumber(d, r) ==
  /\ last[d][r] \in Nat /\ total[d][r] \in Nat /\ flowed[d][r] \in Nat
  /\ key[d] \in Keys
  /\ wire[key[d]][r] \in Nat /\ view[key[d]][r] \in Nat

\* Room, one device and direction at a time.
LEMMA RoomAt ==
  ASSUME MeterType, Room, NEW d \in Devices, NEW r \in Dirs, key[d] # NoKey
  PROVE  IsNumber(d, r) /\ RoomFor(d, r)
  BY NumbersAreNaturals DEF Room, IsNumber

\* Every action keeps the invariant.
LEMMA NextIInv == IInv /\ [Next]_vars => IInv'
<1> SUFFICES ASSUME IInv, [Next]_vars PROVE IInv'
  OBVIOUS
<1> USE NoKeyAssumption
<1>a. MeterType /\ UnusedIsZero /\ NoRowNoUsage /\ Room
  BY DEF IInv
<1>b. SUFFICES MeterType' /\ UnusedIsZero' /\ NoRowNoUsage' /\ Room'
  BY DEF IInv
<1>0. CASE UNCHANGED vars
  BY <1>0, <1>a DEF vars, MeterType, UnusedIsZero, NoRowNoUsage, Room, RoomFor
<1>1. ASSUME NEW k \in Keys, AddPeer(k)
      PROVE  MeterType' /\ UnusedIsZero' /\ NoRowNoUsage' /\ Room'
  <2>1. MeterType'
    BY <1>1, <1>a, ZeroCounter DEF AddPeer, MeterType, rows, cycle
  <2>2. UnusedIsZero' /\ NoRowNoUsage'
    BY <1>1, <1>a DEF AddPeer, UnusedIsZero, NoRowNoUsage, MeterType, rows
  <2>3. SUFFICES ASSUME NEW d \in Devices, NEW r \in Dirs, key'[d] # NoKey
                 PROVE  RoomFor(d, r)'
    BY <2>1, <2>2 DEF Room
  <2>4. /\ key'[d] = key[d] /\ total'[d][r] = total[d][r] /\ last'[d][r] = last[d][r]
        /\ view' = view /\ seen' = seen /\ flowed'[d][r] = flowed[d][r]
    BY <1>1 DEF AddPeer, rows, cycle
  <2>5. /\ IsNumber(d, r) /\ RoomFor(d, r)
    BY <1>a, <2>3, <2>4, RoomAt
  <2>6. wire'[key[d]][r] = wire[key[d]][r] \/ wire'[key[d]][r] = 0
    BY <1>1, <1>a, <2>5, ZeroCounter DEF AddPeer, MeterType, IsNumber
  <2> QED
    BY <2>4, <2>5, <2>6 DEF RoomFor, IsNumber, delta
<1>2. ASSUME NEW ks \in SUBSET Keys, NEW stay \in BOOLEAN, ResetCounters(ks, stay)
      PROVE  MeterType' /\ UnusedIsZero' /\ NoRowNoUsage' /\ Room'
  <2>1. MeterType'
    BY <1>2, <1>a, ZeroCounter DEF ResetCounters, MeterType, rows, cycle
  <2>2. UnusedIsZero' /\ NoRowNoUsage'
    BY <1>2, <1>a DEF ResetCounters, UnusedIsZero, NoRowNoUsage, rows
  <2>3. SUFFICES ASSUME NEW d \in Devices, NEW r \in Dirs, key'[d] # NoKey
                 PROVE  RoomFor(d, r)'
    BY <2>1, <2>2 DEF Room
  <2>4. /\ key'[d] = key[d] /\ total'[d][r] = total[d][r] /\ last'[d][r] = last[d][r]
        /\ view' = view /\ seen' = seen /\ flowed'[d][r] = flowed[d][r]
    BY <1>2 DEF ResetCounters, rows, cycle
  <2>5. /\ IsNumber(d, r) /\ RoomFor(d, r)
    BY <1>a, <2>3, <2>4, RoomAt
  <2>6. wire'[key[d]][r] = wire[key[d]][r] \/ wire'[key[d]][r] = 0
    BY <1>2, <2>5, ZeroCounter DEF ResetCounters, IsNumber
  <2> QED
    BY <2>4, <2>5, <2>6 DEF RoomFor, IsNumber, delta
<1>3. ASSUME NEW k \in Keys, NEW q \in Dirs, Traffic(k, q)
      PROVE  MeterType' /\ UnusedIsZero' /\ NoRowNoUsage' /\ Room'
  <2>1. MeterType'
    <3>1. wire[k] \in Counters /\ [wire[k] EXCEPT ![q] = @ + 1] \in Counters
      BY <1>a DEF MeterType, Counters
    <3>2. wire' \in [Keys -> Counters]
      BY <1>3, <1>a, <3>1 DEF Traffic, MeterType
    <3>3. \A d \in Devices : /\ flowed[d] \in Counters
                             /\ [flowed[d] EXCEPT ![q] = @ + 1] \in Counters
      BY <1>a DEF MeterType, Counters
    <3>4. flowed' \in [Devices -> Counters]
      BY <1>3, <3>3 DEF Traffic
    <3> QED
      BY <1>3, <1>a, <3>2, <3>4 DEF Traffic, MeterType, rows, cycle
  <2>2. UnusedIsZero' /\ NoRowNoUsage'
    BY <1>3, <1>a DEF Traffic, UnusedIsZero, NoRowNoUsage, MeterType, rows
  <2>3. SUFFICES ASSUME NEW d \in Devices, NEW r \in Dirs, key'[d] # NoKey
                 PROVE  RoomFor(d, r)'
    BY <2>1, <2>2 DEF Room
  <2>4. /\ key'[d] = key[d] /\ total'[d][r] = total[d][r] /\ last'[d][r] = last[d][r]
        /\ view' = view /\ seen' = seen
    BY <1>3 DEF Traffic, rows, cycle
  <2>5. /\ IsNumber(d, r) /\ RoomFor(d, r)
    BY <1>a, <2>3, <2>4, RoomAt
  <2>6. CASE key[d] = k /\ r = q
    <3>1. /\ wire'[key[d]][r] = wire[key[d]][r] + 1
          /\ flowed'[d][r] = flowed[d][r] + 1
      BY <1>3, <1>a, <2>6 DEF Traffic, MeterType, Counters
    <3> QED
      BY <2>4, <2>5, <3>1 DEF RoomFor, IsNumber, delta
  <2>7. CASE ~(key[d] = k /\ r = q)
    <3>1. /\ wire'[key[d]][r] = wire[key[d]][r]
          /\ flowed'[d][r] = flowed[d][r]
      BY <1>3, <1>a, <2>5, <2>7 DEF Traffic, MeterType, Counters, IsNumber
    <3> QED
      BY <2>4, <2>5, <3>1 DEF RoomFor, IsNumber
  <2> QED
    BY <2>6, <2>7
<1>4. ASSUME NEW e \in Devices, NEW k \in Keys, CreateDevice(e, k)
      PROVE  MeterType' /\ UnusedIsZero' /\ NoRowNoUsage' /\ Room'
  <2>1. MeterType'
    BY <1>4, <1>a, ZeroCounter DEF CreateDevice, MeterType, runtime, cycle
  <2>2. UnusedIsZero' /\ NoRowNoUsage'
    BY <1>4, <1>a DEF CreateDevice, UnusedIsZero, NoRowNoUsage, MeterType, runtime
  <2>3. SUFFICES ASSUME NEW d \in Devices, NEW r \in Dirs, key'[d] # NoKey
                 PROVE  RoomFor(d, r)'
    BY <2>1, <2>2 DEF Room
  <2>4. wire' = wire /\ view' = view /\ seen' = seen
    BY <1>4 DEF CreateDevice, runtime, cycle
  <2>5. CASE d = e
    <3>1. /\ key'[d] = k /\ total'[d][r] = 0 /\ last'[d][r] = 0 /\ flowed'[d][r] = 0
      BY <1>4, <1>a, <2>5, ZeroCounter DEF CreateDevice, MeterType
    <3>2. wire[k][r] = 0 /\ k \notin seen
      BY <1>4, <1>a, ZeroCounter DEF CreateDevice, UnusedIsZero, MeterType
    <3> QED
      BY <2>4, <3>1, <3>2 DEF RoomFor, delta
  <2>6. CASE d # e
    <3>1. /\ key'[d] = key[d] /\ total'[d] = total[d] /\ last'[d] = last[d]
          /\ flowed'[d] = flowed[d]
      BY <1>4, <1>a, <2>6 DEF CreateDevice, MeterType
    <3>2. RoomFor(d, r)
      BY <1>a, <2>3, <3>1, RoomAt
    <3> QED
      BY <2>4, <3>1, <3>2 DEF RoomFor
  <2> QED
    BY <2>5, <2>6
<1>5. ASSUME NEW e \in Devices, NEW k \in Keys, Regenerate(e, k)
      PROVE  MeterType' /\ UnusedIsZero' /\ NoRowNoUsage' /\ Room'
  <2>1. MeterType'
    BY <1>5, <1>a, ZeroCounter DEF Regenerate, MeterType, runtime, cycle
  <2>2. UnusedIsZero' /\ NoRowNoUsage'
    BY <1>5, <1>a DEF Regenerate, UnusedIsZero, NoRowNoUsage, MeterType, runtime
  <2>3. SUFFICES ASSUME NEW d \in Devices, NEW r \in Dirs, key'[d] # NoKey
                 PROVE  RoomFor(d, r)'
    BY <2>1, <2>2 DEF Room
  <2>4. /\ wire' = wire /\ view' = view /\ seen' = seen
        /\ total' = total /\ flowed' = flowed
    BY <1>5 DEF Regenerate, runtime, cycle
  <2>5. CASE d = e
    <3>1. /\ key'[d] = k /\ last'[d][r] = 0
      BY <1>5, <1>a, <2>5, ZeroCounter DEF Regenerate, MeterType
    <3>2. wire[k][r] = 0 /\ k \notin seen
      BY <1>5, <1>a, ZeroCounter DEF Regenerate, UnusedIsZero, MeterType
    <3>3. total[d][r] <= flowed[d][r] /\ total[d][r] \in Nat
      BY <1>a, RoomBounds, NumbersAreNaturals DEF NoOvercount
    <3> QED
      BY <2>4, <3>1, <3>2, <3>3 DEF RoomFor, delta
  <2>6. CASE d # e
    <3>1. /\ key'[d] = key[d] /\ last'[d] = last[d]
      BY <1>5, <1>a, <2>6 DEF Regenerate, MeterType
    <3>2. RoomFor(d, r)
      BY <1>a, <2>3, <3>1, RoomAt
    <3> QED
      BY <2>4, <3>1, <3>2 DEF RoomFor
  <2> QED
    BY <2>5, <2>6
<1>6. ASSUME NEW e \in Devices, DeleteDevice(e)
      PROVE  MeterType' /\ UnusedIsZero' /\ NoRowNoUsage' /\ Room'
  <2>1. MeterType'
    BY <1>6, <1>a, ZeroCounter DEF DeleteDevice, MeterType, runtime, cycle
  <2>2. UnusedIsZero' /\ NoRowNoUsage'
    BY <1>6, <1>a DEF DeleteDevice, UnusedIsZero, NoRowNoUsage, MeterType, runtime
  <2>3. SUFFICES ASSUME NEW d \in Devices, NEW r \in Dirs, key'[d] # NoKey
                 PROVE  RoomFor(d, r)'
    BY <2>1, <2>2 DEF Room
  <2>4. /\ wire' = wire /\ view' = view /\ seen' = seen
        /\ key'[d] = key[d] /\ total'[d] = total[d] /\ last'[d] = last[d]
        /\ flowed'[d] = flowed[d]
    BY <1>6, <1>a, <2>3 DEF DeleteDevice, MeterType, runtime, cycle
  <2>5. RoomFor(d, r)
    BY <1>a, <2>3, <2>4, RoomAt
  <2> QED
    BY <2>4, <2>5 DEF RoomFor
<1>7. CASE ResetTraffic
  <2>1. ASSUME NEW d \in Devices, NEW r \in Dirs
        PROVE  flowed[d][r] - total[d][r] \in Nat
    BY <1>a, RoomBounds, NumbersAreNaturals DEF NoOvercount
  <2>2. MeterType'
    <3>1. flowed' \in [Devices -> Counters]
      BY <1>7, <2>1 DEF ResetTraffic, Counters
    <3> QED
      BY <1>7, <1>a, <3>1, ZeroCounter DEF ResetTraffic, MeterType, runtime, cycle
  <2>3. UnusedIsZero' /\ NoRowNoUsage'
    BY <1>7, <1>a DEF ResetTraffic, UnusedIsZero, NoRowNoUsage, runtime
  <2>4. SUFFICES ASSUME NEW d \in Devices, NEW r \in Dirs, key'[d] # NoKey
                 PROVE  RoomFor(d, r)'
    BY <2>2, <2>3 DEF Room
  <2>5. /\ key' = key /\ wire' = wire /\ view' = view /\ seen' = seen /\ last' = last
        /\ total'[d][r] = 0 /\ flowed'[d][r] = flowed[d][r] - total[d][r]
    BY <1>7, ZeroCounter DEF ResetTraffic, runtime, cycle
  <2>6. IsNumber(d, r) /\ RoomFor(d, r)
    BY <1>a, <2>4, <2>5, RoomAt
  <2> QED
    BY <2>5, <2>6 DEF RoomFor, IsNumber, delta
<1>8. CASE StartCycle \/ AbortCycle
  <2>1. MeterType'
    BY <1>8, <1>a, ZeroCounter DEF StartCycle, AbortCycle, EndCycle, MeterType, rows, runtime
  <2>2. UnusedIsZero' /\ NoRowNoUsage' /\ Room'
    BY <1>8, <1>a DEF StartCycle, AbortCycle, EndCycle, UnusedIsZero, NoRowNoUsage,
                      Room, RoomFor, rows, runtime
  <2> QED
    BY <2>1, <2>2
<1>9. ASSUME NEW ks \in SUBSET Keys, DumpInterface(ks)
      PROVE  MeterType' /\ UnusedIsZero' /\ NoRowNoUsage' /\ Room'
  <2>1. MeterType'
    BY <1>9, <1>a DEF DumpInterface, MeterType, rows, runtime
  <2>2. UnusedIsZero' /\ NoRowNoUsage'
    BY <1>9, <1>a DEF DumpInterface, UnusedIsZero, NoRowNoUsage, rows, runtime
  <2>3. SUFFICES ASSUME NEW d \in Devices, NEW r \in Dirs, key'[d] # NoKey
                 PROVE  RoomFor(d, r)'
    BY <2>1, <2>2 DEF Room
  <2>4. /\ key' = key /\ wire' = wire /\ last' = last /\ total' = total
        /\ flowed' = flowed /\ seen' = seen \cup ks
    BY <1>9 DEF DumpInterface, rows, runtime
  <2>5. IsNumber(d, r) /\ RoomFor(d, r)
    BY <1>a, <2>3, <2>4, RoomAt
  <2>6. CASE key[d] \in ks
    <3>1. view'[key[d]][r] = wire[key[d]][r]
      BY <1>9, <2>5, <2>6 DEF DumpInterface, IsNumber
    <3> QED
      BY <2>4, <2>5, <3>1 DEF RoomFor, IsNumber, delta
  <2>7. CASE key[d] \notin ks
    <3>1. view'[key[d]][r] = view[key[d]][r]
      BY <1>9, <2>5, <2>7 DEF DumpInterface, IsNumber
    <3> QED
      BY <2>4, <2>5, <2>7, <3>1 DEF RoomFor
  <2> QED
    BY <2>6, <2>7
<1>10. ASSUME NEW changed \in SUBSET Devices, CommitCycle(changed)
       PROVE  MeterType' /\ UnusedIsZero' /\ NoRowNoUsage' /\ Room'
  <2>1. ASSUME NEW d \in Devices, NEW r \in Dirs
        PROVE  /\ Delta(d, r) \in Nat
               /\ total'[d][r] = total[d][r] + Delta(d, r)
               /\ last'[d] = IF Written(d, changed) THEN view[key[d]] ELSE last[d]
    <3>1. Delta(d, r) \in Nat
      BY <1>a, NumbersAreNaturals, DeltaFacts DEF Delta, Observed
    <3> QED
      BY <1>10, <3>1 DEF CommitCycle
  <2>2. MeterType'
    <3>1. total' \in [Devices -> Counters]
      BY <1>10, <1>a, <2>1, NumbersAreNaturals DEF CommitCycle, Counters
    <3>2. \A d \in Devices : Written(d, changed) => view[key[d]] \in Counters
      BY <1>a DEF Written, Observed, MeterType
    <3>3. last' \in [Devices -> Counters]
      BY <1>10, <1>a, <3>2 DEF CommitCycle, MeterType
    <3> QED
      BY <1>10, <1>a, <3>1, <3>3, ZeroCounter
         DEF CommitCycle, EndCycle, MeterType, runtime
  <2>3. UnusedIsZero'
    BY <1>10, <1>a DEF CommitCycle, UnusedIsZero, runtime
  <2>4. NoRowNoUsage'
    <3> SUFFICES ASSUME NEW d \in Devices, key'[d] = NoKey
                 PROVE  total'[d] = Zero
      BY DEF NoRowNoUsage
    <3>1. key[d] = NoKey /\ total[d] = Zero
      BY <1>10, <1>a DEF CommitCycle, NoRowNoUsage
    <3>2. \A r \in Dirs : Delta(d, r) = 0
      BY <3>1 DEF Delta, Observed
    <3>3. total'[d] = [r \in Dirs |-> total[d][r] + Delta(d, r)]
      BY <1>10 DEF CommitCycle
    <3>4. total'[d] = [r \in Dirs |-> 0]
      BY <3>1, <3>2, <3>3, ZeroCounter
    <3> QED
      BY <3>4 DEF Zero
  <2>5. SUFFICES ASSUME NEW d \in Devices, NEW r \in Dirs, key'[d] # NoKey
                 PROVE  RoomFor(d, r)'
    BY <2>2, <2>3, <2>4 DEF Room
  <2>6. key' = key /\ wire' = wire /\ flowed' = flowed /\ seen' = {}
    BY <1>10 DEF CommitCycle, EndCycle, runtime
  <2>7. IsNumber(d, r) /\ RoomFor(d, r)
    BY <1>a, <2>5, <2>6, RoomAt
  <2>8. CASE Written(d, changed)
    <3>1. key[d] \in seen /\ Delta(d, r) = delta(last[d][r], view[key[d]][r])
      BY <2>8 DEF Written, Observed, Delta
    <3>2. /\ last'[d][r] = view[key[d]][r]
          /\ total'[d][r] = total[d][r] + delta(last[d][r], view[key[d]][r])
      BY <2>1, <2>8, <3>1
    <3> QED
      BY <2>6, <2>7, <3>1, <3>2 DEF RoomFor
  <2>9. CASE ~Written(d, changed)
    <3>1. Delta(d, r) = 0
      BY <2>9 DEF Written, Delta
    <3>2. last'[d][r] = last[d][r] /\ total'[d][r] = total[d][r]
      BY <2>1, <2>7, <2>9, <3>1 DEF IsNumber
    <3> QED
      BY <2>6, <2>7, <3>2 DEF RoomFor
  <2> QED
    BY <2>8, <2>9
<1> QED
  BY <1>0, <1>1, <1>2, <1>3, <1>4, <1>5, <1>6, <1>7, <1>8, <1>9, <1>10 DEF Next

\* The balance of a device whose counters were never reset behind its
\* baseline: charged plus not yet charged is what flowed, and a dump in flight
\* lies between the baseline and the counters.
Level(d, r) ==
  /\ last[d][r] <= wire[key[d]][r]
  /\ flowed[d][r] + last[d][r] = total[d][r] + wire[key[d]][r]
  /\ key[d] \in seen =>
       last[d][r] <= view[key[d]][r] /\ view[key[d]][r] <= wire[key[d]][r]

Levelled == \A d \in Devices, r \in Dirs : key[d] # NoKey /\ pristine[d] => Level(d, r)

\* A key that is no peer has no counters.
DownIsZero == \A k \in Keys \ up : wire[k] = Zero

\* Every device has its mark.
HasMarks == DOMAIN pristine = Devices

XInv == IInv /\ DownIsZero /\ HasMarks /\ Levelled

\* Metering starts in it.
LEMMA InitXInv == Init => XInv
  BY InitIInv, NoKeyAssumption DEF Init, XInv, DownIsZero, HasMarks, Levelled

\* Every action keeps it.
LEMMA NextXInv == XInv /\ [Next]_vars => XInv'
<1> SUFFICES ASSUME XInv, [Next]_vars PROVE XInv'
  OBVIOUS
<1> USE NoKeyAssumption
<1>a. MeterType /\ UnusedIsZero /\ NoRowNoUsage /\ Room /\ DownIsZero /\ Levelled
  BY DEF XInv, IInv
<1>b. IInv'
  BY NextIInv DEF XInv
<1>m. HasMarks /\ HasMarks'
  BY DEF XInv, HasMarks, Next, vars, AddPeer, ResetCounters, Traffic, CreateDevice, Regenerate,
         DeleteDevice, ResetTraffic, StartCycle, DumpInterface, CommitCycle, AbortCycle
<1>c. SUFFICES DownIsZero' /\ Levelled'
  BY <1>b, <1>m DEF XInv
<1>d. ASSUME NEW d \in Devices, NEW r \in Dirs, key[d] # NoKey, pristine[d]
      PROVE  IsNumber(d, r) /\ Level(d, r)
  BY <1>a, <1>d, RoomAt DEF Levelled
<1>0. CASE UNCHANGED vars
  BY <1>0, <1>a DEF vars, DownIsZero, Levelled, Level
<1>1. ASSUME NEW k \in Keys, AddPeer(k)
      PROVE  DownIsZero' /\ Levelled'
  <2>1. DownIsZero'
    BY <1>1, <1>a DEF AddPeer, DownIsZero, MeterType
  <2>2. SUFFICES ASSUME NEW d \in Devices, NEW r \in Dirs, key'[d] # NoKey, pristine'[d]
                 PROVE  Level(d, r)'
    BY <2>1 DEF Levelled
  <2>3. /\ key' = key /\ total' = total /\ last' = last /\ view' = view /\ seen' = seen
        /\ flowed' = flowed /\ pristine' = pristine
    BY <1>1 DEF AddPeer, rows, cycle
  <2>4. wire' = wire
    BY <1>1, <1>a DEF AddPeer, DownIsZero, MeterType
  <2> QED
    BY <1>d, <2>2, <2>3, <2>4 DEF Level
<1>2. ASSUME NEW ks \in SUBSET Keys, NEW stay \in BOOLEAN, ResetCounters(ks, stay)
      PROVE  DownIsZero' /\ Levelled'
  <2>1. DownIsZero'
    BY <1>2, <1>a DEF ResetCounters, DownIsZero, MeterType
  <2>2. SUFFICES ASSUME NEW d \in Devices, NEW r \in Dirs, key'[d] # NoKey, pristine'[d]
                 PROVE  Level(d, r)'
    BY <2>1 DEF Levelled
  <2>3. /\ key' = key /\ total' = total /\ last' = last /\ view' = view /\ seen' = seen
        /\ flowed' = flowed
    BY <1>2 DEF ResetCounters, rows, cycle
  <2>4. pristine[d] /\ key[d] \notin ks
    BY <1>2, <2>2 DEF ResetCounters
  <2>5. IsNumber(d, r) /\ Level(d, r)
    BY <1>d, <2>2, <2>3, <2>4
  <2>6. wire'[key[d]] = wire[key[d]]
    BY <1>2, <2>4, <2>5 DEF ResetCounters, IsNumber
  <2> QED
    BY <2>3, <2>5, <2>6 DEF Level
<1>3. ASSUME NEW k \in Keys, NEW q \in Dirs, Traffic(k, q)
      PROVE  DownIsZero' /\ Levelled'
  <2>1. DownIsZero'
    BY <1>3, <1>a DEF Traffic, DownIsZero, MeterType
  <2>2. SUFFICES ASSUME NEW d \in Devices, NEW r \in Dirs, key'[d] # NoKey, pristine'[d]
                 PROVE  Level(d, r)'
    BY <2>1 DEF Levelled
  <2>3. /\ key' = key /\ total' = total /\ last' = last /\ view' = view /\ seen' = seen
        /\ pristine' = pristine
    BY <1>3 DEF Traffic, rows, cycle
  <2>4. IsNumber(d, r) /\ Level(d, r)
    BY <1>d, <2>2, <2>3
  <2>5. CASE key[d] = k /\ r = q
    <3>1. wire'[key[d]][r] = wire[key[d]][r] + 1 /\ flowed'[d][r] = flowed[d][r] + 1
      BY <1>3, <1>a, <2>5 DEF Traffic, MeterType, Counters
    <3> QED
      BY <2>3, <2>4, <3>1 DEF Level, IsNumber
  <2>6. CASE ~(key[d] = k /\ r = q)
    <3>1. wire'[key[d]][r] = wire[key[d]][r] /\ flowed'[d][r] = flowed[d][r]
      BY <1>3, <1>a, <2>4, <2>6 DEF Traffic, MeterType, Counters, IsNumber
    <3> QED
      BY <2>3, <2>4, <3>1 DEF Level
  <2> QED
    BY <2>5, <2>6
<1>4. ASSUME NEW e \in Devices, NEW k \in Keys, CreateDevice(e, k)
      PROVE  DownIsZero' /\ Levelled'
  <2>1. DownIsZero'
    BY <1>4, <1>a DEF CreateDevice, DownIsZero, runtime
  <2>2. SUFFICES ASSUME NEW d \in Devices, NEW r \in Dirs, key'[d] # NoKey, pristine'[d]
                 PROVE  Level(d, r)'
    BY <2>1 DEF Levelled
  <2>3. wire' = wire /\ view' = view /\ seen' = seen
    BY <1>4 DEF CreateDevice, runtime, cycle
  <2>4. CASE d = e
    <3>1. /\ key'[d] = k /\ total'[d][r] = 0 /\ last'[d][r] = 0 /\ flowed'[d][r] = 0
      BY <1>4, <1>a, <2>4, ZeroCounter DEF CreateDevice, MeterType
    <3>2. wire[k][r] = 0 /\ k \notin seen
      BY <1>4, <1>a, ZeroCounter DEF CreateDevice, UnusedIsZero, MeterType
    <3> QED
      BY <2>3, <3>1, <3>2 DEF Level
  <2>5. CASE d # e
    <3>1. /\ key'[d] = key[d] /\ total'[d] = total[d] /\ last'[d] = last[d]
          /\ flowed'[d] = flowed[d]
      BY <1>4, <1>a, <2>5 DEF CreateDevice, MeterType
    <3>2. pristine[d]
      BY <1>4, <2>2, <2>5 DEF CreateDevice
    <3>3. Level(d, r)
      BY <1>d, <2>2, <3>1, <3>2
    <3> QED
      BY <2>3, <3>1, <3>3 DEF Level
  <2> QED
    BY <2>4, <2>5
<1>5. ASSUME NEW e \in Devices, NEW k \in Keys, Regenerate(e, k)
      PROVE  DownIsZero' /\ Levelled'
  <2>1. DownIsZero'
    BY <1>5, <1>a DEF Regenerate, DownIsZero, runtime
  <2>2. SUFFICES ASSUME NEW d \in Devices, NEW r \in Dirs, key'[d] # NoKey, pristine'[d]
                 PROVE  Level(d, r)'
    BY <2>1 DEF Levelled
  <2>3. /\ wire' = wire /\ view' = view /\ seen' = seen
        /\ total' = total /\ flowed' = flowed
    BY <1>5 DEF Regenerate, runtime, cycle
  <2>4. CASE d = e
    <3>1. /\ key'[d] = k /\ last'[d][r] = 0
      BY <1>5, <1>a, <2>4, ZeroCounter DEF Regenerate, MeterType
    <3>2. wire[k][r] = 0 /\ k \notin seen
      BY <1>5, <1>a, ZeroCounter DEF Regenerate, UnusedIsZero, MeterType
    <3>3. total[d] = flowed[d]
      BY <1>5, <1>m, <2>2, <2>4 DEF Regenerate, HasMarks
    <3>4. total[d][r] \in Nat
      BY <1>a, NumbersAreNaturals
    <3> QED
      BY <2>3, <3>1, <3>2, <3>3, <3>4 DEF Level
  <2>5. CASE d # e
    <3>1. /\ key'[d] = key[d] /\ last'[d] = last[d]
      BY <1>5, <1>a, <2>5 DEF Regenerate, MeterType
    <3>2. pristine[d]
      BY <1>5, <2>2, <2>5 DEF Regenerate
    <3>3. Level(d, r)
      BY <1>d, <2>2, <3>1, <3>2
    <3> QED
      BY <2>3, <3>1, <3>3 DEF Level
  <2> QED
    BY <2>4, <2>5
<1>6. ASSUME NEW e \in Devices, DeleteDevice(e)
      PROVE  DownIsZero' /\ Levelled'
  <2>1. DownIsZero'
    BY <1>6, <1>a DEF DeleteDevice, DownIsZero, runtime
  <2>2. SUFFICES ASSUME NEW d \in Devices, NEW r \in Dirs, key'[d] # NoKey, pristine'[d]
                 PROVE  Level(d, r)'
    BY <2>1 DEF Levelled
  <2>3. /\ wire' = wire /\ view' = view /\ seen' = seen /\ pristine' = pristine
        /\ key'[d] = key[d] /\ total'[d] = total[d] /\ last'[d] = last[d]
        /\ flowed'[d] = flowed[d]
    BY <1>6, <1>a, <2>2 DEF DeleteDevice, MeterType, runtime, cycle
  <2>4. Level(d, r)
    BY <1>d, <2>2, <2>3
  <2> QED
    BY <2>3, <2>4 DEF Level
<1>7. CASE ResetTraffic
  <2>1. DownIsZero'
    BY <1>7, <1>a DEF ResetTraffic, DownIsZero, runtime
  <2>2. SUFFICES ASSUME NEW d \in Devices, NEW r \in Dirs, key'[d] # NoKey, pristine'[d]
                 PROVE  Level(d, r)'
    BY <2>1 DEF Levelled
  <2>3. /\ key' = key /\ wire' = wire /\ view' = view /\ seen' = seen /\ last' = last
        /\ pristine' = pristine
        /\ total'[d][r] = 0 /\ flowed'[d][r] = flowed[d][r] - total[d][r]
    BY <1>7, ZeroCounter DEF ResetTraffic, runtime, cycle
  <2>4. IsNumber(d, r) /\ Level(d, r)
    BY <1>d, <2>2, <2>3
  <2>5. flowed[d][r] - total[d][r] + last[d][r] = 0 + wire[key[d]][r]
    BY <2>4 DEF Level, IsNumber
  <2> QED
    BY <2>3, <2>4, <2>5 DEF Level
<1>8. CASE StartCycle \/ AbortCycle
  BY <1>8, <1>a DEF StartCycle, AbortCycle, EndCycle, DownIsZero, Levelled, Level, rows, runtime
<1>9. ASSUME NEW ks \in SUBSET Keys, DumpInterface(ks)
      PROVE  DownIsZero' /\ Levelled'
  <2>1. DownIsZero'
    BY <1>9, <1>a DEF DumpInterface, DownIsZero, runtime
  <2>2. SUFFICES ASSUME NEW d \in Devices, NEW r \in Dirs, key'[d] # NoKey, pristine'[d]
                 PROVE  Level(d, r)'
    BY <2>1 DEF Levelled
  <2>3. /\ key' = key /\ wire' = wire /\ last' = last /\ total' = total
        /\ flowed' = flowed /\ seen' = seen \cup ks /\ pristine' = pristine
    BY <1>9 DEF DumpInterface, rows, runtime
  <2>4. IsNumber(d, r) /\ Level(d, r)
    BY <1>d, <2>2, <2>3
  <2>5. view'[key[d]] = IF key[d] \in ks THEN wire[key[d]] ELSE view[key[d]]
    BY <1>9, <2>4 DEF DumpInterface, IsNumber
  <2> QED
    BY <2>3, <2>4, <2>5 DEF Level, IsNumber
<1>10. ASSUME NEW changed \in SUBSET Devices, CommitCycle(changed)
       PROVE  DownIsZero' /\ Levelled'
  <2>1. DownIsZero'
    BY <1>10, <1>a DEF CommitCycle, DownIsZero, runtime
  <2>2. SUFFICES ASSUME NEW d \in Devices, NEW r \in Dirs, key'[d] # NoKey, pristine'[d]
                 PROVE  Level(d, r)'
    BY <2>1 DEF Levelled
  <2>3. /\ key' = key /\ wire' = wire /\ flowed' = flowed /\ seen' = {} /\ pristine' = pristine
        /\ total'[d][r] = total[d][r] + Delta(d, r)
        /\ last'[d] = IF Written(d, changed) THEN view[key[d]] ELSE last[d]
    BY <1>10 DEF CommitCycle, EndCycle, runtime
  <2>4. IsNumber(d, r) /\ Level(d, r)
    BY <1>d, <2>2, <2>3
  <2>5. CASE Written(d, changed)
    <3>1. key[d] \in seen /\ Delta(d, r) = delta(last[d][r], view[key[d]][r])
      BY <2>5 DEF Written, Observed, Delta
    <3> QED
      BY <2>3, <2>4, <2>5, <3>1 DEF Level, IsNumber, delta
  <2>6. CASE ~Written(d, changed)
    <3>1. Delta(d, r) = 0
      BY <2>6 DEF Written, Delta
    <3> QED
      BY <2>3, <2>4, <2>6, <3>1 DEF Level, IsNumber
  <2> QED
    BY <2>5, <2>6
<1> QED
  BY <1>0, <1>1, <1>2, <1>3, <1>4, <1>5, <1>6, <1>7, <1>8, <1>9, <1>10 DEF Next

\* No double counting, and nothing lost while no counter is reset: across
\* rekeys, partial dumps, usage resets and rolled back cycles a device is never
\* charged more than it moved, and charged plus not yet charged is exactly
\* that as long as the counters behind its baseline last.
THEOREM ChargesAreSound == Spec => []ChargesSound
<1>1. XInv => ChargesSound
  <2> SUFFICES ASSUME XInv PROVE ChargesSound
    OBVIOUS
  <2>1. NoOvercount
    BY RoomBounds DEF XInv, IInv
  <2>2. ExactWithoutResets
    BY DEF XInv, Levelled, Level, ExactWithoutResets
  <2> QED
    BY <2>1, <2>2 DEF ChargesSound
<1> QED
  BY InitXInv, NextXInv, <1>1, PTL DEF Spec

(* ------------------------- sums over the devices ------------------------- *)

\* A non-empty set of naturals has a least element.
LEMMA LeastNatural ==
  ASSUME NEW S, S \subseteq Nat, S # {}
  PROVE  \E x \in S : \A y \in S : x <= y
<1>1. PICK x \in S : \A y \in S : ~(<<y, x>> \in OpToRel(<, Nat))
  BY NatLessThanWellFounded, WFMin
<1>2. ASSUME NEW y \in S, y < x PROVE <<y, x>> \in OpToRel(<, Nat)
  <2>1. <<y, x>> \in Nat \X Nat /\ <<y, x>>[1] < <<y, x>>[2]
    BY <1>2
  <2> QED BY <2>1 DEF OpToRel
<1>3. ASSUME NEW y \in S PROVE x <= y
  <2>1. ~(y < x) BY <1>1, <1>2
  <2> QED BY <2>1
<1> QED BY <1>3

\* Induction over the naturals, for a set of them.
LEMMA SetInduction ==
  ASSUME NEW G, 0 \in G, \A n \in Nat : n \in G => n + 1 \in G
  PROVE  \A n \in Nat : n \in G
<1> SUFFICES ASSUME Nat \ G # {} PROVE FALSE
  OBVIOUS
<1>1. PICK n \in Nat \ G : \A m \in Nat \ G : n <= m
  BY LeastNatural
<1>2. n - 1 \in Nat /\ n - 1 < n /\ n = (n - 1) + 1
  BY <1>1
<1> QED BY <1>1, <1>2

\* The element a sum takes next.
NextOf(s) == CHOOSE x \in s : TRUE

\* What a sum over s is, from the sums g over its subsets.
SumStep(f, g, s) == IF s = {} THEN 0 ELSE f[NextOf(s)] + g[s \ {NextOf(s)}]

\* The sums of f over the sets of devices.
SumsOf(f) == CHOOSE g : g = [s \in SUBSET Devices |-> SumStep(f, g, s)]

\* A sum over the devices is the last of them.
LEMMA SumIsPartial == ASSUME NEW f PROVE SumOver(f) = SumsOf(f)[Devices]
  BY DEF SumOver, MapThenSumSet, MapThenFoldSet, SumStep, NextOf, SumsOf

\* Taking the next element leaves a set with one device less.
LEMMA OneLess ==
  ASSUME NEW s \in SUBSET Devices, s # {}
  PROVE  /\ NextOf(s) \in s /\ NextOf(s) \in Devices
         /\ s \ {NextOf(s)} \in SUBSET Devices
         /\ Cardinality(s) \in Nat
         /\ Cardinality(s \ {NextOf(s)}) = Cardinality(s) - 1
         /\ Cardinality(s \ {NextOf(s)}) \in Nat
<1>1. NextOf(s) \in s
  BY DEF NextOf
<1>2. IsFiniteSet(s)
  BY DevicesAssumption, FS_Subset
<1>3. IsFiniteSet(s \ {NextOf(s)}) /\ Cardinality(s \ {NextOf(s)}) = Cardinality(s) - 1
  BY <1>1, <1>2, FS_RemoveElement
<1> QED
  BY <1>1, <1>2, <1>3, FS_CardinalityType

\* A set of devices of size zero is empty.
LEMMA SizeZero ==
  ASSUME NEW s \in SUBSET Devices, Cardinality(s) <= 0 PROVE s = {}
<1>1. IsFiniteSet(s)
  BY DevicesAssumption, FS_Subset
<1>2. Cardinality(s) = 0
  BY <1>1, FS_CardinalityType
<1> QED BY <1>1, <1>2, FS_EmptySet

\* Every set of devices is reached from the empty one by the elements a sum
\* takes: a set of sets closed that way holds them all.
LEMMA SubsetInduction ==
  ASSUME NEW P, {} \in P,
         \A s \in SUBSET Devices : s # {} /\ s \ {NextOf(s)} \in P => s \in P
  PROVE  \A s \in SUBSET Devices : s \in P
<1> DEFINE G == {n \in Nat : \A s \in SUBSET Devices : Cardinality(s) <= n => s \in P}
<1>1. 0 \in G
  BY SizeZero
<1>2. ASSUME NEW n \in Nat, n \in G PROVE n + 1 \in G
  <2>1. ASSUME NEW s \in SUBSET Devices, Cardinality(s) <= n + 1, s # {} PROVE s \in P
    <3>1. Cardinality(s \ {NextOf(s)}) <= n /\ s \ {NextOf(s)} \in SUBSET Devices
      BY <2>1, OneLess
    <3>2. s \ {NextOf(s)} \in P
      BY <1>2, <3>1
    <3> QED BY <2>1, <3>2
  <2> QED BY <2>1
<1>3. \A n \in Nat : n \in G
  <2> HIDE DEF G
  <2> QED BY <1>1, <1>2, SetInduction
<1>4. ASSUME NEW s \in SUBSET Devices PROVE s \in P
  <2>1. IsFiniteSet(s)
    BY DevicesAssumption, FS_Subset
  <2>2. Cardinality(s) \in Nat /\ Cardinality(s) <= Cardinality(s)
    BY <2>1, FS_CardinalityType
  <2> QED BY <1>3, <2>2
<1> QED BY <1>4

\* The sums over the sets of devices exist: they do up to any size.
LEMMA PartialExists ==
  ASSUME NEW f \in [Devices -> Nat]
  PROVE  /\ SumsOf(f) = [s \in SUBSET Devices |-> SumStep(f, SumsOf(f), s)]
         /\ SumsOf(f) \in [SUBSET Devices -> Nat]
<1> DEFINE Sums == [SUBSET Devices -> Nat]
           UpTo(g, n) == \A s \in SUBSET Devices : Cardinality(s) <= n => g[s] = SumStep(f, g, s)
           G == {n \in Nat : \E g \in Sums : UpTo(g, n)}
<1>1. 0 \in G
  <2> DEFINE z == [s \in SUBSET Devices |-> 0]
  <2>1. z \in Sums
    OBVIOUS
  <2>2. ASSUME NEW s \in SUBSET Devices, Cardinality(s) <= 0 PROVE z[s] = SumStep(f, z, s)
    <3>1. s = {}
      BY <2>2, SizeZero
    <3> QED BY <3>1 DEF SumStep
  <2> HIDE DEF z
  <2> QED BY <2>1, <2>2
<1>2. ASSUME NEW n \in Nat, n \in G PROVE n + 1 \in G
  <2>1. PICK g \in Sums : UpTo(g, n)
    BY <1>2
  <2> DEFINE h == [s \in SUBSET Devices |-> IF Cardinality(s) <= n THEN g[s] ELSE SumStep(f, g, s)]
  <2>2. \A s \in SUBSET Devices : SumStep(f, g, s) \in Nat
    BY OneLess DEF SumStep
  <2>3. h \in Sums
    BY <2>2
  <2>4. \A s \in SUBSET Devices : Cardinality(s) <= n => h[s] = g[s]
    OBVIOUS
  <2>5. \A s \in SUBSET Devices : h[s] = SumStep(f, g, s)
    BY <2>1
  <2> HIDE DEF h
  <2>6. ASSUME NEW s \in SUBSET Devices, Cardinality(s) <= n + 1 PROVE h[s] = SumStep(f, h, s)
    <3>1. CASE s = {}
      BY <3>1, <2>5 DEF SumStep
    <3>2. CASE s # {}
      <4>1. Cardinality(s \ {NextOf(s)}) <= n /\ s \ {NextOf(s)} \in SUBSET Devices
        BY <2>6, <3>2, OneLess
      <4>2. h[s \ {NextOf(s)}] = g[s \ {NextOf(s)}]
        BY <4>1, <2>4
      <4> QED BY <3>2, <2>5, <4>2 DEF SumStep
    <3> QED BY <3>1, <3>2
  <2> QED BY <2>3, <2>6
<1> HIDE DEF G
<1>3. Cardinality(Devices) \in G
  <2>1. Cardinality(Devices) \in Nat BY DevicesAssumption, FS_CardinalityType
  <2> QED BY <1>1, <1>2, <2>1, SetInduction
<1>4. PICK g \in Sums : UpTo(g, Cardinality(Devices))
  BY <1>3 DEF G
<1>5. \A s \in SUBSET Devices : Cardinality(s) <= Cardinality(Devices)
  BY DevicesAssumption, FS_Subset
<1>6. g = [s \in SUBSET Devices |-> SumStep(f, g, s)]
  <2>1. \A s \in SUBSET Devices : g[s] = SumStep(f, g, s)
    BY <1>4, <1>5
  <2> QED BY <2>1
<1>7. SumsOf(f) = [s \in SUBSET Devices |-> SumStep(f, SumsOf(f), s)]
  BY <1>6 DEF SumsOf
<1>8. \A s \in SUBSET Devices : SumsOf(f)[s] = SumStep(f, SumsOf(f), s)
  BY <1>7
<1> DEFINE P == {s \in SUBSET Devices : SumsOf(f)[s] \in Nat}
<1>9. {} \in P
  <2>1. SumsOf(f)[{}] = 0
    BY <1>8 DEF SumStep
  <2> QED BY <2>1
<1>10. ASSUME NEW s \in SUBSET Devices, s # {}, s \ {NextOf(s)} \in P PROVE s \in P
  <2>1. SumsOf(f)[s] = f[NextOf(s)] + SumsOf(f)[s \ {NextOf(s)}]
    BY <1>8, <1>10 DEF SumStep
  <2>2. f[NextOf(s)] \in Nat
    BY <1>10, OneLess
  <2> QED BY <1>10, <2>1, <2>2
<1>11. \A s \in SUBSET Devices : s \in P
  <2> HIDE DEF P
  <2> QED BY <1>9, <1>10, SubsetInduction
<1>12. SumsOf(f) \in [SUBSET Devices -> Nat]
  BY <1>7, <1>11
<1> QED BY <1>7, <1>12

\* The sums of f, one element at a time.
LEMMA PartialStep ==
  ASSUME NEW f \in [Devices -> Nat]
  PROVE  /\ SumsOf(f)[{}] = 0
         /\ \A s \in SUBSET Devices :
              /\ SumsOf(f)[s] \in Nat
              /\ s # {} => /\ NextOf(s) \in s /\ NextOf(s) \in Devices
                          /\ s \ {NextOf(s)} \in SUBSET Devices
                          /\ SumsOf(f)[s] = f[NextOf(s)] + SumsOf(f)[s \ {NextOf(s)}]
<1>1. \A s \in SUBSET Devices : SumsOf(f)[s] = SumStep(f, SumsOf(f), s)
  BY PartialExists
<1>2. \A s \in SUBSET Devices : SumsOf(f)[s] \in Nat
  BY PartialExists
<1>3. SumsOf(f)[{}] = 0
  BY <1>1 DEF SumStep
<1>4. ASSUME NEW s \in SUBSET Devices, s # {}
      PROVE  SumsOf(f)[s] = f[NextOf(s)] + SumsOf(f)[s \ {NextOf(s)}]
  BY <1>1, <1>4 DEF SumStep
<1> QED BY <1>2, <1>3, <1>4, OneLess

\* A sum of counters is a counter.
LEMMA SumType == ASSUME NEW f \in [Devices -> Nat] PROVE SumOver(f) \in Nat
<1>1. Devices \in SUBSET Devices
  OBVIOUS
<1> QED BY <1>1, PartialStep, SumIsPartial

\* Adding to every device adds the sum of what is added.
LEMMA SumAdds ==
  ASSUME NEW f \in [Devices -> Nat], NEW g \in [Devices -> Nat], NEW h \in [Devices -> Nat],
         \A d \in Devices : h[d] = f[d] + g[d]
  PROVE  SumOver(h) = SumOver(f) + SumOver(g)
<1> DEFINE P == {s \in SUBSET Devices : SumsOf(h)[s] = SumsOf(f)[s] + SumsOf(g)[s]}
<1>1. {} \in P
  BY PartialStep
<1>2. ASSUME NEW s \in SUBSET Devices, s # {}, s \ {NextOf(s)} \in P PROVE s \in P
  <2> DEFINE x == NextOf(s)
             t == s \ {NextOf(s)}
  <2>1. x \in Devices /\ t \in SUBSET Devices
    BY <1>2, OneLess
  <2>2. /\ SumsOf(h)[s] = h[x] + SumsOf(h)[t] /\ SumsOf(f)[s] = f[x] + SumsOf(f)[t]
        /\ SumsOf(g)[s] = g[x] + SumsOf(g)[t]
    BY <1>2, PartialStep
  <2>3. SumsOf(h)[t] = SumsOf(f)[t] + SumsOf(g)[t]
    BY <1>2
  <2>4. /\ SumsOf(f)[t] \in Nat /\ SumsOf(g)[t] \in Nat
        /\ f[x] \in Nat /\ g[x] \in Nat /\ h[x] = f[x] + g[x]
    BY <2>1, PartialStep
  <2> HIDE DEF x, t
  <2> QED BY <2>2, <2>3, <2>4
<1>3. \A s \in SUBSET Devices : s \in P
  <2> HIDE DEF P
  <2> QED BY <1>1, <1>2, SubsetInduction
<1>4. SumsOf(h)[Devices] = SumsOf(f)[Devices] + SumsOf(g)[Devices]
  BY <1>3
<1> QED BY <1>4, SumIsPartial

\* Nothing on any device sums to nothing.
LEMMA SumOfNothing ==
  ASSUME NEW f \in [Devices -> Nat], \A d \in Devices : f[d] = 0
  PROVE  SumOver(f) = 0
<1>1. SumOver(f) = SumOver(f) + SumOver(f)
  BY SumAdds
<1> QED BY <1>1, SumType

\* What one device has is the sum when no other has anything.
LEMMA SumOfOne ==
  ASSUME NEW f \in [Devices -> Nat], NEW e \in Devices, \A d \in Devices \ {e} : f[d] = 0
  PROVE  SumOver(f) = f[e]
<1> DEFINE P == {s \in SUBSET Devices : SumsOf(f)[s] = IF e \in s THEN f[e] ELSE 0}
<1>1. {} \in P
  BY PartialStep
<1>2. ASSUME NEW s \in SUBSET Devices, s # {}, s \ {NextOf(s)} \in P PROVE s \in P
  <2> DEFINE x == NextOf(s)
             t == s \ {NextOf(s)}
  <2>1. x \in s /\ x \in Devices /\ t \in SUBSET Devices
    BY <1>2, OneLess
  <2>2. SumsOf(f)[s] = f[x] + SumsOf(f)[t]
    BY <1>2, PartialStep
  <2>3. SumsOf(f)[t] = IF e \in t THEN f[e] ELSE 0
    BY <1>2
  <2>4. f[e] \in Nat /\ f[x] \in Nat /\ (x # e => f[x] = 0)
    BY <2>1
  <2>5. e \in t <=> (e \in s /\ e # x)
    OBVIOUS
  <2> HIDE DEF x, t
  <2>6. SumsOf(f)[s] = IF e \in s THEN f[e] ELSE 0
    BY <2>1, <2>2, <2>3, <2>4, <2>5
  <2> QED BY <2>6
<1>3. \A s \in SUBSET Devices : s \in P
  <2> HIDE DEF P
  <2> QED BY <1>1, <1>2, SubsetInduction
<1>4. SumsOf(f)[Devices] = f[e]
  BY <1>3
<1> QED BY <1>4, SumIsPartial

(* ------------------------------ the ledger ------------------------------ *)

\* What the devices were charged in one direction.
Charges(r) == [d \in Devices |-> total[d][r]]

\* The account's usage balances the charges of its devices, and both are counters.
LedgerInv == IInv /\ used \in Counters /\ gone \in Counters /\ LedgerBalanced

\* The charges of a direction are numbers, one for each device.
LEMMA ChargesType == ASSUME MeterType, NEW r \in Dirs PROVE Charges(r) \in [Devices -> Nat]
  BY NumbersAreNaturals DEF Charges

\* The balance, in one direction.
LEMMA BalancedAt ==
  ASSUME LedgerInv, NEW r \in Dirs
  PROVE  /\ used[r] \in Nat /\ gone[r] \in Nat
         /\ used[r] = gone[r] + SumOver(Charges(r))
  BY DEF LedgerInv, LedgerBalanced, Charges, Counters

\* An account without devices and usage is balanced.
LEMMA InitLedger == Init => LedgerInv
<1> SUFFICES ASSUME Init PROVE LedgerInv
  OBVIOUS
<1>1. IInv /\ MeterType
  BY InitIInv DEF IInv
<1>2. used \in Counters /\ gone \in Counters
  BY ZeroCounter DEF Init
<1>3. ASSUME NEW r \in Dirs PROVE used[r] = gone[r] + SumOver(Charges(r))
  <2>1. \A d \in Devices : Charges(r)[d] = 0
    BY ZeroCounter DEF Init, Charges
  <2>2. SumOver(Charges(r)) = 0
    BY <1>1, <2>1, ChargesType, SumOfNothing
  <2>3. used[r] = 0 /\ gone[r] = 0
    BY ZeroCounter DEF Init
  <2> QED BY <2>2, <2>3
<1> QED
  BY <1>1, <1>2, <1>3 DEF LedgerInv, LedgerBalanced, Charges

\* The actions that touch neither charges nor usage keep the balance.
LEMMA LedgerUntouched ==
  ASSUME LedgerInv, IInv', UNCHANGED <<total, used, gone>> PROVE LedgerInv'
<1>1. used' \in Counters /\ gone' \in Counters
  BY DEF LedgerInv
<1>2. LedgerBalanced'
  BY DEF LedgerInv, LedgerBalanced
<1> QED BY <1>1, <1>2 DEF LedgerInv

\* Deleting a device moves its charges to those of the deleted ones.
LEMMA DeleteKeepsLedger ==
  ASSUME LedgerInv, IInv', NEW e \in Devices, DeleteDevice(e) PROVE LedgerInv'
<1>0. MeterType /\ MeterType'
  BY DEF LedgerInv, IInv
<1>1. used' = used /\ gone' = [r \in Dirs |-> gone[r] + total[e][r]]
      /\ total' = [total EXCEPT ![e] = Zero]
  BY DEF DeleteDevice
<1>2. gone' \in Counters
  BY <1>0, <1>1, NumbersAreNaturals, BalancedAt DEF Counters
<1>3. ASSUME NEW r \in Dirs PROVE used'[r] = gone'[r] + SumOver(Charges(r)')
  <2> DEFINE one == [d \in Devices |-> IF d = e THEN total[e][r] ELSE 0]
  <2>1. Charges(r) \in [Devices -> Nat] /\ Charges(r)' \in [Devices -> Nat]
    BY <1>0, NumbersAreNaturals, ChargesType DEF Charges, MeterType, Counters
  <2>2. one \in [Devices -> Nat] /\ total[e][r] \in Nat
    BY <1>0, NumbersAreNaturals
  <2>3. ASSUME NEW d \in Devices PROVE Charges(r)[d] = (Charges(r)')[d] + one[d]
    <3>1. Charges(r)[d] = total[d][r] /\ (Charges(r)')[d] = total'[d][r]
      BY DEF Charges
    <3>2. total'[d][r] = IF d = e THEN 0 ELSE total[d][r]
      BY <1>0, <1>1, ZeroCounter DEF MeterType
    <3>3. total[d][r] \in Nat
      BY <1>0, NumbersAreNaturals
    <3> QED BY <3>1, <3>2, <3>3
  <2>4. SumOver(one) = total[e][r]
    <3>1. one[e] = total[e][r] /\ \A d \in Devices \ {e} : one[d] = 0
      OBVIOUS
    <3> HIDE DEF one
    <3> QED BY <2>2, <3>1, SumOfOne
  <2> HIDE DEF one
  <2>5. SumOver(Charges(r)) = SumOver(Charges(r)') + SumOver(one)
    BY <2>1, <2>2, <2>3, SumAdds
  <2>6. SumOver(Charges(r)') \in Nat
    BY <2>1, SumType
  <2>7. gone'[r] = gone[r] + total[e][r] /\ used'[r] = used[r]
    BY <1>1
  <2> QED BY <2>2, <2>4, <2>5, <2>6, <2>7, BalancedAt
<1>4. LedgerBalanced'
  BY <1>3 DEF LedgerBalanced, Charges
<1> QED BY <1>1, <1>2, <1>4 DEF LedgerInv

\* A reset clears both sides.
LEMMA ResetKeepsLedger == ASSUME LedgerInv, IInv', ResetTraffic PROVE LedgerInv'
<1>1. used' = Zero /\ gone' = Zero /\ total' = [d \in Devices |-> Zero]
  BY DEF ResetTraffic
<1>2. ASSUME NEW r \in Dirs PROVE used'[r] = gone'[r] + SumOver(Charges(r)')
  <2>1. /\ Charges(r)' \in [Devices -> Nat]
        /\ \A d \in Devices : (Charges(r)')[d] = 0
    BY <1>1, ZeroCounter DEF Charges
  <2>2. SumOver(Charges(r)') = 0
    BY <2>1, SumOfNothing
  <2> QED BY <1>1, <2>2, ZeroCounter
<1>3. LedgerBalanced'
  BY <1>2 DEF LedgerBalanced, Charges
<1> QED BY <1>1, <1>3, ZeroCounter DEF LedgerInv

\* A cycle charges the account what it charges the devices.
LEMMA CommitKeepsLedger ==
  ASSUME LedgerInv, IInv', NEW changed, CommitCycle(changed) PROVE LedgerInv'
<1>0. MeterType /\ MeterType'
  BY DEF LedgerInv, IInv
<1>1. /\ gone' = gone
      /\ used' = [r \in Dirs |-> used[r] + SumOver([d \in Devices |-> Delta(d, r)])]
      /\ total' = [d \in Devices |-> [r \in Dirs |-> total[d][r] + Delta(d, r)]]
  BY DEF CommitCycle
<1>2. \A d \in Devices, r \in Dirs : Delta(d, r) \in Nat
  BY <1>0, NumbersAreNaturals, DeltaFacts DEF Delta, Observed
<1>3. ASSUME NEW r \in Dirs
      PROVE  used'[r] \in Nat /\ used'[r] = gone'[r] + SumOver(Charges(r)')
  <2> DEFINE new == [d \in Devices |-> Delta(d, r)]
  <2>1. Charges(r) \in [Devices -> Nat] /\ Charges(r)' \in [Devices -> Nat]
    BY <1>0, ChargesType DEF Charges, MeterType, Counters
  <2>2. new \in [Devices -> Nat]
    BY <1>2
  <2>3. \A d \in Devices : (Charges(r)')[d] = Charges(r)[d] + new[d]
    BY <1>1 DEF Charges
  <2>4. used'[r] = used[r] + SumOver(new)
    BY <1>1
  <2> HIDE DEF new
  <2>5. SumOver(Charges(r)') = SumOver(Charges(r)) + SumOver(new)
    BY <2>1, <2>2, <2>3, SumAdds
  <2>6. SumOver(Charges(r)) \in Nat /\ SumOver(new) \in Nat
    BY <2>1, <2>2, SumType
  <2> QED BY <1>1, <2>4, <2>5, <2>6, BalancedAt
<1>4. used' \in Counters /\ gone' \in Counters
  BY <1>1, <1>3 DEF Counters, LedgerInv
<1>5. LedgerBalanced'
  BY <1>3 DEF LedgerBalanced, Charges
<1> QED BY <1>4, <1>5 DEF LedgerInv

\* Every action keeps the balance.
LEMMA NextLedger == LedgerInv /\ [Next]_vars => LedgerInv'
<1> SUFFICES ASSUME LedgerInv, [Next]_vars PROVE LedgerInv'
  OBVIOUS
<1>a. IInv'
  BY NextIInv DEF LedgerInv
<1>b. SUFFICES ASSUME ~(UNCHANGED <<total, used, gone>>) PROVE LedgerInv'
  BY <1>a, LedgerUntouched
<1>1. ASSUME NEW d \in Devices, NEW k \in Keys, CreateDevice(d, k) PROVE FALSE
  <2>1. total[d] = Zero /\ total \in [Devices -> Counters]
    BY <1>1 DEF CreateDevice, LedgerInv, IInv, NoRowNoUsage, MeterType
  <2>2. total' = total
    BY <1>1, <2>1 DEF CreateDevice
  <2> QED BY <1>1, <1>b, <2>2 DEF CreateDevice
<1>2. CASE \E d \in Devices : DeleteDevice(d)
  BY <1>a, <1>2, DeleteKeepsLedger
<1>3. CASE ResetTraffic
  BY <1>a, <1>3, ResetKeepsLedger
<1>4. CASE \E changed \in SUBSET Devices : CommitCycle(changed)
  BY <1>a, <1>4, CommitKeepsLedger
<1>5. ASSUME NEW k \in Keys, AddPeer(k) PROVE FALSE
  BY <1>5, <1>b DEF AddPeer, rows
<1>6. ASSUME NEW ks \in SUBSET Keys, NEW stay \in BOOLEAN, ResetCounters(ks, stay) PROVE FALSE
  BY <1>6, <1>b DEF ResetCounters, rows
<1>7. ASSUME NEW k \in Keys, NEW r \in Dirs, Traffic(k, r) PROVE FALSE
  BY <1>7, <1>b DEF Traffic, rows
<1>8. ASSUME NEW d \in Devices, NEW k \in Keys, Regenerate(d, k) PROVE FALSE
  BY <1>8, <1>b DEF Regenerate
<1>9. ASSUME StartCycle \/ AbortCycle PROVE FALSE
  BY <1>9, <1>b DEF StartCycle, AbortCycle, rows
<1>10. ASSUME NEW ks \in SUBSET Keys, DumpInterface(ks) PROVE FALSE
  BY <1>10, <1>b DEF DumpInterface, rows
<1>11. ASSUME UNCHANGED vars PROVE FALSE
  BY <1>11, <1>b DEF vars
<1> QED
  BY <1>1, <1>2, <1>3, <1>4, <1>5, <1>6, <1>7, <1>8, <1>9, <1>10, <1>11 DEF Next

\* accounting.go cycleTx, ResetTraffic, device.go Delete: whatever is dumped,
\* deleted, rekeyed or reset in between, an account's usage is what its
\* devices were charged, the deleted ones included.
THEOREM LedgerStaysBalanced == Spec => []LedgerBalanced
<1>1. LedgerInv => LedgerBalanced
  BY DEF LedgerInv
<1> QED
  BY InitLedger, NextLedger, <1>1, PTL DEF Spec

(* ------------------------- samples and rollups ------------------------- *)

SmTypes ==
  /\ row \subseteq Devs /\ clearing \subseteq Devs
  /\ buffer \in [Devs -> Nat] /\ batch \in [Devs -> Nat]
  /\ truth \in [Devs -> Nat] /\ excess \in [Devs -> Nat] /\ lost \in [Devs -> Nat]
  /\ chart \in [Tables -> [Devs -> Nat]] /\ aged \in [Tables -> [Devs -> Nat]]

\* Between flushes no batch is held.
NoBatch == ~flushing => batch = NoBytes

SmInv == SmTypes /\ NoBatch /\ SamplesAccounted

\* The invariant holds with empty charts.
LEMMA SmInitial == SInit => SmInv
  BY DEF SInit, SmInv, SmTypes, NoBatch, SamplesAccounted, NoBytes

\* What retention leaves of a table, and what it counts as removed, make up
\* what the table held.
LEMMA PruneKeeps == SmInv /\ Prune => SmInv'
<1> SUFFICES ASSUME SmInv, Prune PROVE SmInv'
  OBVIOUS
<1> USE DEF SmInv, SmTypes, NoBatch, SamplesAccounted, NoBytes
<1>1. PICK s \in LeftOf(chart["samples"]), h \in LeftOf(chart["hourly"]), y \in LeftOf(chart["daily"]) :
         /\ chart' = [t \in Tables |-> CASE t = "samples" -> s [] t = "hourly" -> h [] OTHER -> y]
         /\ aged' = [t \in Tables |-> [d \in Devs |-> aged[t][d] + (chart[t][d] - chart'[t][d])]]
         /\ UNCHANGED <<row, buffer, batch, flushing, clearing, measured, truth, excess, lost>>
  BY DEF Prune
<1>2. \A t \in Tables : /\ chart'[t] \in [Devs -> Nat]
                       /\ \A d \in Devs : chart'[t][d] <= chart[t][d]
  BY <1>1 DEF LeftOf, Tables
<1>3. chart' \in [Tables -> [Devs -> Nat]]
  BY <1>1, <1>2
<1>4. \A t \in Tables, d \in Devs : /\ aged'[t][d] = aged[t][d] + (chart[t][d] - chart'[t][d])
                                   /\ chart'[t][d] \in Nat /\ chart[t][d] \in Nat /\ aged[t][d] \in Nat
                                   /\ chart'[t][d] <= chart[t][d]
  BY <1>1, <1>2
<1>5. aged' \in [Tables -> [Devs -> Nat]]
  BY <1>1, <1>4
<1>6. \A t \in Tables, d \in Devs : chart'[t][d] + aged'[t][d] = chart[t][d] + aged[t][d]
  BY <1>4
<1>7. \A t \in Tables, d \in row' :
        chart'[t][d] + aged'[t][d] + batch'[d] + buffer'[d] + lost'[d] = truth'[d] + excess'[d]
  BY <1>1, <1>6
<1> QED
  BY <1>1, <1>3, <1>5, <1>7

\* Every step of a cycle, a flush, a reset, a deletion, the pruning and a
\* restart keeps it.
LEMMA SmStep == SmInv /\ [SNext]_svars => SmInv'
<1> SUFFICES ASSUME SmInv, [SNext]_svars PROVE SmInv'
  OBVIOUS
<1> USE DEF SmInv, SmTypes, NoBatch, SamplesAccounted, NoBytes
<1>1. ASSUME NEW d \in Devs, NEW c \in BOOLEAN, Push(d, c) PROVE SmInv'
  <2>1. /\ buffer' = [buffer EXCEPT ![d] = @ + 1]
        /\ UNCHANGED <<row, batch, flushing, clearing, chart, aged, lost>>
        /\ \/ truth' = [truth EXCEPT ![d] = @ + 1] /\ excess' = excess
           \/ excess' = [excess EXCEPT ![d] = @ + 1] /\ truth' = truth
    BY <1>1 DEF Push
  <2>2. SmTypes' /\ NoBatch'
    <3> HIDE DEF SmInv, SamplesAccounted
    <3>1. truth \in [Devs -> Nat] /\ excess \in [Devs -> Nat]
      BY DEF SmInv
    <3>2. [truth EXCEPT ![d] = @ + 1] \in [Devs -> Nat] /\ [excess EXCEPT ![d] = @ + 1] \in [Devs -> Nat]
      BY <3>1
    <3>3. truth' \in [Devs -> Nat] /\ excess' \in [Devs -> Nat]
      BY <2>1, <3>1, <3>2
    <3>4. buffer' \in [Devs -> Nat]
      BY <2>1 DEF SmInv
    <3> QED
      BY <2>1, <3>3, <3>4 DEF SmInv
  <2>3. ASSUME NEW t \in Tables, NEW e \in row
        PROVE chart[t][e] + aged[t][e] + batch[e] + buffer'[e] + lost[e] = truth'[e] + excess'[e]
    <3>1. /\ chart[t][e] \in Nat /\ aged[t][e] \in Nat /\ batch[e] \in Nat /\ buffer[e] \in Nat
          /\ lost[e] \in Nat /\ truth[e] \in Nat /\ excess[e] \in Nat
      OBVIOUS
    <3>2. chart[t][e] + aged[t][e] + batch[e] + buffer[e] + lost[e] = truth[e] + excess[e]
      OBVIOUS
    <3>3. CASE e = d
      <4>1. buffer'[e] = buffer[e] + 1
        BY <2>1, <3>3
      <4>2. \/ truth'[e] = truth[e] + 1 /\ excess'[e] = excess[e]
            \/ excess'[e] = excess[e] + 1 /\ truth'[e] = truth[e]
        BY <2>1, <3>3
      <4> HIDE DEF SmInv
      <4> QED
        BY <3>1, <3>2, <4>1, <4>2
    <3>4. CASE e # d
      BY <2>1, <3>2, <3>4
    <3> QED
      BY <3>3, <3>4
  <2> QED
    BY <2>1, <2>2, <2>3
<1>2. CASE Take
  BY <1>2 DEF Take
<1>3. ASSUME NEW ok \in BOOLEAN, FlushSamples(ok) PROVE SmInv'
  BY <1>3 DEF FlushSamples, Plus
<1>4. CASE ResetSamples
  BY <1>4 DEF ResetSamples
<1>5. CASE ClearDevices
  BY <1>5 DEF ClearDevices
<1>6. ASSUME NEW d \in Devs, CascadeDelete(d) PROVE SmInv'
  BY <1>6 DEF CascadeDelete
<1>7. CASE Prune
  BY <1>7, PruneKeeps
<1>8. CASE Restart
  BY <1>8 DEF Restart, Plus
<1>9. CASE UNCHANGED svars
  BY <1>9 DEF svars
<1> QED
  BY <1>1, <1>2, <1>3, <1>4, <1>5, <1>6, <1>7, <1>8, <1>9 DEF SNext

\* Every table of a device that has a row holds what cycles charged it, once,
\* but for what its retention removed, what is in memory and what the
\* accumulator let go, in every interleaving of cycles, flushes, resets,
\* deletions, retention and restarts.
THEOREM SamplesStayAccounted == SSpec => []SamplesAccounted
<1>1. SmInv => SamplesAccounted
  BY DEF SmInv
<1> QED
  BY SmInitial, SmStep, <1>1, PTL DEF SSpec

(* ------------------------- the resolver's feeder ----------------------- *)

FdTypes ==
  /\ now \in Nat /\ gen \in Nat /\ sets \subseteq Sets
  /\ remembered \in [Sets -> Nat \cup {None}] /\ kernel \in [Sets -> Nat \cup {None}]
  /\ flush = [at |-> flush.at, start |-> flush.start, gen |-> flush.gen, left |-> flush.left,
              written |-> flush.written]
  /\ flush.start \in Nat /\ flush.gen \in Nat
  /\ apply = [at |-> apply.at, plan |-> apply.plan, created |-> apply.created]

\* The clock and the generation only go up.
Past ==
  /\ \A s \in Sets : remembered[s] # None => remembered[s] <= now
  /\ flush.start <= now /\ flush.gen <= gen

\* The kernel keeps s for a full timeout after t, or the apply in progress has
\* created the set and will say so.
Lasts(s, t) ==
  \/ kernel[s] # None /\ t + Timeout <= kernel[s]
  \/ apply.at = "forget" /\ s \in apply.created

\* What is remembered is in the kernel's set, and so is what a flush has
\* written, unless the memory was invalidated since it began.
MemoryHolds ==
  /\ \A s \in Sets : remembered[s] # None => s \in sets
  /\ \A s \in Sets : s \in ksets /\ remembered[s] # None => Lasts(s, remembered[s])
  /\ flush.gen = gen =>
       \A s \in Sets : s \in ksets /\ s \in flush.written => Lasts(s, flush.start)

\* What an apply has listed is what it will find.
Listed == apply.at = "table" => apply.created = apply.plan \ ksets

FdInv == FdTypes /\ Past /\ MemoryHolds /\ Listed

\* The invariant holds before the first apply.
LEMMA FdInitial == FInit => FdInv
<1> SUFFICES ASSUME FInit PROVE FdInv
  OBVIOUS
<1>1. /\ flush = [at |-> "idle", start |-> 0, gen |-> 0, left |-> {}, written |-> {}]
      /\ apply = [at |-> "idle", plan |-> {}, created |-> Sets]
  BY DEF FInit, NoFlush, NoApply
<1>2. /\ now = 0 /\ gen = 0 /\ sets = {} /\ ksets = {}
      /\ remembered = [s \in Sets |-> None] /\ kernel = [s \in Sets |-> None]
  BY DEF FInit
<1>3. FdTypes
  BY <1>1, <1>2 DEF FdTypes
<1> QED
  BY <1>1, <1>2, <1>3 DEF FdInv, Past, MemoryHolds, Listed

\* The bounded memory only forgets.
LEMMA PrunedForgets ==
  ASSUME NEW s \in Sets
  PROVE  Pruned[s] = None \/ Pruned[s] = remembered[s]
  BY DEF Pruned

\* A transaction leaves every element for at least as long as it was there.
LEMMA PutLasts ==
  ASSUME now \in Nat, NEW ss, kernel \in [Sets -> Nat \cup {None}]
  PROVE  /\ Put(ss) \in [Sets -> Nat \cup {None}]
         /\ \A s \in Sets : s \in ss => Put(ss)[s] = now + 2
         /\ \A s \in Sets : s \notin ss => Put(ss)[s] = kernel[s]
  BY DEF Put, Timeout

\* Every step of a handler, the feeder, an apply and the clock keeps it.
LEMMA FdStep == FdInv /\ [FNext]_fvars => FdInv'
<1> SUFFICES ASSUME FdInv, [FNext]_fvars PROVE FdInv'
  OBVIOUS
<1> USE FeederAssumption
    DEF FdInv, FdTypes, Past, MemoryHolds, Lasts, Listed, NoFlush, NoApply, Timeout, feederVars
<1>1. CASE Tick
  BY <1>1 DEF Tick
<1>2. CASE Receive
  <2>1. \/ flush' = [at |-> "idle", start |-> 0, gen |-> 0, left |-> {}, written |-> {}]
        \/ flush' = [at |-> "read", start |-> 0, gen |-> 0, left |-> {}, written |-> {}]
    BY <1>2 DEF Receive
  <2>2. UNCHANGED <<now, sets, remembered, gen, ksets, kernel, apply>>
    BY <1>2 DEF Receive
  <2> QED
    BY <2>1, <2>2
<1>3. CASE FlushOnTick
  <2>1. flush' = [at |-> "read", start |-> 0, gen |-> 0, left |-> {}, written |-> {}]
    BY <1>3 DEF FlushOnTick
  <2>2. UNCHANGED <<now, sets, remembered, gen, ksets, kernel, apply>>
    BY <1>3 DEF FlushOnTick
  <2> QED
    BY <2>1, <2>2
<1>4. CASE FlushRead
  <2>1. remembered' = Pruned
    BY <1>4 DEF FlushRead
  <2>2. \A s \in Sets : remembered'[s] = None \/ remembered'[s] = remembered[s]
    BY <2>1, PrunedForgets
  <2>3. remembered' \in [Sets -> Nat \cup {None}]
    BY <2>1, <2>2 DEF Pruned
  <2>4. flush' = NoFlush \/ (\E l : flush' = [at |-> "write", start |-> now, gen |-> gen,
                                            left |-> l, written |-> {}])
    BY <1>4 DEF FlushRead
  <2>5. UNCHANGED <<now, sets, gen, ksets, kernel, apply>>
    BY <1>4 DEF FlushRead
  <2> QED
    BY <2>2, <2>3, <2>4, <2>5
<1>5. CASE WriteAll
  <2>1. UNCHANGED <<now, sets, remembered, gen, ksets, apply>>
    BY <1>5 DEF WriteAll
  <2>2. CASE /\ kernel' = Put(flush.left)
             /\ flush' = [flush EXCEPT !.at = "record", !.written = flush.left, !.left = {}]
    <3>1. flush' = [at |-> "record", start |-> flush.start, gen |-> flush.gen, left |-> {},
                    written |-> flush.left]
      BY <2>2
    <3>2. /\ kernel' \in [Sets -> Nat \cup {None}]
          /\ \A x \in Sets : x \in flush.left => kernel'[x] = now + 2
          /\ \A x \in Sets : x \notin flush.left => kernel'[x] = kernel[x]
      BY <2>2, PutLasts
    <3>3. FdTypes' /\ Past' /\ Listed'
      BY <2>1, <3>1, <3>2
    <3>4. \A x \in Sets, t \in Nat : t <= now /\ Lasts(x, t) => Lasts(x, t)'
      BY <2>1, <3>2
    <3>5. \A x \in flush.left, t \in Nat : x \in Sets /\ t <= now => Lasts(x, t)'
      BY <2>1, <3>2
    <3> HIDE DEF Lasts
    <3>6. MemoryHolds'
      BY <2>1, <3>1, <3>4, <3>5
    <3> QED
      BY <3>3, <3>6
  <2>3. CASE kernel' = kernel /\ flush' = [flush EXCEPT !.at = "record", !.left = {}]
    BY <2>1, <2>3
  <2>4. CASE kernel' = kernel /\ flush' = [flush EXCEPT !.at = "each"]
    BY <2>1, <2>4
  <2> QED
    BY <1>5, <2>2, <2>3, <2>4 DEF WriteAll
<1>6. CASE FlushRecord
  BY <1>6 DEF FlushRecord
<1>7. CASE ReadInventory
  <2>1. UNCHANGED <<now, sets, remembered, gen, flush, ksets, kernel>>
    BY <1>7 DEF ReadInventory
  <2>2. CASE apply' = [apply EXCEPT !.at = "table", !.created = apply.plan \ ksets]
    BY <1>7, <2>1, <2>2 DEF ReadInventory
  <2>3. CASE apply' = NoApply
    BY <1>7, <2>1, <2>3 DEF ReadInventory
  <2> QED
    BY <1>7, <2>2, <2>3 DEF ReadInventory
<1>8. CASE ApplyTable
  BY <1>8 DEF ApplyTable
<1>9. CASE Forget
  BY <1>9 DEF Forget
<1>10. CASE TableRemoved
  BY <1>10 DEF TableRemoved
<1>11. ASSUME NEW s \in Sets, Learn(s) PROVE FdInv'
  BY <1>11 DEF Learn
<1>12. ASSUME NEW s \in Sets, WriteOne(s) PROVE FdInv'
  <2>1. UNCHANGED <<now, sets, remembered, gen, ksets, apply>>
    BY <1>12 DEF WriteOne
  <2>2. PICK at :
          \/ /\ kernel' = Put({s})
             /\ flush' = [flush EXCEPT !.left = @ \ {s}, !.written = @ \cup {s}, !.at = at]
          \/ kernel' = kernel /\ flush' = [flush EXCEPT !.left = @ \ {s}, !.at = at]
    BY <1>12 DEF WriteOne
  <2>3. CASE /\ kernel' = Put({s})
             /\ flush' = [flush EXCEPT !.left = @ \ {s}, !.written = @ \cup {s}, !.at = at]
    <3>1. flush' = [at |-> at, start |-> flush.start, gen |-> flush.gen,
                    left |-> flush.left \ {s}, written |-> flush.written \cup {s}]
      BY <2>3
    <3>2. /\ kernel' \in [Sets -> Nat \cup {None}]
          /\ \A x \in Sets : x \in {s} => kernel'[x] = now + 2
          /\ \A x \in Sets : x \notin {s} => kernel'[x] = kernel[x]
      BY <2>3, PutLasts
    <3>3. FdTypes' /\ Past' /\ Listed'
      BY <2>1, <3>1, <3>2
    <3>4. \A x \in Sets, t \in Nat : t <= now /\ Lasts(x, t) => Lasts(x, t)'
      BY <2>1, <3>2
    <3>5. \A x \in {s}, t \in Nat : x \in Sets /\ t <= now => Lasts(x, t)'
      BY <2>1, <3>2
    <3> HIDE DEF Lasts
    <3>6. MemoryHolds'
      BY <2>1, <3>1, <3>4, <3>5
    <3> QED
      BY <3>3, <3>6
  <2>4. CASE kernel' = kernel /\ flush' = [flush EXCEPT !.left = @ \ {s}, !.at = at]
    BY <2>1, <2>4
  <2> QED
    BY <2>2, <2>3, <2>4
<1>13. ASSUME NEW plan \in SUBSET Sets, Configure(plan) PROVE FdInv'
  BY <1>13 DEF Configure
<1>14. CASE UNCHANGED fvars
  BY <1>14 DEF fvars
<1> QED
  BY <1>1, <1>2, <1>3, <1>4, <1>5, <1>6, <1>7, <1>8, <1>9, <1>10, <1>11, <1>12, <1>13, <1>14
  DEF FNext

\* A reply that does not wait names an address the kernel has: however query
\* handlers, flushes, applies and a table that vanishes interleave.
THEOREM KnownStaysPresent == FSpec => []KnownIsPresent
<1>1. FdInv => KnownIsPresent
  BY FeederAssumption
  DEF FdInv, FdTypes, MemoryHolds, Lasts, KnownIsPresent, Known, Present, Timeout
<1> QED
  BY FdInitial, FdStep, <1>1, PTL DEF FSpec

(* ------------------------ profiles and addresses ----------------------- *)

HandlerPlaces == {"idle", "save", "pass", "passing", "rollback"} \cup Deleting
WithRow == {"save", "rollback"} \cup Deleting

PrTypes ==
  /\ profile \in [Ifaces -> Row \cup {NoRow}]
  /\ client \in [Clients -> Device \cup {NoRow}]
  /\ links \subseteq Ifaces /\ raced \subseteq Ifaces
  /\ seenRows \in [Ifaces -> Row \cup {NoRow}]
  /\ calls \in Nat /\ calls <= MaxCalls
  /\ gate \in Handlers \cup {NoRow}
  /\ handler \in [Handlers -> [pc : HandlerPlaces, i : Ifaces \cup {NoRow}, row : Row \cup {NoRow}]]
  /\ \A h \in Handlers : handler[h].pc \in WithRow =>
       handler[h].i \in Ifaces /\ handler[h].row \in Row

\* Pools of two profiles are disjoint: an address belongs to one profile.
Disjoint ==
  \A i, j \in Ifaces : i # j /\ profile[i] # NoRow /\ profile[j] # NoRow =>
    PoolsOf(profile[i].pools) \cap PoolsOf(profile[j].pools) = {}

\* Ids are not used again: a row made anew is not the one a handler has read.
OldIds ==
  /\ \A i \in Ifaces : profile[i] # NoRow => profile[i].id <= calls
  /\ \A h \in Handlers : handler[h].pc \in WithRow => handler[h].row.id <= calls

\* One pass at a time.
OnePass == \A h \in Handlers : handler[h].pc \in {"passing", "d-passing"} => gate = h

\* A pass under way will keep a link only for a row that is still there.
WantedOwned ==
  \A i \in Ifaces : seenRows[i] # NoRow /\ seenRows[i].on => profile[i] # NoRow \/ i \in raced

\* The row a deletion is about is off from the moment it was switched off, the
\* pass of the deletion sees that, and after it there is no link and no pass
\* that will make one: unless somebody switched it on meanwhile.
Off(h) ==
  LET i == handler[h].i
      at == handler[h].pc
  IN  at \in Deleting /\ StillThere(h) /\ i \notin raced =>
        /\ at = "disable" /\ ~handler[h].row.on => ~profile[i].on
        /\ at # "disable" => ~profile[i].on
        /\ at = "d-passing" => seenRows[i] # NoRow /\ ~seenRows[i].on
        /\ at = "d-row" => i \notin links /\ (seenRows[i] = NoRow \/ ~seenRows[i].on)

PrInv == PrTypes /\ Disjoint /\ AddressesSound /\ OldIds /\ OnePass /\ WantedOwned /\ LinksOwned
           /\ \A h \in Handlers : Off(h)

\* The constants, as the steps below use them.
LEMMA NoRowFacts ==
  /\ NoRow \notin Handlers /\ NoRow \notin Row /\ NoRow \notin Device
  /\ Slots \in Nat /\ MaxCalls \in Nat /\ IsFiniteSet(Ifaces)
  /\ \A p \in PoolLists : Len(p) \in Nat
  BY ProfilesAssumption

\* What switching a row leaves.
LEMMA RowSwitched ==
  ASSUME NEW r \in Row, NEW b
  PROVE  [r EXCEPT !.on = b] = [id |-> r.id, on |-> b, pools |-> r.pools]
  BY DEF Row

\* allocateIP takes an address of one of the profile's pools that no device of
\* the profile has.
LEMMA FirstFreeIsFree ==
  ASSUME NEW i \in Ifaces, profile[i] \in Row, Free(i) # {}
  PROVE  /\ FirstFree(i) \in PoolsOf(profile[i].pools) \X (1..Slots)
         /\ \A c \in UsedBy(i) : client[c].addr # FirstFree(i)
<1> DEFINE n == Len(profile[i].pools)
           First(x) == \A y \in Free(i) : x[1] < y[1] \/ (x[1] = y[1] /\ x[2] <= y[2])
           at == CHOOSE x \in Free(i) : First(x)
<1>0. n \in Nat /\ Slots \in Nat
  BY NoRowFacts DEF Row
<1>1. Free(i) \subseteq (1..n) \X (1..Slots)
  BY DEF Free
<1>2. PICK x \in Free(i) : \A y \in Free(i) : x[1] <= y[1]
  <2> DEFINE S == {y[1] : y \in Free(i)}
  <2>1. S \subseteq Nat /\ S # {}
    BY <1>0, <1>1
  <2>2. PICK k \in S : \A l \in S : k <= l
    BY <2>1, LeastNatural
  <2> QED BY <2>2
<1>3. PICK z \in Free(i) : z[1] = x[1] /\ \A y \in Free(i) : y[1] = x[1] => z[2] <= y[2]
  <2> DEFINE S == {y[2] : y \in {w \in Free(i) : w[1] = x[1]}}
  <2>1. S \subseteq Nat /\ S # {}
    BY <1>0, <1>1
  <2>2. PICK k \in S : \A l \in S : k <= l
    BY <2>1, LeastNatural
  <2> QED BY <2>2
<1>4. First(z)
  <2> SUFFICES ASSUME NEW y \in Free(i) PROVE z[1] < y[1] \/ (z[1] = y[1] /\ z[2] <= y[2])
    OBVIOUS
  <2>1. z[1] \in Nat /\ y[1] \in Nat /\ z[1] <= y[1]
    BY <1>0, <1>1, <1>2, <1>3
  <2> QED BY <1>3, <2>1
<1>5. at \in Free(i)
  BY <1>4
<1>6. FirstFree(i) = <<profile[i].pools[at[1]], at[2]>>
  BY DEF FirstFree
<1> HIDE DEF at
<1>7. at \in (1..n) \X (1..Slots)
  BY <1>1, <1>5
<1>8. at[1] \in 1..n /\ at[2] \in 1..Slots
  BY <1>7
<1>9. \A c \in UsedBy(i) : client[c].addr # <<profile[i].pools[at[1]], at[2]>>
  BY <1>5 DEF Free
<1>10. profile[i].pools[at[1]] \in PoolsOf(profile[i].pools)
  BY <1>8 DEF PoolsOf
<1> QED BY <1>6, <1>8, <1>9, <1>10

\* The first profile is alone.
LEMMA PrInitial == PInit => PrInv
<1> SUFFICES ASSUME PInit PROVE PrInv
  OBVIOUS
<1> DEFINE first == [id |-> 0, on |-> TRUE, pools |-> CHOOSE p \in PoolLists : Len(p) = 1]
<1>1. first \in Row
  BY ProfilesAssumption DEF Row
<1>2. \A i \in Ifaces : profile[i] = NoRow \/ profile[i] = first
  BY DEF PInit
<1>3. PrTypes
  <2>1. Idle \in [pc : HandlerPlaces, i : Ifaces \cup {NoRow}, row : Row \cup {NoRow}]
        /\ Idle.pc \notin WithRow
    BY DEF Idle, HandlerPlaces, WithRow, Deleting
  <2>2. profile \in [Ifaces -> Row \cup {NoRow}]
    BY <1>1, <1>2 DEF PInit
  <2> QED BY <2>1, <2>2, NoRowFacts DEF PInit, PrTypes
<1>4. Disjoint
  <2> DEFINE S == {i \in Ifaces : profile[i] # NoRow}
  <2>1. IsFiniteSet(S)
    BY NoRowFacts, FS_Subset
  <2>2. PICK x : S = {x}
    BY <2>1, FS_Singleton DEF PInit
  <2> QED BY <2>2 DEF Disjoint
<1>5. OldIds
  BY <1>1, <1>2 DEF OldIds, PInit, Idle, WithRow, Deleting
<1> QED
  BY <1>3, <1>4, <1>5
     DEF PrInv, PInit, AddressesSound, OnePass, WantedOwned, LinksOwned, Off, Idle, Deleting

\* Every step of a handler, a pass and a crash keeps it.
LEMMA PrStep == PrInv /\ [PNext]_pvars => PrInv'
<1> SUFFICES ASSUME PrInv, [PNext]_pvars PROVE PrInv'
  OBVIOUS
<1>n. NoRow \notin Handlers /\ NoRow \notin Row /\ NoRow \notin Device /\ MaxCalls \in Nat
  BY NoRowFacts
<1>t. PrTypes
  BY DEF PrInv
<1> DEFINE Places == [pc : HandlerPlaces, i : Ifaces \cup {NoRow}, row : Row \cup {NoRow}]
\* What a handler that goes on, or ends, looks like then.
<1>h. ASSUME NEW h \in Handlers, NEW p \in HandlerPlaces, Advance(h, p),
             p \in WithRow => handler[h].pc \in WithRow
      PROVE  /\ handler' \in [Handlers -> Places]
             /\ \A g \in Handlers \ {h} : handler'[g] = handler[g]
             /\ p = "idle" => handler'[h] = Idle
             /\ p # "idle" => handler'[h] = [pc |-> p, i |-> handler[h].i, row |-> handler[h].row]
             /\ handler'[h].pc = p
             /\ \A g \in Handlers : handler'[g].pc \in WithRow =>
                  handler'[g].i \in Ifaces /\ handler'[g].row \in Row
  <2>1. handler[h] \in Places /\ handler \in [Handlers -> Places]
    BY <1>t DEF PrTypes
  <2>2. Idle \in Places /\ Idle.pc = "idle" /\ "idle" \notin WithRow
    BY DEF Idle, HandlerPlaces, WithRow, Deleting
  <2>3. CASE p = "idle"
    BY <1>h, <1>t, <2>1, <2>2, <2>3 DEF Advance, PrTypes
  <2>4. CASE p # "idle"
    <3>0. [handler[h] EXCEPT !.pc = p] = [pc |-> p, i |-> handler[h].i, row |-> handler[h].row]
      BY <2>1
    <3>1. handler' = [handler EXCEPT ![h] = [pc |-> p, i |-> handler[h].i, row |-> handler[h].row]]
      BY <1>h, <2>4, <3>0 DEF Advance
    <3>2. [pc |-> p, i |-> handler[h].i, row |-> handler[h].row] \in Places
      BY <1>h, <2>1
    <3> QED BY <1>h, <1>t, <2>1, <2>4, <3>1, <3>2 DEF PrTypes
  <2> QED BY <2>3, <2>4
<1>u. CASE UNCHANGED pvars
  BY <1>u DEF pvars, PrInv, PrTypes, Disjoint, AddressesSound, OldIds, OnePass, WantedOwned,
       LinksOwned, Off, StillThere
<1>i. /\ Disjoint /\ AddressesSound /\ OldIds /\ OnePass /\ WantedOwned /\ LinksOwned
      /\ \A g \in Handlers : Off(g)
  BY DEF PrInv
<1>k. calls \in Nat /\ \A i \in Ifaces : profile[i] # NoRow => profile[i] \in Row /\ profile[i].id \in Nat
  BY <1>t DEF PrTypes, Row
<1>l. \A g \in Handlers : handler[g].pc \in WithRow =>
         handler[g].i \in Ifaces /\ handler[g].row \in Row /\ handler[g].row.id \in Nat
  BY <1>t DEF PrTypes, Row
\* A handler that leaves the deletion, or does not take part in one, and changes
\* nothing else.
<1>q. ASSUME NEW h \in Handlers, NEW p \in HandlerPlaces, Advance(h, p),
             p \in WithRow => handler[h].pc \in WithRow,
             p \notin Deleting \cup {"passing", "d-passing"},
             UNCHANGED <<profile, client, links, gate, seenRows, calls, raced>>
      PROVE  PrInv'
  <2>1. /\ handler' \in [Handlers -> Places]
        /\ \A g \in Handlers \ {h} : handler'[g] = handler[g]
        /\ handler'[h].pc = p /\ (p \in WithRow => handler'[h].row = handler[h].row)
        /\ \A g \in Handlers : handler'[g].pc \in WithRow =>
             handler'[g].i \in Ifaces /\ handler'[g].row \in Row
    <3>1. "idle" \notin WithRow
      BY DEF WithRow, Deleting
    <3>2. /\ handler' \in [Handlers -> Places] /\ handler'[h].pc = p
          /\ \A g \in Handlers \ {h} : handler'[g] = handler[g]
          /\ p # "idle" => handler'[h] = [pc |-> p, i |-> handler[h].i, row |-> handler[h].row]
          /\ \A g \in Handlers : handler'[g].pc \in WithRow =>
               handler'[g].i \in Ifaces /\ handler'[g].row \in Row
      BY <1>h, <1>q
    <3>3. p \in WithRow => handler'[h].row = handler[h].row
      BY <3>1, <3>2
    <3> QED BY <3>2, <3>3
  <2>2. PrTypes'
    BY <1>t, <1>q, <2>1 DEF PrTypes
  <2>3. Disjoint' /\ AddressesSound' /\ WantedOwned' /\ LinksOwned'
    BY <1>i, <1>q DEF Disjoint, AddressesSound, WantedOwned, LinksOwned
  <2>4. OldIds' /\ OnePass'
    BY <1>i, <1>q, <2>1 DEF OldIds, OnePass
  <2>5. ASSUME NEW g \in Handlers PROVE Off(g)'
    BY <1>i, <1>q, <2>1 DEF Off, StillThere
  <2> QED BY <2>2, <2>3, <2>4, <2>5 DEF PrInv
\* A row that is there is switched, or gets pools it may have.  Switching it on
\* is noted if somebody deletes it, and what a deletion does is switch it off.
<1>r. ASSUME NEW h \in Handlers, NEW i \in Ifaces, NEW new \in Row, NEW p \in {"pass", "d-pass"},
             profile[i] # NoRow, new.id = profile[i].id, profile' = [profile EXCEPT ![i] = new],
             new.pools = profile[i].pools \/ PoolsAllowed(i, new.pools),
             raced \subseteq raced', raced' \subseteq Ifaces,
             new.on => \A g \in Handlers : handler[g].pc \in Deleting /\ handler[g].i = i => i \in raced',
             Advance(h, p),
             p = "d-pass" => handler[h].pc = "disable" /\ handler[h].i = i /\ ~new.on,
             UNCHANGED <<client, links, gate, seenRows, calls>>
      PROVE  PrInv'
  <2>0. p \in HandlerPlaces /\ p # "idle" /\ (p \in WithRow => handler[h].pc \in WithRow)
        /\ (p = "pass" => p \notin WithRow)
    BY <1>r DEF HandlerPlaces, WithRow, Deleting
  <2>1. /\ handler' \in [Handlers -> Places]
        /\ \A g \in Handlers \ {h} : handler'[g] = handler[g]
        /\ handler'[h] = [pc |-> p, i |-> handler[h].i, row |-> handler[h].row]
        /\ \A g \in Handlers : handler'[g].pc \in WithRow =>
             handler'[g].i \in Ifaces /\ handler'[g].row \in Row
    BY <1>h, <1>r, <2>0
  <2>2. /\ profile'[i] = new /\ new # NoRow /\ \A j \in Ifaces \ {i} : profile'[j] = profile[j]
        /\ profile' \in [Ifaces -> Row \cup {NoRow}]
    BY <1>t, <1>n, <1>r DEF PrTypes
  <2>3. PrTypes'
    BY <1>t, <1>r, <2>1, <2>2 DEF PrTypes
  <2>4. Disjoint' /\ AddressesSound'
    <3>1. \A c \in Clients : client[c] # NoRow => client[c].i \in Ifaces
      BY <1>t DEF PrTypes, Device
    <3>2. CASE new.pools = profile[i].pools
      <4>1. \A j \in Ifaces : /\ profile'[j] # NoRow <=> profile[j] # NoRow
                              /\ profile'[j].pools = profile[j].pools
        BY <1>r, <2>2, <3>2
      <4>2. Disjoint'
        BY <1>i, <4>1 DEF Disjoint
      <4>3. AddressesSound'
        BY <1>i, <1>r, <3>1, <4>1 DEF AddressesSound
      <4> QED BY <4>2, <4>3
    <3>3. CASE PoolsAllowed(i, new.pools)
      <4>1. /\ \A j \in Ifaces \ {i} : profile[j] # NoRow =>
                 PoolsOf(profile[j].pools) \cap PoolsOf(new.pools) = {}
            /\ \A c \in Clients : client[c] # NoRow /\ client[c].i = i =>
                 client[c].addr[1] \in PoolsOf(new.pools)
        BY <3>3 DEF PoolsAllowed, Overlapping, UsedBy
      <4>2. Disjoint'
        BY <1>i, <2>2, <4>1 DEF Disjoint
      <4>3. AddressesSound'
        BY <1>i, <1>r, <2>2, <3>1, <4>1 DEF AddressesSound
      <4> QED BY <4>2, <4>3
    <3> QED BY <1>r, <3>2, <3>3
  <2>5. OldIds'
    BY <1>i, <1>r, <2>0, <2>1, <2>2 DEF OldIds
  <2>6. OnePass' /\ WantedOwned' /\ LinksOwned'
    BY <1>i, <1>t, <1>r, <2>1, <2>2 DEF OnePass, WantedOwned, LinksOwned, PrTypes
  <2>7. ASSUME NEW g \in Handlers PROVE Off(g)'
    <3>1. CASE g = h
      BY <1>r, <2>1, <2>2, <3>1 DEF Off, Deleting
    <3>2. CASE g # h /\ handler[g].pc \in Deleting /\ handler[g].i = i
      <4>1. handler'[g] = handler[g] /\ (i \notin raced' => ~new.on /\ i \notin raced)
        BY <1>r, <2>1, <3>2
      <4>2. StillThere(g)' => StillThere(g)
        BY <1>r, <2>2, <3>2, <4>1 DEF StillThere
      <4> QED BY <1>i, <1>r, <2>2, <3>2, <4>1, <4>2 DEF Off
    <3>3. CASE g # h /\ handler[g].pc \in Deleting /\ handler[g].i # i
      <4>1. handler[g].i \in Ifaces \ {i} /\ handler'[g] = handler[g]
        BY <1>l, <2>1, <3>3 DEF WithRow
      <4> QED BY <1>i, <1>r, <2>2, <3>3, <4>1 DEF Off, StillThere
    <3>4. CASE g # h /\ handler[g].pc \notin Deleting
      BY <2>1, <3>4 DEF Off
    <3> QED BY <3>1, <3>2, <3>3, <3>4
  <2> QED BY <2>3, <2>4, <2>5, <2>6, <2>7 DEF PrInv
<1>1. ASSUME NEW h \in Handlers, NEW i \in Ifaces, Hold(h, i) \/ DeleteReconciled(h, i)
      PROVE  PrInv'
  <2>0. PICK p \in {"save", "disable"} :
          handler' = [handler EXCEPT ![h] = [pc |-> p, i |-> i, row |-> profile[i]]]
    BY <1>1 DEF Hold, DeleteReconciled
  <2>1. /\ profile[i] # NoRow /\ calls' = calls + 1 /\ calls < MaxCalls
        /\ UNCHANGED <<profile, client, links, gate, seenRows, raced>>
    BY <1>1 DEF Hold, DeleteReconciled, Call
  <2>2. /\ [pc |-> p, i |-> i, row |-> profile[i]] \in Places
        /\ profile[i] \in Row /\ profile[i].id \in Nat /\ profile[i].id <= calls
    BY <1>i, <1>k, <2>1 DEF HandlerPlaces, Deleting, OldIds
  <2>3. /\ \A g \in Handlers \ {h} : handler'[g] = handler[g]
        /\ handler'[h] = [pc |-> p, i |-> i, row |-> profile[i]]
        /\ handler' \in [Handlers -> Places]
    BY <1>t, <2>0, <2>2 DEF PrTypes
  <2>4. PrTypes'
    BY <1>t, <1>k, <1>n, <2>1, <2>2, <2>3 DEF PrTypes
  <2>5. Disjoint' /\ AddressesSound' /\ WantedOwned' /\ LinksOwned'
    BY <1>i, <2>1 DEF Disjoint, AddressesSound, WantedOwned, LinksOwned
  <2>6. OldIds'
    BY <1>i, <1>k, <1>l, <2>1, <2>2, <2>3 DEF OldIds
  <2>7. OnePass'
    BY <1>i, <2>1, <2>3 DEF OnePass
  <2>8. ASSUME NEW g \in Handlers PROVE Off(g)'
    BY <1>i, <2>1, <2>3 DEF Off, StillThere, Deleting
  <2> QED BY <2>4, <2>5, <2>6, <2>7, <2>8 DEF PrInv
<1>3. ASSUME NEW h \in Handlers, NEW i \in Ifaces, NEW p \in PoolLists, Create(h, i, p) PROVE PrInv'
  <2> DEFINE new == [id |-> calls + 1, on |-> TRUE, pools |-> p]
  <2>1. /\ handler' = [handler EXCEPT ![h] = [pc |-> "pass", i |-> i, row |-> NoRow]]
        /\ profile' = [profile EXCEPT ![i] = new] /\ profile[i] = NoRow /\ ~Overlapping(i, p)
        /\ calls' = calls + 1 /\ calls < MaxCalls
        /\ UNCHANGED <<client, links, gate, seenRows, raced>>
    BY <1>3 DEF Create, Call
  <2>2. [pc |-> "pass", i |-> i, row |-> NoRow] \in Places /\ "pass" \notin WithRow
    BY DEF HandlerPlaces, WithRow, Deleting
  <2>3. /\ \A g \in Handlers \ {h} : handler'[g] = handler[g]
        /\ handler'[h] = [pc |-> "pass", i |-> i, row |-> NoRow]
        /\ handler' \in [Handlers -> Places]
    BY <1>t, <2>1, <2>2 DEF PrTypes
  <2>4. calls + 1 \in 0..MaxCalls /\ new \in Row /\ new # NoRow /\ new.id = calls + 1
    <3>1. calls + 1 \in 0..MaxCalls
      BY <1>k, <1>n, <2>1
    <3>2. new \in Row
      BY <3>1 DEF Row
    <3> QED BY <1>n, <3>1, <3>2
  <2> HIDE DEF new
  <2>5. /\ profile'[i] = new /\ \A j \in Ifaces \ {i} : profile'[j] = profile[j]
        /\ profile' \in [Ifaces -> Row \cup {NoRow}]
    BY <1>t, <2>1, <2>4 DEF PrTypes
  <2>6. PrTypes'
    BY <1>t, <1>k, <2>1, <2>2, <2>3, <2>4, <2>5 DEF PrTypes
  <2>7. Disjoint'
    <3>1. \A j \in Ifaces \ {i} : profile[j] # NoRow => PoolsOf(profile[j].pools) \cap PoolsOf(p) = {}
      BY <2>1 DEF Overlapping
    <3>2. new.pools = p
      BY DEF new
    <3> QED BY <1>i, <2>5, <3>1, <3>2 DEF Disjoint
  <2>8. AddressesSound'
    <3>1. \A c \in Clients : client[c] # NoRow => client[c].i # i
      BY <1>i, <2>1 DEF AddressesSound
    <3>2. \A c \in Clients : client[c] # NoRow => client[c].i \in Ifaces
      BY <1>t DEF PrTypes, Device
    <3> QED BY <1>i, <2>1, <2>5, <3>1, <3>2 DEF AddressesSound
  <2>9. OldIds' /\ OnePass'
    BY <1>i, <1>k, <1>l, <2>1, <2>2, <2>3, <2>4, <2>5 DEF OldIds, OnePass
  <2>10. WantedOwned' /\ LinksOwned'
    BY <1>i, <1>t, <2>1, <2>4, <2>5 DEF WantedOwned, LinksOwned, PrTypes
  <2>11. ASSUME NEW g \in Handlers PROVE Off(g)'
    <3>1. CASE g = h
      BY <2>3, <3>1 DEF Off, Deleting
    <3>2. CASE g # h /\ handler[g].pc \in Deleting
      <4>1. handler[g].pc \in WithRow /\ handler[g].row.id <= calls /\ handler[g].i \in Ifaces
        BY <1>i, <1>l, <3>2 DEF OldIds, WithRow
      <4>2. handler[g].row.id # calls + 1
        BY <1>k, <1>l, <4>1
      <4> QED BY <1>i, <2>1, <2>3, <2>4, <2>5, <3>2, <4>1, <4>2 DEF Off, StillThere
    <3>3. CASE g # h /\ handler[g].pc \notin Deleting
      BY <2>3, <3>3 DEF Off
    <3> QED BY <3>1, <3>2, <3>3
  <2> QED BY <2>6, <2>7, <2>8, <2>9, <2>10, <2>11 DEF PrInv
<1>4. ASSUME NEW h \in Handlers, NEW on \in BOOLEAN, NEW p \in PoolLists \cup {<<>>}, Update(h, on, p)
      PROVE  PrInv'
  <2> DEFINE i == handler[h].i
             allowed == p = <<>> \/ (StillThere(h) /\ PoolsAllowed(i, p))
             new == [id |-> profile[i].id, on |-> on,
                     pools |-> IF p = <<>> THEN profile[i].pools ELSE p]
  <2>1. i \in Ifaces /\ UNCHANGED <<client, links, gate, seenRows, calls>>
        /\ Advance(h, IF allowed THEN "pass" ELSE "idle")
    BY <1>4, <1>l DEF Update, WithRow
  <2>2. CASE allowed /\ StillThere(h)
    <3>1. /\ profile[i] # NoRow /\ profile[i] \in Row
          /\ profile' = [profile EXCEPT ![i] = new]
          /\ raced' = IF on THEN Marked(i) ELSE raced
      BY <1>4, <1>k, <2>1, <2>2 DEF Update, StillThere
    <3>2. p # <<>> => p \in PoolLists /\ PoolsAllowed(i, p)
      BY <1>4, <2>2
    <3>4. /\ new \in Row /\ new.id = profile[i].id /\ (new.on <=> on)
          /\ new.pools = profile[i].pools \/ PoolsAllowed(i, new.pools)
      <4>1. CASE p = <<>>
        BY <3>1, <4>1 DEF Row
      <4>2. CASE p # <<>>
        BY <3>1, <3>2, <4>2 DEF Row
      <4> QED BY <4>1, <4>2
    <3>5. Marked(i) \subseteq Ifaces /\ raced \subseteq Marked(i)
          /\ \A g \in Handlers : handler[g].pc \in Deleting /\ handler[g].i = i => i \in Marked(i)
      BY <1>t, <2>1 DEF Marked, PrTypes
    <3>6. Advance(h, "pass") /\ raced \subseteq raced' /\ raced' \subseteq Ifaces
      BY <1>t, <2>1, <2>2, <3>1, <3>5 DEF PrTypes
    <3> HIDE DEF new, i
    <3> QED BY <1>r, <2>1, <3>1, <3>4, <3>5, <3>6
  <2>3. CASE ~(allowed /\ StillThere(h))
    <3>1. UNCHANGED <<profile, raced>>
      BY <1>4, <2>3 DEF Update
    <3>2. PICK q \in {"pass", "idle"} : Advance(h, q)
      BY <2>1
    <3>3. q \in HandlerPlaces /\ q \notin WithRow /\ q \notin Deleting \cup {"passing", "d-passing"}
      BY DEF HandlerPlaces, WithRow, Deleting
    <3> QED BY <1>q, <2>1, <3>1, <3>2, <3>3
  <2> QED BY <2>2, <2>3
<1>5. ASSUME NEW h \in Handlers, PassReads(h) PROVE PrInv'
  <2> DEFINE p == IF handler[h].pc = "d-pass" THEN "d-passing" ELSE "passing"
  <2>1. /\ gate = NoRow /\ gate' = h /\ seenRows' = profile /\ Advance(h, p)
        /\ handler[h].pc \in {"idle", "pass", "d-pass"}
        /\ UNCHANGED <<profile, client, links, calls, raced>>
    BY <1>5 DEF PassReads
  <2>2. p \in HandlerPlaces /\ (p \in WithRow => handler[h].pc \in WithRow) /\ p # "idle"
        /\ (p = "d-passing" => handler[h].pc = "d-pass") /\ p \in {"passing", "d-passing"}
    BY <2>1 DEF HandlerPlaces, WithRow, Deleting
  <2> HIDE DEF p
  <2>3. /\ handler' \in [Handlers -> Places]
        /\ \A g \in Handlers \ {h} : handler'[g] = handler[g]
        /\ handler'[h] = [pc |-> p, i |-> handler[h].i, row |-> handler[h].row]
        /\ \A g \in Handlers : handler'[g].pc \in WithRow =>
             handler'[g].i \in Ifaces /\ handler'[g].row \in Row
    BY <1>h, <2>1, <2>2
  <2>4. PrTypes'
    BY <1>t, <2>1, <2>3 DEF PrTypes
  <2>5. Disjoint' /\ AddressesSound' /\ WantedOwned' /\ LinksOwned'
    BY <1>i, <2>1 DEF Disjoint, AddressesSound, WantedOwned, LinksOwned
  <2>6. OldIds'
    BY <1>i, <2>1, <2>2, <2>3 DEF OldIds
  <2>7. OnePass'
    BY <1>i, <1>n, <2>1, <2>3 DEF OnePass
  <2>8. ASSUME NEW g \in Handlers PROVE Off(g)'
    <3>1. CASE g = h
      <4>1. (handler[h].pc \in Deleting /\ handler[h].pc # "disable") \/ p = "passing"
        BY <2>2 DEF Deleting
      <4> QED BY <1>i, <2>1, <2>2, <2>3, <3>1, <4>1 DEF Off, StillThere, Deleting
    <3>2. CASE g # h
      <4>1. handler[g].pc # "d-passing"
        BY <1>i, <1>n, <2>1 DEF OnePass
      <4> QED BY <1>i, <2>1, <2>3, <3>2, <4>1 DEF Off, StillThere, Deleting
    <3> QED BY <3>1, <3>2
  <2> QED BY <2>4, <2>5, <2>6, <2>7, <2>8 DEF PrInv
<1>6. ASSUME NEW h \in Handlers, PassTimesOut(h) PROVE PrInv'
  <2> DEFINE p == IF handler[h].pc = "pass" THEN "idle" ELSE "rollback"
  <2>1. /\ handler[h].pc \in {"pass", "d-pass"} /\ Advance(h, p)
        /\ UNCHANGED <<profile, client, links, gate, seenRows, calls, raced>>
    BY <1>6 DEF PassTimesOut
  <2>2. p \in HandlerPlaces /\ (p \in WithRow => handler[h].pc \in WithRow)
        /\ p \notin Deleting \cup {"passing", "d-passing"}
    BY <2>1 DEF HandlerPlaces, WithRow, Deleting
  <2> HIDE DEF p
  <2> QED BY <1>q, <2>1, <2>2
<1>7. ASSUME NEW h \in Handlers, NEW bad \in SUBSET Ifaces, NEW left \in SUBSET Ifaces,
             PassApplies(h, bad, left)
      PROVE  PrInv'
  <2> DEFINE p == IF handler[h].pc = "passing" THEN "idle" ELSE IF bad = {} THEN "d-row" ELSE "rollback"
  <2>1. /\ gate = h /\ gate' = NoRow /\ seenRows' = [i \in Ifaces |-> NoRow] /\ Advance(h, p)
        /\ handler[h].pc \in {"passing", "d-passing"}
        /\ left \subseteq bad \cap (links \cup Wanted)
        /\ links' = (links \ (Owned \ bad)) \cup (Wanted \ bad) \cup left
        /\ UNCHANGED <<profile, client, calls, raced>>
    BY <1>7 DEF PassApplies
  <2>2. /\ p \in HandlerPlaces /\ (p \in WithRow => handler[h].pc \in WithRow) /\ "idle" \notin WithRow
        /\ p \in {"idle", "rollback"} \/ (p = "d-row" /\ handler[h].pc = "d-passing" /\ bad = {})
    BY <2>1 DEF HandlerPlaces, WithRow, Deleting
  <2> HIDE DEF p
  <2>3. /\ handler' \in [Handlers -> Places] /\ handler'[h].pc = p
        /\ \A g \in Handlers \ {h} : handler'[g] = handler[g]
        /\ p # "idle" => handler'[h] = [pc |-> p, i |-> handler[h].i, row |-> handler[h].row]
        /\ \A g \in Handlers : handler'[g].pc \in WithRow =>
             handler'[g].i \in Ifaces /\ handler'[g].row \in Row
    BY <1>h, <2>1, <2>2
  <2>4. Wanted = {i \in Ifaces : seenRows[i] # NoRow /\ seenRows[i].on}
        /\ Owned = {i \in Ifaces : seenRows[i] # NoRow} /\ links' \subseteq links \cup Wanted
    BY <2>1 DEF Wanted, Owned
  <2>5. PrTypes'
    <3>1. links' \subseteq Ifaces
      BY <1>t, <2>4 DEF PrTypes
    <3> QED BY <1>t, <2>1, <2>3, <3>1 DEF PrTypes
  <2>6. Disjoint' /\ AddressesSound' /\ WantedOwned'
    BY <1>i, <2>1 DEF Disjoint, AddressesSound, WantedOwned
  <2>7. LinksOwned'
    BY <1>i, <2>1, <2>4 DEF LinksOwned, WantedOwned
  <2>8. OldIds'
    BY <1>i, <2>1, <2>2, <2>3 DEF OldIds
  <2>9. OnePass'
    BY <1>i, <2>1, <2>2, <2>3 DEF OnePass
  <2>10. ASSUME NEW g \in Handlers PROVE Off(g)'
    <3>1. CASE g = h /\ p = "d-row"
      <4>1. /\ handler'[g] = [pc |-> p, i |-> handler[h].i, row |-> handler[h].row]
            /\ handler[h].pc = "d-passing" /\ handler[h].i \in Ifaces /\ bad = {} /\ left = {}
        BY <1>l, <2>1, <2>2, <2>3, <3>1 DEF WithRow, Deleting
      <4>2. StillThere(g)' => StillThere(h)
        BY <2>1, <4>1 DEF StillThere
      <4>3. handler[h].i \in Owned /\ handler[h].i \notin Wanted => handler[h].i \notin links'
        BY <2>1, <4>1
      <4> QED BY <1>i, <2>1, <2>4, <3>1, <4>1, <4>2, <4>3 DEF Off, Deleting
    <3>2. CASE g = h /\ p # "d-row"
      BY <2>2, <2>3, <3>2 DEF Off, Deleting
    <3>3. CASE g # h /\ handler[g].pc \in Deleting
      <4>1. handler[g].pc # "d-passing" /\ handler[g].i \in Ifaces /\ handler'[g] = handler[g]
        BY <1>i, <1>l, <2>1, <2>3, <3>3 DEF OnePass, WithRow
      <4>2. StillThere(g)' => StillThere(g)
        BY <2>1, <4>1 DEF StillThere
      <4>3. handler[g].i \notin links /\ handler[g].i \notin Wanted => handler[g].i \notin links'
        BY <2>4
      <4> QED BY <1>i, <2>1, <2>4, <3>3, <4>1, <4>2, <4>3 DEF Off
    <3>4. CASE g # h /\ handler[g].pc \notin Deleting
      BY <2>3, <3>4 DEF Off
    <3> QED BY <3>1, <3>2, <3>3, <3>4
  <2> QED BY <2>5, <2>6, <2>7, <2>8, <2>9, <2>10 DEF PrInv
<1>8. ASSUME NEW h \in Handlers, Disable(h) PROVE PrInv'
  <2> DEFINE i == handler[h].i
             new == [profile[i] EXCEPT !.on = FALSE]
  <2>1. /\ handler[h].pc = "disable" /\ i \in Ifaces
        /\ UNCHANGED <<client, links, gate, seenRows, calls, raced>>
    BY <1>8, <1>l DEF Disable, WithRow, Deleting
  <2>2. CASE handler[h].row.on /\ StillThere(h)
    <3>1. /\ profile[i] # NoRow /\ profile[i] \in Row /\ Advance(h, "d-pass")
          /\ profile' = [profile EXCEPT ![i] = new]
      BY <1>8, <1>k, <2>1, <2>2 DEF Disable, StillThere
    <3>2. new = [id |-> profile[i].id, on |-> FALSE, pools |-> profile[i].pools]
      BY <3>1, RowSwitched
    <3>3. new \in Row /\ new.id = profile[i].id /\ ~new.on /\ new.pools = profile[i].pools
      BY <3>1, <3>2 DEF Row
    <3>4. raced \subseteq raced' /\ raced' \subseteq Ifaces
      BY <1>t, <2>1 DEF PrTypes
    <3>5. i = handler[h].i
      OBVIOUS
    <3> HIDE DEF new, i
    <3> QED BY <1>r, <2>1, <3>1, <3>3, <3>4, <3>5
  <2>3. CASE handler[h].row.on /\ ~StillThere(h)
    <3>1. UNCHANGED profile /\ Advance(h, "idle")
      BY <1>8, <2>3 DEF Disable
    <3>2. "idle" \in HandlerPlaces /\ "idle" \notin WithRow \cup Deleting \cup {"passing", "d-passing"}
      BY DEF HandlerPlaces, WithRow, Deleting
    <3> QED BY <1>q, <2>1, <3>1, <3>2
  <2>4. CASE ~handler[h].row.on
    <3>1. UNCHANGED profile /\ Advance(h, "d-pass")
      BY <1>8, <2>4 DEF Disable
    <3>2. "d-pass" \in HandlerPlaces /\ handler[h].pc \in WithRow /\ "d-pass" # "idle"
      BY <2>1 DEF HandlerPlaces, WithRow, Deleting
    <3>3. /\ handler' \in [Handlers -> Places]
          /\ \A g \in Handlers \ {h} : handler'[g] = handler[g]
          /\ handler'[h] = [pc |-> "d-pass", i |-> handler[h].i, row |-> handler[h].row]
          /\ \A g \in Handlers : handler'[g].pc \in WithRow =>
               handler'[g].i \in Ifaces /\ handler'[g].row \in Row
      BY <1>h, <3>1, <3>2
    <3>4. PrTypes'
      BY <1>t, <2>1, <3>1, <3>3 DEF PrTypes
    <3>5. Disjoint' /\ AddressesSound' /\ WantedOwned' /\ LinksOwned'
      BY <1>i, <2>1, <3>1 DEF Disjoint, AddressesSound, WantedOwned, LinksOwned
    <3>6. OldIds' /\ OnePass'
      BY <1>i, <2>1, <3>1, <3>2, <3>3 DEF OldIds, OnePass
    <3>7. ASSUME NEW g \in Handlers PROVE Off(g)'
      BY <1>i, <2>1, <2>4, <3>1, <3>3 DEF Off, StillThere, Deleting
    <3> QED BY <3>4, <3>5, <3>6, <3>7 DEF PrInv
  <2> QED BY <2>2, <2>3, <2>4
<1>9. ASSUME NEW h \in Handlers, DeleteRow(h) PROVE PrInv'
  <2>1. /\ handler[h].pc = "d-row" /\ handler[h].i \in Ifaces
        /\ UNCHANGED <<client, links, gate, seenRows, calls, raced>>
    BY <1>9, <1>l DEF DeleteRow, WithRow, Deleting
  <2>2. /\ "idle" \in HandlerPlaces /\ "rollback" \in HandlerPlaces
        /\ "idle" \notin WithRow \cup Deleting \cup {"passing", "d-passing"}
        /\ "rollback" \notin Deleting \cup {"passing", "d-passing"}
        /\ handler[h].pc \in WithRow
    BY <2>1 DEF HandlerPlaces, WithRow, Deleting
  <2>3. CASE StillThere(h) /\ UsedBy(handler[h].i) = {}
    <3>1. PICK i \in Ifaces : i = handler[h].i
      BY <2>1
    <3>2. profile' = [profile EXCEPT ![i] = NoRow] /\ Advance(h, "idle")
      BY <1>9, <2>3, <3>1 DEF DeleteRow
    <3>3. /\ profile'[i] = NoRow /\ \A j \in Ifaces \ {i} : profile'[j] = profile[j]
          /\ profile' \in [Ifaces -> Row \cup {NoRow}]
      BY <1>t, <3>2 DEF PrTypes
    <3>4. /\ handler' \in [Handlers -> Places] /\ handler'[h].pc = "idle"
          /\ \A g \in Handlers \ {h} : handler'[g] = handler[g]
          /\ \A g \in Handlers : handler'[g].pc \in WithRow =>
               handler'[g].i \in Ifaces /\ handler'[g].row \in Row
      BY <1>h, <2>2, <3>2
    <3>5. PrTypes'
      BY <1>t, <2>1, <3>3, <3>4 DEF PrTypes
    <3>6. Disjoint' /\ AddressesSound'
      <4>1. \A c \in Clients : client[c] # NoRow => client[c].i \in Ifaces \ {i}
        BY <1>t, <2>3, <3>1 DEF PrTypes, Device, UsedBy
      <4> QED BY <1>i, <2>1, <3>3, <4>1 DEF Disjoint, AddressesSound
    <3>7. OldIds' /\ OnePass'
      BY <1>i, <2>1, <2>2, <3>3, <3>4 DEF OldIds, OnePass
    <3>8. i \notin raced => i \notin links /\ (seenRows[i] = NoRow \/ ~seenRows[i].on)
      BY <1>i, <2>1, <2>3, <3>1 DEF Off, Deleting
    <3>9. WantedOwned' /\ LinksOwned'
      BY <1>i, <1>t, <2>1, <3>3, <3>8 DEF WantedOwned, LinksOwned, PrTypes
    <3>10. ASSUME NEW g \in Handlers PROVE Off(g)'
      <4>1. CASE g = h \/ handler[g].pc \notin Deleting
        BY <2>2, <3>4, <4>1 DEF Off
      <4>2. CASE g # h /\ handler[g].pc \in Deleting
        <5>1. handler[g].i \in Ifaces /\ handler'[g] = handler[g]
          BY <1>l, <3>4, <4>2 DEF WithRow
        <5> QED BY <1>i, <2>1, <3>3, <4>2, <5>1 DEF Off, StillThere
      <4> QED BY <4>1, <4>2
    <3> QED BY <3>5, <3>6, <3>7, <3>9, <3>10 DEF PrInv
  <2>4. CASE ~(StillThere(h) /\ UsedBy(handler[h].i) = {})
    <3>1. UNCHANGED profile /\ Advance(h, "rollback")
      BY <1>9, <2>4 DEF DeleteRow
    <3> QED BY <1>q, <2>1, <2>2, <3>1
  <2> QED BY <2>3, <2>4
<1>10. ASSUME NEW h \in Handlers, Rollback(h) PROVE PrInv'
  <2> DEFINE i == handler[h].i
             new == [profile[i] EXCEPT !.on = TRUE]
  <2>1. handler[h].pc = "rollback" /\ i \in Ifaces /\ UNCHANGED <<client, links, gate, seenRows, calls>>
    BY <1>10, <1>l DEF Rollback, WithRow
  <2>2. CASE handler[h].row.on /\ StillThere(h)
    <3>1. /\ profile[i] # NoRow /\ profile[i] \in Row /\ Advance(h, "pass")
          /\ profile' = [profile EXCEPT ![i] = new] /\ raced' = Marked(i)
      BY <1>10, <1>k, <2>1, <2>2 DEF Rollback, StillThere
    <3>2. new = [id |-> profile[i].id, on |-> TRUE, pools |-> profile[i].pools]
      BY <3>1, RowSwitched
    <3>3. new \in Row /\ new.id = profile[i].id /\ new.pools = profile[i].pools
      BY <3>1, <3>2 DEF Row
    <3>4. Marked(i) \subseteq Ifaces /\ raced \subseteq Marked(i)
          /\ \A g \in Handlers : handler[g].pc \in Deleting /\ handler[g].i = i => i \in Marked(i)
      BY <1>t, <2>1 DEF Marked, PrTypes
    <3> HIDE DEF new, i
    <3> QED BY <1>r, <2>1, <3>1, <3>3, <3>4
  <2>3. CASE ~(handler[h].row.on /\ StillThere(h))
    <3>1. UNCHANGED <<profile, raced>> /\ Advance(h, "idle")
      BY <1>10, <2>3 DEF Rollback
    <3>2. "idle" \in HandlerPlaces /\ "idle" \notin WithRow \cup Deleting \cup {"passing", "d-passing"}
      BY DEF HandlerPlaces, WithRow, Deleting
    <3> QED BY <1>q, <2>1, <3>1, <3>2
  <2> QED BY <2>2, <2>3
<1>11. ASSUME NEW c \in Clients, DeleteClient(c) PROVE PrInv'
  <2>1. /\ client' = [client EXCEPT ![c] = NoRow]
        /\ UNCHANGED <<profile, links, handler, gate, seenRows, calls, raced>>
    BY <1>11 DEF DeleteClient
  <2>2. PrTypes'
    BY <1>t, <2>1 DEF PrTypes
  <2>3. AddressesSound'
    BY <1>i, <1>t, <2>1 DEF AddressesSound, PrTypes
  <2> QED
    BY <1>i, <2>1, <2>2, <2>3
       DEF PrInv, Disjoint, OldIds, OnePass, WantedOwned, LinksOwned, Off, StillThere
<1>12. ASSUME NEW c \in Clients, NEW i \in Ifaces, CreateClient(c, i) PROVE PrInv'
  <2> DEFINE new == [i |-> i, addr |-> FirstFree(i)]
  <2>1. /\ client' = [client EXCEPT ![c] = new] /\ profile[i] \in Row /\ profile[i] # NoRow
        /\ Free(i) # {}
        /\ UNCHANGED <<profile, links, handler, gate, seenRows, calls, raced>>
    BY <1>12, <1>k DEF CreateClient
  <2>2. /\ FirstFree(i) \in PoolsOf(profile[i].pools) \X (1..Slots)
        /\ \A d \in UsedBy(i) : client[d].addr # FirstFree(i)
    BY <2>1, FirstFreeIsFree
  <2>3. FirstFree(i)[1] \in PoolsOf(profile[i].pools) /\ profile[i].pools \in PoolLists
    BY <2>1, <2>2 DEF Row
  <2>4. new \in Device /\ new # NoRow
    BY <1>n, <2>2, <2>3 DEF Device
  <2>5. /\ client'[c] = new /\ \A d \in Clients \ {c} : client'[d] = client[d]
        /\ client' \in [Clients -> Device \cup {NoRow}]
    BY <1>t, <2>1, <2>4 DEF PrTypes
  <2>6. PrTypes'
    BY <1>t, <2>1, <2>5 DEF PrTypes
  <2>7. AddressesSound'
    <3>1. ASSUME NEW d \in Clients \ {c}, client[d] # NoRow PROVE client[d].addr # FirstFree(i)
      <4>1. CASE client[d].i = i
        BY <2>2, <3>1, <4>1 DEF UsedBy
      <4>2. CASE client[d].i # i
        <5>1. client[d].i \in Ifaces /\ profile[client[d].i] # NoRow
              /\ client[d].addr[1] \in PoolsOf(profile[client[d].i].pools)
          BY <1>i, <1>t, <3>1 DEF AddressesSound, PrTypes, Device
        <5>2. client[d].addr[1] # FirstFree(i)[1]
          BY <1>i, <2>1, <2>3, <4>2, <5>1 DEF Disjoint
        <5> QED BY <5>2
      <4> QED BY <4>1, <4>2
    <3> QED BY <1>i, <2>1, <2>3, <2>5, <3>1 DEF AddressesSound
  <2> QED
    BY <1>i, <2>1, <2>6, <2>7
       DEF PrInv, Disjoint, OldIds, OnePass, WantedOwned, LinksOwned, Off, StillThere
<1>13. CASE Crash
  <2>1. /\ handler' = [h \in Handlers |-> Idle] /\ gate' = NoRow /\ seenRows' = [i \in Ifaces |-> NoRow]
        /\ UNCHANGED <<profile, client, links, calls, raced>>
    BY <1>13 DEF Crash
  <2>2. Idle \in Places /\ Idle.pc \notin WithRow \cup Deleting \cup {"passing", "d-passing"}
    BY DEF Idle, HandlerPlaces, WithRow, Deleting
  <2>3. PrTypes'
    BY <1>t, <2>1, <2>2 DEF PrTypes
  <2> QED
    BY <1>i, <2>1, <2>2, <2>3
       DEF PrInv, Disjoint, AddressesSound, OldIds, OnePass, WantedOwned, LinksOwned, Off
<1> QED
  BY <1>u, <1>1, <1>3, <1>4, <1>5, <1>6, <1>7, <1>8, <1>9, <1>10, <1>11, <1>12, <1>13 DEF PNext

\* iface.go and device.go: addresses are unique and of a pool of their profile,
\* and no deletion leaves a live link behind unless somebody enabled the profile
\* meanwhile; for any profiles, pools, devices, handlers, failures and crashes.
THEOREM ProfilesStaySound == PSpec => []ProfilesSound
<1>1. PrInv => ProfilesSound
  BY DEF PrInv, ProfilesSound
<1> QED BY <1>1, PrInitial, PrStep, PTL DEF PSpec
=============================================================================
