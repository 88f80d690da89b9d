----------------------------- MODULE NodeProofs -----------------------------
(***************************************************************************)
(* The node process, for any jobs, workers, runners and stages: the starts *)
(* of a job keep their distance and its lateness has a bound (Scheduler),  *)
(* the database is closed last (Node), a due backup is archived once at    *)
(* the first matching slot (BackupSchedule) and a restore is applied whole, *)
(* once, or not at all (Restore).                                          *)
(***************************************************************************)
EXTENDS Scheduler, Node, BackupSchedule, Restore, FiniteSetTheorems, TLAPS

-----------------------------------------------------------------------------
(* Scheduler: two starts of a job are at least its interval apart.          *)

SchedType ==
  /\ interval \in [Jobs -> Intervals]
  /\ due \in [Jobs -> Int]
  /\ queue \subseteq Jobs
  /\ running \in Jobs \cup {None}
  /\ running \notin queue
  /\ age \in Nat
  /\ since \in [Jobs -> 0..Horizon]

\* A queued job has run long enough ago, counting the wait still ahead of it.
Apart(j) == since[j] = Horizon \/ since[j] + due[j] >= interval[j]

\* The run in progress is as old as the last start.
Dated == running # None => since[running] = Horizon \/ since[running] >= age

IInv == SchedType /\ Dated /\ \A j \in queue : Apart(j)

\* Intervals are integers the ghost clocks can count to.
LEMMA IntervalRange == \A i \in Intervals : i \in Int /\ 1 <= i /\ i <= Horizon
  BY IntervalsAssumption, BoundsAssumption

\* The scheduler starts in the invariant.
LEMMA InitIInv == Init => IInv
<1> SUFFICES ASSUME Init PROVE IInv
  OBVIOUS
<1>1. SchedType
  BY IntervalRange, JobsAssumption, BoundsAssumption DEF Init, SchedType
<1>2. Dated /\ \A j \in queue : Apart(j)
  BY DEF Init, Dated, Apart
<1> QED
  BY <1>1, <1>2 DEF IInv

\* Every action keeps it.
LEMMA NextIInv == IInv /\ [Next]_vars => IInv'
<1> SUFFICES ASSUME IInv, [Next]_vars PROVE IInv'
  OBVIOUS
<1> USE IntervalRange, JobsAssumption, BoundsAssumption
<1>a. SchedType /\ Dated /\ \A j \in queue : Apart(j)
  BY DEF IInv
<1>0. CASE UNCHANGED vars
  BY <1>0, <1>a DEF vars, IInv, SchedType, Dated, Apart
<1>1. ASSUME NEW j \in Jobs, Begin(j) PROVE IInv'
  <2>1. SchedType'
    BY <1>1, <1>a DEF Begin, SchedType
  <2>2. Dated'
    BY <1>1, <1>a DEF Begin, SchedType, Dated
  <2>3. \A i \in queue' : Apart(i)'
    BY <1>1, <1>a DEF Begin, SchedType, Apart
  <2> QED
    BY <2>1, <2>2, <2>3 DEF IInv
<1>2. CASE Finish
  <2>1. running \in Jobs /\ interval[running] \in Int /\ age \in Int
        /\ since[running] \in Int
    BY <1>2, <1>a DEF Finish, SchedType
  <2>2. SchedType'
    <3>1. interval[running] - age \in Int
      BY <2>1
    <3>2. due' \in [Jobs -> Int]
      BY <1>2, <1>a, <3>1 DEF Finish, SchedType
    <3>3. queue' \subseteq Jobs /\ running' = None
      BY <1>2, <1>a, <2>1 DEF Finish, SchedType
    <3> QED
      BY <1>2, <1>a, <3>2, <3>3 DEF Finish, SchedType
  <2>3. Dated'
    BY <1>2 DEF Finish, Dated
  <2>4. ASSUME NEW i \in queue' PROVE Apart(i)'
    <3>1. CASE i = running
      BY <1>2, <1>a, <2>1, <3>1 DEF Finish, SchedType, Dated, Apart
    <3>2. CASE i # running
      BY <1>2, <1>a, <2>4, <3>2 DEF Finish, SchedType, Apart
    <3> QED
      BY <3>1, <3>2
  <2> QED
    BY <2>2, <2>3, <2>4 DEF IInv
<1>3. CASE Tick
  <2>1. SchedType'
    BY <1>3, <1>a DEF Tick, SchedType
  <2>2. Dated'
    BY <1>3, <1>a DEF Tick, SchedType, Dated
  <2>3. ASSUME NEW i \in queue' PROVE Apart(i)'
    BY <1>3, <1>a, <2>3 DEF Tick, SchedType, Apart
  <2> QED
    BY <2>1, <2>2, <2>3 DEF IInv
<1>4. ASSUME NEW i \in Intervals, SetOwnInterval(i) PROVE IInv'
  <2>1. SchedType'
    BY <1>4, <1>a DEF SetOwnInterval, SchedType
  <2>2. Dated'
    BY <1>4, <1>a DEF SetOwnInterval, Dated
  <2>3. \A j \in queue' : Apart(j)'
    BY <1>4, <1>a DEF SetOwnInterval, SchedType, Apart
  <2> QED
    BY <2>1, <2>2, <2>3 DEF IInv
<1>5. ASSUME NEW j \in Jobs, NEW i \in Intervals, SetInterval(j, i) PROVE IInv'
  <2>1. SchedType'
    BY <1>5, <1>a DEF SetInterval, SchedType
  <2>2. Dated'
    BY <1>5, <1>a DEF SetInterval, Dated
  <2>3. ASSUME NEW q \in queue' PROVE Apart(q)'
    <3>1. CASE q = j
      BY <1>5, <1>a, <3>1 DEF SetInterval, SchedType, Apart
    <3>2. CASE q # j
      BY <1>5, <1>a, <2>3, <3>2 DEF SetInterval, SchedType, Apart
    <3> QED
      BY <3>1, <3>2
  <2> QED
    BY <2>1, <2>2, <2>3 DEF IInv
<1>6. CASE Stop \/ Leave
  BY <1>6, <1>a DEF Stop, Leave, IInv, SchedType, Dated, Apart
<1> QED
  BY <1>0, <1>1, <1>2, <1>3, <1>4, <1>5, <1>6 DEF Next

\* scheduler.go step: after any backlog and any change of interval a job starts
\* at least one interval after its previous start.  Nothing is said of the time
\* from its return to its next start, which may be none.
THEOREM RunsStartApart == Spec => StartsApart
<1>1. Spec => []IInv
  BY InitIInv, NextIInv, PTL DEF Spec
<1>2. IInv /\ [Next]_vars
        => [\A j \in Jobs : Begin(j) => since[j] >= interval[j]]_vars
  <2> SUFFICES ASSUME IInv, NEW j \in Jobs, Begin(j)
               PROVE  since[j] >= interval[j]
    OBVIOUS
  <2>1. Apart(j) /\ due[j] <= 0 /\ interval[j] \in Int /\ interval[j] <= Horizon
        /\ due[j] \in Int /\ since[j] \in Int
    BY IntervalRange, BoundsAssumption DEF IInv, SchedType, Begin, Earliest
  <2> QED
    BY <2>1, BoundsAssumption DEF Apart
<1> QED
  BY <1>1, <1>2, PTL DEF Spec, StartsApart

-----------------------------------------------------------------------------
(* Scheduler: how late a job can be.                                        *)

\* The jobs that start before j if nothing changes.
Ahead(j) == {i \in queue \ {j} : Less(i, j)}
Turns(j) == Cardinality(Ahead(j)) * MaxRun
Longest == Cardinality(Jobs) * MaxRun

LateType ==
  /\ interval \in [Jobs -> Intervals] /\ due \in [Jobs -> Int]
  /\ queue \subseteq Jobs /\ running \in Jobs \cup {None} /\ running \notin queue
  /\ age \in 0..MaxRun

\* What a due job has waited and the runs still ahead of it are less than one
\* longest run per job.  It may not count the run in progress if it was not
\* due yet when that began: then it has not waited as long as the run takes.
Waited(j) ==
  /\ running = None => Turns(j) - due[j] < Longest
  /\ running # None /\ due[j] + age <= 0 => Turns(j) - due[j] + (MaxRun - age) < Longest

LateInv == LateType /\ \A j \in queue : due[j] <= 0 => Waited(j)

\* Facts of arithmetic.
LEMMA Products ==
  /\ \A a, m \in Nat : a * m \in Nat
  /\ \A a, b, m \in Nat : a <= b => a * m <= b * m
  /\ \A a, m \in Nat : (a + 1) * m = a * m + m
  OBVIOUS

\* The time the runs of some other jobs take.
LEMMA TurnsFacts ==
  ASSUME NEW j \in Jobs, NEW S, S \subseteq Jobs \ {j}
  PROVE  /\ IsFiniteSet(S) /\ Longest \in Nat
         /\ Cardinality(S) * MaxRun \in Nat /\ Cardinality(S) * MaxRun + MaxRun <= Longest
<1>0. MaxRun \in Nat /\ IsFiniteSet(Jobs)
  BY BoundsAssumption, JobsAssumption
<1>1. IsFiniteSet(Jobs \ {j}) /\ Cardinality(Jobs \ {j}) = Cardinality(Jobs) - 1
  BY <1>0, FS_RemoveElement
<1>2. IsFiniteSet(S) /\ Cardinality(S) <= Cardinality(Jobs) - 1
  BY <1>1, FS_Subset
<1>3. Cardinality(S) \in Nat /\ Cardinality(Jobs) \in Nat
  BY <1>0, <1>2, FS_CardinalityType
<1>4. Cardinality(S) + 1 \in Nat /\ Cardinality(S) + 1 <= Cardinality(Jobs)
  BY <1>2, <1>3
<1>5. (Cardinality(S) + 1) * MaxRun <= Cardinality(Jobs) * MaxRun
  BY <1>0, <1>3, <1>4, Products
<1>6. /\ (Cardinality(S) + 1) * MaxRun = Cardinality(S) * MaxRun + MaxRun
      /\ Cardinality(S) * MaxRun \in Nat /\ Cardinality(Jobs) * MaxRun \in Nat
  BY <1>0, <1>3, Products
<1> QED BY <1>2, <1>5, <1>6 DEF Longest

\* Fewer jobs ahead take less time.
LEMMA FewerTurns ==
  ASSUME NEW S, NEW T, IsFiniteSet(S), T \subseteq S
  PROVE  /\ Cardinality(T) * MaxRun <= Cardinality(S) * MaxRun
         /\ \A x \in S : x \notin T =>
              Cardinality(T) * MaxRun + MaxRun <= Cardinality(S) * MaxRun
<1>0. MaxRun \in Nat
  BY BoundsAssumption
<1>1. IsFiniteSet(T) /\ Cardinality(T) <= Cardinality(S)
  BY FS_Subset
<1>2. Cardinality(T) \in Nat /\ Cardinality(S) \in Nat
  BY <1>1, FS_CardinalityType
<1>3. Cardinality(T) * MaxRun <= Cardinality(S) * MaxRun
  BY <1>0, <1>1, <1>2, Products
<1>4. ASSUME NEW x \in S, x \notin T
      PROVE  Cardinality(T) * MaxRun + MaxRun <= Cardinality(S) * MaxRun
  <2>1. Cardinality(T) # Cardinality(S)
    BY <1>4, FS_Subset
  <2>2. Cardinality(T) + 1 <= Cardinality(S) /\ Cardinality(T) + 1 \in Nat
    BY <1>1, <1>2, <2>1
  <2>3. (Cardinality(T) + 1) * MaxRun <= Cardinality(S) * MaxRun
    BY <1>0, <1>2, <2>2, Products
  <2> QED BY <1>0, <1>2, <2>3, Products
<1> QED BY <1>3, <1>4

\* No job is due at the start.
LEMMA LateInitial == Init => LateInv
<1> SUFFICES ASSUME Init PROVE LateInv
  OBVIOUS
<1>1. \A j \in Jobs : due[j] \in Intervals
  BY DEF Init
<1>2. \A j \in queue : due[j] \in Int /\ due[j] > 0
  BY <1>1, IntervalRange DEF Init
<1>3. due \in [Jobs -> Int]
  BY <1>1, IntervalRange DEF Init
<1>4. LateType
  BY <1>3, JobsAssumption, BoundsAssumption DEF Init, LateType
<1> QED BY <1>2, <1>4 DEF LateInv

\* Every step keeps it: a run in progress counts for the jobs that were due when
\* it began, and a job that has run goes behind all that are due.
LEMMA LateStep == LateInv /\ [Next]_vars => LateInv'
<1> SUFFICES ASSUME LateInv, [Next]_vars PROVE LateInv'
  OBVIOUS
<1>t. LateType /\ MaxRun \in Nat \ {0} /\ None \notin Jobs
  BY JobsAssumption, BoundsAssumption DEF LateInv
<1>d. \A j \in Jobs : due[j] \in Int /\ interval[j] \in Int /\ interval[j] >= 1
  BY <1>t, IntervalRange DEF LateType
<1>a. age \in Nat /\ age <= MaxRun
  BY <1>t DEF LateType
\* The time the jobs ahead of j take, before and after the step.
<1>f. ASSUME NEW j \in queue
      PROVE  /\ IsFiniteSet(Ahead(j)) /\ Turns(j) \in Nat
             /\ Longest \in Nat /\ Longest' = Longest /\ Turns(j) + MaxRun <= Longest
  <2>1. j \in Jobs /\ Ahead(j) \subseteq Jobs \ {j}
    BY <1>t DEF LateType, Ahead
  <2> QED BY <2>1, TurnsFacts DEF Turns, Longest
<1>g. ASSUME queue' \subseteq Jobs, NEW j \in queue'
      PROVE  Turns(j)' \in Nat /\ Turns(j)' + MaxRun <= Longest
  <2>1. j \in Jobs /\ Ahead(j)' \subseteq Jobs \ {j}
    BY <1>g DEF Ahead
  <2> QED BY <2>1, TurnsFacts DEF Turns
<1>0. CASE UNCHANGED vars
  BY <1>0 DEF vars, LateInv, LateType, Waited, Turns, Ahead, Less
<1>1. ASSUME NEW r \in Jobs, Begin(r) PROVE LateInv'
  <2>1. LateType'
    BY <1>1, <1>t DEF Begin, Earliest, LateType
  <2>2. ASSUME NEW j \in queue', due'[j] <= 0 PROVE Waited(j)'
    <3>1. j \in queue /\ j # r /\ due'[j] = due[j] /\ due[j] <= 0 /\ age' = 0 /\ running = None
      BY <1>1, <2>2 DEF Begin
    <3>2. r \in Ahead(j) /\ Ahead(j)' = Ahead(j) \ {r}
      BY <1>1, <3>1 DEF Begin, Earliest, Ahead, Less
    <3>3. Turns(j)' + MaxRun <= Turns(j)
      BY <3>1, <3>2, <1>f, FewerTurns DEF Turns
    <3>4. Turns(j) - due[j] < Longest
      BY <3>1 DEF LateInv, Waited
    <3>5. Turns(j) \in Nat /\ Longest' = Longest /\ Longest \in Nat
      BY <1>f, <3>1
    <3>6. Turns(j)' \in Nat /\ due[j] \in Int /\ running' # None
      BY <2>1, <2>2, <1>1, <1>t, <1>d, <1>g DEF LateType, Begin
    <3> QED BY <3>1, <3>3, <3>4, <3>5, <3>6, <1>t DEF Waited
  <2> QED BY <2>1, <2>2 DEF LateInv
<1>2. CASE Finish
  <2>0. running \in Jobs /\ interval[running] - age \in Int
    BY <1>2, <1>t, <1>d, <1>a DEF Finish, LateType
  <2>1. LateType'
    BY <1>2, <1>t, <2>0 DEF Finish, LateType
  <2>2. ASSUME NEW j \in queue', due'[j] <= 0 PROVE Waited(j)'
    <3>1. /\ running # None /\ running \in Jobs /\ running' = None
          /\ interval[running] \in Int /\ interval[running] >= 1
      BY <1>2, <1>t, <1>d DEF Finish, LateType
    <3>2. /\ Turns(j)' \in Nat /\ Turns(j)' + MaxRun <= Longest
          /\ Longest' = Longest /\ Longest \in Nat
      BY <2>1, <2>2, <1>g, BoundsAssumption, FS_CardinalityType, JobsAssumption, Products
         DEF LateType, Longest
    <3>3. CASE j = running
      <4>1. due'[j] = interval[running] - age
        BY <1>2, <1>t, <3>1, <3>3 DEF Finish, LateType
      <4> QED BY <3>1, <3>2, <4>1, <1>a, <1>t DEF Waited
    <3>4. CASE j # running
      <4>1. j \in queue /\ due'[j] = due[j] /\ due[j] \in Int
        BY <1>2, <2>2, <3>4, <1>t, <1>d DEF Finish, LateType
      <4>2. CASE due[j] + age > 0
        BY <3>1, <3>2, <4>1, <4>2, <1>a, <1>t DEF Waited
      <4>3. CASE due[j] + age <= 0
        <5>1. Turns(j) - due[j] + (MaxRun - age) < Longest
          BY <2>2, <3>1, <4>1, <4>3 DEF LateInv, Waited
        <5>0. PICK r \in Jobs : r = running
          BY <3>1
        <5>2. due'[r] = interval[r] - age
          BY <1>2, <1>t, <3>1, <5>0 DEF Finish, LateType
        <5>3. \A i \in queue : due'[i] = due[i]
          BY <1>2, <1>t DEF Finish, LateType
        <5>4. ~(Less(r, j)')
          BY <4>1, <4>3, <5>2, <1>a, <1>d DEF Less
        <5>5. \A i \in queue : Less(i, j)' <=> Less(i, j)
          BY <4>1, <5>3 DEF Less
        <5>6. Ahead(j)' = Ahead(j)
          <6>1. queue' = queue \cup {r}
            BY <1>2, <5>0 DEF Finish
          <6> QED BY <6>1, <5>4, <5>5 DEF Ahead
        <5>7. Turns(j)' = Turns(j) /\ Turns(j) \in Nat
          BY <4>1, <5>6, <1>f DEF Turns
        <5> QED BY <3>1, <3>2, <4>1, <5>1, <5>7, <1>a, <1>t DEF Waited
      <4> QED BY <4>1, <4>2, <4>3, <1>a
    <3> QED BY <3>3, <3>4
  <2> QED BY <2>1, <2>2 DEF LateInv
<1>3. CASE Tick
  <2>1. LateType'
    BY <1>3, <1>t, <1>d, <1>a DEF Tick, LateType
  <2>2. ASSUME NEW j \in queue', due'[j] <= 0 PROVE Waited(j)'
    <3>1. j \in queue /\ j \in Jobs /\ due'[j] = due[j] - 1 /\ due[j] \in Int /\ running' = running
      BY <1>3, <2>2, <1>t, <1>d DEF Tick, LateType
    <3>2. \A i \in queue : due[i] \in Int /\ due'[i] = due[i] - 1
      BY <1>3, <1>t, <1>d DEF Tick, LateType
    <3>3. Ahead(j)' = Ahead(j)
      BY <1>3, <3>1, <3>2 DEF Ahead, Less, Tick
    <3>4. Turns(j)' = Turns(j) /\ Turns(j) \in Nat /\ Turns(j) + MaxRun <= Longest
          /\ Longest' = Longest /\ Longest \in Nat
      BY <3>1, <3>3, <1>f DEF Turns
    <3>5. CASE running = None
      <4>1. due[j] > 0
        BY <1>3, <3>1, <3>5 DEF Tick, SomeoneDue
      <4> QED BY <2>2, <3>1, <3>4, <3>5, <4>1, <1>t DEF Waited
    <3>6. CASE running # None
      <4>1. age' = age + 1
        BY <1>3, <3>6 DEF Tick
      <4>2. CASE due[j] + age <= 0
        <5>1. due[j] <= 0
          BY <3>1, <4>2, <1>a
        <5>2. Turns(j) - due[j] + (MaxRun - age) < Longest
          BY <3>1, <3>6, <4>2, <5>1 DEF LateInv, Waited
        <5> QED BY <3>1, <3>4, <3>6, <4>1, <5>2, <1>a, <1>t DEF Waited
      <4>3. CASE due[j] + age > 0
        BY <3>1, <3>6, <4>1, <4>3, <1>a DEF Waited
      <4> QED BY <3>1, <4>2, <4>3, <1>a
    <3> QED BY <3>5, <3>6
  <2> QED BY <2>1, <2>2 DEF LateInv
<1>4. ASSUME NEW i \in Intervals, SetOwnInterval(i) PROVE LateInv'
  <2>1. LateType'
    BY <1>4, <1>t DEF SetOwnInterval, LateType
  <2> QED BY <1>4, <2>1 DEF SetOwnInterval, LateInv, Waited, Turns, Ahead, Less
<1>5. ASSUME NEW k \in Jobs, NEW n \in Intervals, SetInterval(k, n) PROVE LateInv'
  <2>0. n \in Int /\ n > 0
    BY IntervalRange
  <2>1. LateType'
    BY <1>5, <1>t, <2>0 DEF SetInterval, LateType
  <2>2. ASSUME NEW j \in queue', due'[j] <= 0 PROVE Waited(j)'
    <3>1. j \in queue /\ j \in Jobs /\ due'[k] = n /\ k \in queue
      BY <1>5, <2>2, <1>t DEF SetInterval, LateType
    <3>2. j # k
      BY <2>0, <2>2, <3>1
    <3>3. \A i \in queue : i # k => due'[i] = due[i]
      BY <1>5, <1>t DEF SetInterval, LateType
    <3>4. due'[j] = due[j] /\ due[j] <= 0 /\ due[j] \in Int
      BY <2>2, <3>1, <3>2, <3>3, <1>d
    <3>5. ~Less(k, j)'
      BY <2>0, <3>1, <3>4 DEF Less
    <3>6. \A i \in queue : i # k => (Less(i, j)' <=> Less(i, j))
      BY <3>3, <3>4 DEF Less
    <3>7. Ahead(j)' \subseteq Ahead(j)
      BY <1>5, <3>5, <3>6 DEF Ahead, SetInterval
    <3>8. Turns(j)' <= Turns(j)
      BY <3>1, <3>7, <1>f, FewerTurns DEF Turns
    <3>9. Turns(j)' \in Nat /\ Turns(j) \in Nat /\ Longest' = Longest /\ Longest \in Nat
      BY <2>1, <2>2, <3>1, <1>f, <1>g DEF LateType
    <3>10. Waited(j) /\ running' = running /\ age' = age
      BY <1>5, <3>1, <3>4 DEF LateInv, SetInterval
    <3> QED BY <3>4, <3>8, <3>9, <3>10, <1>a, <1>t DEF Waited
  <2> QED BY <2>1, <2>2 DEF LateInv
<1>6. CASE Stop \/ Leave
  BY <1>6 DEF Stop, Leave, LateInv, LateType, Waited, Turns, Ahead, Less
<1> QED BY <1>0, <1>1, <1>2, <1>3, <1>4, <1>5, <1>6 DEF Next

\* scheduler.go, loop and step: a due job has waited less than one longest run
\* per registered job, for any jobs, intervals and changes of them.
THEOREM LatenessStaysBounded == Spec => []LatenessBounded
<1>1. LateInv => LatenessBounded
  <2> SUFFICES ASSUME LateInv, NEW j \in queue PROVE due[j] > -(Cardinality(Jobs) * MaxRun)
    BY DEF LatenessBounded
  <2>1. j \in Jobs /\ Ahead(j) \subseteq Jobs \ {j} /\ due[j] \in Int /\ age \in 0..MaxRun
    BY DEF LateInv, LateType, Ahead
  <2>2. Turns(j) \in Nat /\ Longest \in Nat /\ Turns(j) + MaxRun <= Longest /\ MaxRun \in Nat \ {0}
    BY <2>1, TurnsFacts, BoundsAssumption DEF Turns
  <2>3. due[j] <= 0 => Waited(j)
    BY DEF LateInv
  <2>4. due[j] > -Longest
    BY <2>1, <2>2, <2>3 DEF Waited
  <2> QED BY <2>4 DEF Longest
<1> QED BY <1>1, LateInitial, LateStep, PTL DEF Spec

-----------------------------------------------------------------------------
(* Node: database and lease are given up last.                              *)

WorkerStates == {"none", "waiting", "running", "working", "done"}

\* Start: workers and the scheduler come last, the data first, and requests
\* are accepted only in between.
StartOrder ==
  /\ life \in {"off", "opened", "serving"} => sched = "new" /\ \A w \in Workers : worker[w] = "none"
  /\ life \in {"off", "opened"} => handlers = 0
  /\ life \in {"opened", "serving", "up"} => dbOpen /\ lease
  /\ listening => life \in {"serving", "up"}

\* Shutdown: what has been drained when it is past each of its steps.  Only a
\* call that has met no error knows that the handlers are gone.
StopOrder ==
  /\ life \in {"cancel", "drain", "close", "returned", "ended"} => sched # "on"
  /\ life \in {"sched", "cancel", "drain"} /\ ~errs => handlers = 0
  /\ life \in {"close", "ended"} =>
       handlers = 0 /\ \A w \in Workers : worker[w] \in {"none", "done"}

\* A job runs in a scheduler that is on, and without its database the node
\* neither listens nor schedules: nothing new can start to use it.
NoNewUse ==
  /\ jobOn => sched = "on"
  /\ ~dbOpen => sched # "on" /\ ~listening

NInv ==
  /\ worker \in [Workers -> WorkerStates] /\ handlers \in Nat
  /\ StartOrder /\ StopOrder /\ NoNewUse /\ ClosedWhenUnused

\* The process starts in the invariant.
LEMMA NInitial == NInit => NInv
  BY DEF NInit, NInv, WorkerStates, StartOrder, StopOrder, NoNewUse, ClosedWhenUnused

\* Every step of Start, of Shutdown and of what runs meanwhile keeps it.
LEMMA NStep == NInv /\ [NNext]_nvars => NInv'
<1> SUFFICES ASSUME NInv, [NNext]_nvars PROVE NInv'
  OBVIOUS
<1> USE DEF NInv, WorkerStates, StartOrder, StopOrder, NoNewUse, ClosedWhenUnused, workVars
<1>1. CASE OpenRuntime
  BY <1>1 DEF OpenRuntime
<1>2. CASE StartFails
  BY <1>2 DEF StartFails
<1>3. CASE Serve
  BY <1>3 DEF Serve
<1>4. CASE StartWorkers
  BY <1>4 DEF StartWorkers
<1>5. CASE Request
  BY <1>5 DEF Request
<1>6. CASE JobBegins
  BY <1>6 DEF JobBegins
<1>7. CASE JobEnds
  BY <1>7 DEF JobEnds
<1>8. ASSUME NEW w \in Workers, NEW r \in BOOLEAN, HandlerEnds(w, r) PROVE NInv'
  BY <1>8 DEF HandlerEnds
<1>9. ASSUME NEW w \in Workers, WakeUp(w) PROVE NInv'
  BY <1>9 DEF WakeUp
<1>10. ASSUME NEW w \in Workers, TakeWake(w) PROVE NInv'
  BY <1>10 DEF TakeWake
<1>11. ASSUME NEW w \in Workers, QueryRows(w) PROVE NInv'
  BY <1>11 DEF QueryRows
<1>12. ASSUME NEW w \in Workers, NEW f \in BOOLEAN, RunEnds(w, f) PROVE NInv'
  BY <1>12 DEF RunEnds
<1>13. CASE Shutdown
  BY <1>13 DEF Shutdown
<1>14. CASE DrainHttp
  <2>1. errs' = (handlers > 0) /\ handlers' = handlers
    BY <1>14 DEF DrainHttp
  <2>2. ~(handlers > 0) => handlers = 0
    OBVIOUS
  <2>3. ~errs' => handlers' = 0
    BY <2>1, <2>2, Zenon
  <2>4. StopOrder'
    BY <1>14, <2>3 DEF DrainHttp
  <2> QED
    BY <1>14, <2>4 DEF DrainHttp
<1>15. CASE StopScheduler
  BY <1>15 DEF StopScheduler
<1>16. CASE CancelWorkers
  BY <1>16 DEF CancelWorkers
<1>17. CASE DrainWorkers
  BY <1>17 DEF DrainWorkers
<1>18. ASSUME NEW ok \in BOOLEAN, CloseAll(ok) PROVE NInv'
  BY <1>18 DEF CloseAll
<1>19. CASE UNCHANGED nvars
  BY <1>19 DEF nvars
<1> QED
  BY <1>1, <1>2, <1>3, <1>4, <1>5, <1>6, <1>7, <1>8, <1>9, <1>10, <1>11, <1>12, <1>13, <1>14,
     <1>15, <1>16, <1>17, <1>18, <1>19 DEF NNext

\* serve.go: for any number of workers, handlers and calls of Shutdown, the
\* database is closed only when no handler, job or worker can still use it,
\* and the lease only after the database.
THEOREM DataClosedLast == NSpec => []ClosedWhenUnused
<1>1. NInv => ClosedWhenUnused
  BY DEF NInv
<1> QED
  BY NInitial, NStep, <1>1, PTL DEF NSpec

-----------------------------------------------------------------------------
(* BackupSchedule: the next run, and one archive per due slot.              *)

\* A non-empty set of naturals has a least element, and Min chooses it.
LEMMA MinIsLeast ==
  ASSUME NEW S, S \subseteq Nat, S # {}
  PROVE  Min(S) \in S /\ \A x \in S : Min(S) <= x
<1>1. PICK x \in S : \A y \in S : ~(<<y, x>> \in OpToRel(<, Nat))
  BY NatLessThanWellFounded, WFMin
<1>2. ASSUME NEW y \in S, y < x PROVE <<y, x>> \in OpToRel(<, Nat)
  <2>1. <<y, x>> \in Nat \X Nat /\ <<y, x>>[1] < <<y, x>>[2]
    BY <1>2
  <2> QED
    BY <2>1 DEF OpToRel
<1>3. \A y \in S : x <= y
  <2> SUFFICES ASSUME NEW y \in S PROVE x <= y
    OBVIOUS
  <2>1. ~(y < x)
    BY <1>1, <1>2
  <2>2. x \in Nat /\ y \in Nat
    OBVIOUS
  <2> QED
    BY <2>1, <2>2, SMT
<1> QED
  BY <1>3 DEF Min

\* A slot is a half of a day: which day and which half.
LEMMA Halves ==
  ASSUME NEW t \in Nat
  PROVE  t \div 2 \in Nat /\ t % 2 \in 0..1 /\ t % 2 = t - 2 * (t \div 2)
<1>1. t \div 2 \in Nat
  OBVIOUS
<1>2. t % 2 \in 0..1
  OBVIOUS
<1>3. t % 2 = t - 2 * (t \div 2)
  OBVIOUS
<1> QED
  BY <1>1, <1>2, <1>3

\* ... and back.
LEMMA DayAndHalf ==
  ASSUME NEW d \in Nat, NEW a \in 0..1
  PROVE  (d * 2 + a) \div 2 = d /\ (d * 2 + a) % 2 = a
  OBVIOUS

\* nextWallClock looks seven days ahead, and every weekday is among them.
LEMMA WeekdayComes ==
  ASSUME NEW d \in Nat, NEW a \in 0..6
  PROVE  \E i \in 1..7 : (d + i) % 7 = a
  OBVIOUS

\* nextWallClock is the first matching slot strictly after `from'.
LEMMA WallClockFirst ==
  ASSUME NEW from \in Nat, NEW days, NEW at \in 0..1, \E i \in 1..7 : (from \div 2 + i) % 7 \in days
  PROVE  LET n == NextWallClock(from, days, at)
         IN  /\ n \in Nat /\ n > from /\ n % 2 = at /\ Weekday(n) \in days
             /\ \A t \in (from + 1)..(n - 1) : ~(t % 2 = at /\ Weekday(t) \in days)
<1> DEFINE d == from \div 2
           Slots == {(d + i) * 2 + at : i \in 0..7}
           C == {t \in Slots : t > from /\ Weekday(t) \in days}
           n == NextWallClock(from, days, at)
<1>1. d \in Nat /\ 2 * d <= from /\ from <= 2 * d + 1
  BY Halves
<1> HIDE DEF d
<1>2. \A i \in 0..7 : LET t == (d + i) * 2 + at
                      IN  t \in Nat /\ t \div 2 = d + i /\ t % 2 = at
  BY <1>1, DayAndHalf
<1>3. C \subseteq Nat
  BY <1>2
<1>4. C # {}
  <2>1. PICK i \in 1..7 : (d + i) % 7 \in days
    BY DEF d
  <2> DEFINE t == (d + i) * 2 + at
  <2>2. t \in Slots /\ t > from
    BY <1>1, <2>1
  <2>3. Weekday(t) \in days
    BY <1>2, <2>1 DEF Weekday, SlotsPerDay
  <2> QED
    BY <2>2, <2>3
<1>5. n = Min(C)
  BY <1>4 DEF NextWallClock, SlotsPerDay, d
<1>6. n \in C /\ \A t \in C : n <= t
  BY <1>3, <1>4, <1>5, MinIsLeast
<1>7. PICK j \in 0..7 : n = (d + j) * 2 + at
  BY <1>6
<1>8. n \in Nat /\ n > from /\ n % 2 = at /\ Weekday(n) \in days
  BY <1>2, <1>3, <1>6, <1>7
<1>9. ASSUME NEW t \in (from + 1)..(n - 1), t % 2 = at, Weekday(t) \in days PROVE FALSE
  <2>1. t \in Nat /\ t > from /\ t < n
    BY <1>8
  <2> DEFINE e == t \div 2
  <2>2. e \in Nat /\ t = e * 2 + at
    <3>1. e \in Nat /\ t % 2 = t - 2 * e
      BY <2>1, Halves
    <3> HIDE DEF e
    <3> QED
      BY <2>1, <3>1, <1>9
  <2> HIDE DEF e
  <2>3. e - d \in 0..7 /\ e = d + (e - d)
    BY <1>1, <1>7, <2>1, <2>2
  <2>4. t \in Slots
    BY <2>2, <2>3
  <2> QED
    BY <1>6, <1>8, <1>9, <2>1, <2>4
<1> QED
  BY <1>8, <1>9

\* So is NextRun, for every kind of schedule; in particular it never stands
\* still.
LEMMA NextRunFirst ==
  ASSUME NEW k \in Kinds, NEW from \in Nat
  PROVE  LET n == NextRun(k, from)
             Matches(t) == CASE k.kind = "interval" -> t = from + k.every
                             [] k.kind = "daily" -> t % 2 = k.at
                             [] k.kind = "weekly" -> t % 2 = k.at /\ Weekday(t) = k.weekday
         IN  n \in Nat /\ n > from /\ Matches(n) /\ \A t \in (from + 1)..(n - 1) : ~Matches(t)
<1>0. from \div 2 \in Nat
  BY Halves
<1>1. CASE k.kind = "interval"
  BY <1>1 DEF Kinds, NextRun
<1>2. CASE k.kind = "daily"
  <2>1. k.at \in 0..1
    BY <1>2 DEF Kinds
  <2>2. \E i \in 1..7 : (from \div 2 + i) % 7 \in 0..6
    BY <1>0, WeekdayComes
  <2>3. NextRun(k, from) = NextWallClock(from, 0..6, k.at)
    BY <1>2 DEF NextRun
  <2>4. \A t \in Nat : Weekday(t) \in 0..6
    <3> SUFFICES ASSUME NEW t \in Nat PROVE (t \div 2) % 7 \in 0..6
      BY DEF Weekday, SlotsPerDay
    <3>1. t \div 2 \in Nat
      BY Halves
    <3> QED
      BY <3>1
  <2> DEFINE n == NextRun(k, from)
  <2>5. /\ n \in Nat /\ n > from /\ n % 2 = k.at
        /\ \A t \in (from + 1)..(n - 1) : ~(t % 2 = k.at /\ Weekday(t) \in 0..6)
    BY <2>1, <2>2, <2>3, WallClockFirst
  <2> HIDE DEF n
  <2>6. \A t \in (from + 1)..(n - 1) : t % 2 # k.at
    BY <2>4, <2>5
  <2> QED
    BY <1>2, <2>5, <2>6 DEF n
<1>3. CASE k.kind = "weekly"
  <2>1. k.at \in 0..1 /\ k.weekday \in 0..6
    BY <1>3 DEF Kinds
  <2>2. \E i \in 1..7 : (from \div 2 + i) % 7 \in {k.weekday}
    BY <1>0, <2>1, WeekdayComes
  <2>3. NextRun(k, from) = NextWallClock(from, {k.weekday}, k.at)
    BY <1>3 DEF NextRun
  <2> DEFINE n == NextRun(k, from)
  <2>4. /\ n \in Nat /\ n > from /\ n % 2 = k.at /\ Weekday(n) \in {k.weekday}
        /\ \A t \in (from + 1)..(n - 1) : ~(t % 2 = k.at /\ Weekday(t) \in {k.weekday})
    BY <2>1, <2>2, <2>3, WallClockFirst, SMTT(40)
  <2> HIDE DEF n
  <2> QED
    BY <1>3, <2>4 DEF n
<1> QED
  BY <1>1, <1>2, <1>3 DEF Kinds

Rows == [what : Kinds, enabled : BOOLEAN, next : Nat, stamp : Nat]

BTypes ==
  /\ slot \in Nat /\ plan \in Rows /\ byte4 \in Runners \cup {NoRunner}
  /\ bpc \in [Runners -> {"idle", "query", "create", "advance"}]
  /\ DOMAIN read = Runners
  /\ edits \in Nat /\ cut \in Nat /\ archives \in Nat /\ asked \in Nat

\* Byte 4 keeps the other runners out ...
OneRunner == \A w \in Runners : bpc[w] # "idle" => byte4 = w

\* ... so the row a runner works on differs from the one on file only if the
\* panel edited it since, and every edit leaves a new stamp.
ReadOrEdited ==
  /\ plan.stamp = edits
  /\ \A w \in Runners : bpc[w] \in {"create", "advance"} =>
       /\ read[w] \in Rows /\ read[w].enabled /\ read[w].stamp <= edits
       /\ read[w].stamp = edits => read[w] = plan

\* The due slot has been archived once per pass cut short, and once more while a
\* runner is between the archive and the advance of the row.
Counted ==
  \/ archives <= cut
  \/ archives <= 1 + cut /\ \E w \in Runners : bpc[w] = "advance" /\ read[w] = plan

BInv == BTypes /\ OneRunner /\ ReadOrEdited /\ Counted /\ NotBeforeEdit

\* The schedule starts in the invariant.
LEMMA BInitial == BInit => BInv
<1> SUFFICES ASSUME BInit PROVE BInv
  OBVIOUS
<1>1. PICK k \in Kinds : plan = [what |-> k, enabled |-> TRUE, next |-> NextRun(k, 0), stamp |-> 0]
  BY DEF BInit
<1>2. NextRun(k, 0) \in Nat
  BY NextRunFirst
<1>3. BTypes
  BY <1>1, <1>2 DEF BInit, BTypes, Rows
<1> QED
  BY <1>1, <1>2, <1>3 DEF BInit, BInv, OneRunner, ReadOrEdited, Counted, NotBeforeEdit

\* A runner that leaves gives the byte up, and nobody else had it.
LEMMA LeavesAlone ==
  ASSUME BInv, NEW w \in Runners, bpc[w] # "idle", Leave4(w)
  PROVE  /\ byte4' = NoRunner /\ \A v \in Runners : bpc'[v] = "idle"
         /\ bpc' \in [Runners -> {"idle", "query", "create", "advance"}] /\ DOMAIN read' = Runners
  BY RunnersAssumption DEF BInv, BTypes, OneRunner, Leave4

\* Every step of the panel and of the runners keeps the invariant.
LEMMA BStep == BInv /\ [BNext]_bvars => BInv'
<1> SUFFICES ASSUME BInv, [BNext]_bvars PROVE BInv'
  OBVIOUS
<1>a. BTypes /\ OneRunner /\ ReadOrEdited /\ Counted /\ NotBeforeEdit
  BY DEF BInv
<1>1. CASE SlotPasses
  BY <1>1, <1>a DEF SlotPasses, BInv, BTypes, OneRunner, ReadOrEdited, Counted, NotBeforeEdit
<1>2. ASSUME NEW k \in Kinds, NEW on \in BOOLEAN, UpdateSchedule(k, on) PROVE BInv'
  <2>1. NextRun(k, slot) \in Nat
    BY <1>a, NextRunFirst DEF BTypes
  <2>2. BTypes'
    BY <1>2, <1>a, <2>1 DEF UpdateSchedule, BTypes, Rows
  <2>3. ReadOrEdited'
    <3>1. edits' = edits + 1 /\ plan'.stamp = edits' /\ read' = read /\ bpc' = bpc
      BY <1>2 DEF UpdateSchedule
    <3>2. ASSUME NEW w \in Runners, bpc[w] \in {"create", "advance"}
          PROVE  read[w] \in Rows /\ read[w].enabled /\ read[w].stamp <= edits' /\ read[w].stamp # edits'
      BY <3>1, <3>2, <1>a DEF ReadOrEdited, BTypes, Rows
    <3> QED
      BY <3>1, <3>2 DEF ReadOrEdited
  <2>4. OneRunner' /\ Counted' /\ NotBeforeEdit'
    BY <1>2, <1>a, <2>1 DEF UpdateSchedule, BTypes, OneRunner, Counted, NotBeforeEdit
  <2> QED
    BY <2>2, <2>3, <2>4 DEF BInv
<1>3. ASSUME NEW w \in Runners, RunDue(w) PROVE BInv'
  <2>1. BTypes'
    BY <1>3, <1>a DEF RunDue, BTypes
  <2>2. \A v \in Runners : bpc[v] = "idle"
    BY <1>3, <1>a, RunnersAssumption DEF RunDue, OneRunner
  <2> QED
    BY <1>3, <1>a, <2>1, <2>2
       DEF RunDue, BInv, BTypes, OneRunner, ReadOrEdited, Counted, NotBeforeEdit
<1>4. ASSUME NEW w \in Runners, Query(w) PROVE BInv'
  <2>1. CASE Due
    <3>1. BTypes'
      BY <1>4, <1>a, <2>1 DEF Query, BTypes
    <3>2. read'[w] = plan /\ plan.enabled /\ plan.stamp = edits /\ edits \in Nat
      BY <1>4, <1>a, <2>1 DEF Due, Query, BTypes, ReadOrEdited
    <3>3. \A v \in Runners : bpc'[v] \in {"create", "advance"} =>
            v = w \/ (bpc[v] \in {"create", "advance"} /\ read'[v] = read[v])
      BY <1>4, <1>a, <2>1 DEF Query, BTypes
    <3>4. ReadOrEdited'
      BY <1>4, <1>a, <2>1, <3>2, <3>3 DEF Query, BTypes, ReadOrEdited
    <3>5. Counted'
      BY <1>4, <1>a, <2>1 DEF Query, BTypes, Counted
    <3>6. OneRunner' /\ NotBeforeEdit'
      BY <1>4, <1>a, <2>1 DEF Query, BTypes, OneRunner, NotBeforeEdit
    <3> QED
      BY <3>1, <3>4, <3>5, <3>6 DEF BInv
  <2>2. CASE ~Due
    <3>1. Leave4(w) /\ bpc[w] # "idle"
      BY <1>4, <2>2 DEF Query
    <3>2. archives <= cut
      BY <1>4, <1>a DEF Query, Counted, OneRunner
    <3> QED
      BY <1>4, <1>a, <3>1, <3>2, LeavesAlone
         DEF Query, BInv, BTypes, OneRunner, ReadOrEdited, Counted, NotBeforeEdit
  <2> QED
    BY <2>1, <2>2
<1>5. ASSUME NEW w \in Runners, Create(w) PROVE BInv'
  <2>0. bpc[w] = "create" /\ archives <= cut /\ archives \in Nat /\ cut \in Nat
    BY <1>5, <1>a DEF Create, Counted, OneRunner, BTypes
  <2>1. /\ bpc' = [bpc EXCEPT ![w] = "advance"]
        /\ UNCHANGED <<byte4, read, plan, edits, cut, asked, slot>>
        /\ archives' = IF plan = read[w] THEN archives + 1 ELSE archives
    BY <1>5 DEF Create, Archived
  <2>2. archives' \in Nat
    BY <2>0, <2>1
  <2>3. BTypes'
    BY <1>a, <2>1, <2>2 DEF BTypes
  <2>4. bpc'[w] = "advance"
    BY <1>a, <2>1 DEF BTypes
  <2>5. Counted'
    <3>1. CASE plan = read[w]
      <4>1. archives' <= 1 + cut' /\ read'[w] = plan'
        BY <2>0, <2>1, <3>1
      <4> QED
        BY <2>4, <4>1 DEF Counted
    <3>2. CASE plan # read[w]
      BY <2>0, <2>1, <3>2 DEF Counted
    <3> QED
      BY <3>1, <3>2
  <2>6. OneRunner' /\ ReadOrEdited' /\ NotBeforeEdit'
    BY <1>a, <2>0, <2>1 DEF BTypes, OneRunner, ReadOrEdited, NotBeforeEdit
  <2> QED
    BY <2>3, <2>5, <2>6 DEF BInv
<1>9. ASSUME NEW w \in Runners, CreateBusy(w) PROVE BInv'
  <2>1. bpc[w] = "create" /\ bpc[w] # "idle" /\ Leave4(w) /\ archives <= cut
    BY <1>9, <1>a DEF CreateBusy, Counted, OneRunner
  <2> QED
    BY <1>9, <1>a, <2>1, LeavesAlone
       DEF CreateBusy, BInv, BTypes, OneRunner, ReadOrEdited, Counted, NotBeforeEdit
<1>10. ASSUME NEW w \in Runners, CreateCancelled(w) PROVE BInv'
  <2>1. bpc[w] # "idle" /\ Leave4(w) /\ archives <= cut /\ archives \in Nat /\ cut \in Nat
    BY <1>10, <1>a DEF CreateCancelled, Counted, OneRunner, BTypes
  <2>2. cut' = cut + 1 /\ archives' = (IF plan = read[w] THEN archives + 1 ELSE archives)
    BY <1>10 DEF CreateCancelled, Archived
  <2>3. archives' <= cut' /\ archives' \in Nat /\ cut' \in Nat
    BY <2>1, <2>2
  <2> QED
    BY <1>10, <1>a, <2>1, <2>3, LeavesAlone
       DEF CreateCancelled, BInv, BTypes, OneRunner, ReadOrEdited, Counted, NotBeforeEdit
<1>11. ASSUME NEW w \in Runners, AdvanceFails(w) PROVE BInv'
  <2>1. bpc[w] # "idle" /\ Leave4(w)
    BY <1>11 DEF AdvanceFails
  <2> QED
    BY <1>11, <1>a, <2>1, LeavesAlone
       DEF AdvanceFails, BInv, BTypes, OneRunner, ReadOrEdited, Counted, NotBeforeEdit
<1>6. ASSUME NEW w \in Runners, Advance(w) PROVE BInv'
  <2>0. bpc[w] = "advance" /\ Leave4(w) /\ UNCHANGED <<slot, edits, cut, asked>>
    BY <1>6 DEF Advance
  <2>1. /\ byte4' = NoRunner /\ \A v \in Runners : bpc'[v] = "idle"
        /\ bpc' \in [Runners -> {"idle", "query", "create", "advance"}] /\ DOMAIN read' = Runners
    BY <2>0, LeavesAlone
  <2>2. OneRunner'
    BY <2>1 DEF OneRunner
  <2>3. CASE plan.enabled /\ plan.next = read[w].next /\ plan.stamp = read[w].stamp
    <3>1. read[w] = plan /\ plan \in Rows /\ slot \in Nat
      BY <1>a, <2>0, <2>3 DEF ReadOrEdited, BTypes
    <3> DEFINE next == NextRun(plan.what, plan.next)
               late == NextRun(plan.what, slot)
    <3>2. plan.what \in Kinds /\ plan.next \in Nat
      BY <3>1 DEF Rows
    <3>3. next \in Nat /\ next > plan.next /\ late \in Nat /\ late > slot
      BY <3>1, <3>2, NextRunFirst
    <3>4. NextSlot(read[w]) = IF next > slot THEN next ELSE late
      BY <3>1 DEF NextSlot
    <3>5. plan' = [plan EXCEPT !.next = NextSlot(read[w])] /\ archives' = 0
      BY <1>6, <2>3 DEF Advance
    <3> HIDE DEF next, late
    <3>6. NextSlot(read[w]) \in Nat /\ NextSlot(read[w]) >= plan.next
      BY <3>1, <3>2, <3>3, <3>4
    <3>7. plan' \in Rows /\ plan'.stamp = plan.stamp /\ plan'.next >= plan.next
      BY <3>1, <3>5, <3>6 DEF Rows
    <3>8. BTypes'
      BY <1>a, <2>0, <2>1, <3>5, <3>7 DEF BTypes
    <3>9. ReadOrEdited'
      BY <1>a, <2>0, <2>1, <3>7 DEF ReadOrEdited
    <3>10. Counted'
      BY <1>a, <2>0, <3>5 DEF Counted, BTypes
    <3>11. NotBeforeEdit'
      BY <1>a, <2>0, <3>2, <3>7, <3>8 DEF NotBeforeEdit, BTypes, Rows
    <3> QED
      BY <2>2, <3>8, <3>9, <3>10, <3>11 DEF BInv
  <2>4. CASE ~(plan.enabled /\ plan.next = read[w].next /\ plan.stamp = read[w].stamp)
    <3>1. plan' = plan /\ archives' = archives
      BY <1>6, <2>4 DEF Advance
    <3>2. plan # read[w]
      BY <1>a, <2>0, <2>4 DEF ReadOrEdited
    <3>3. archives <= cut
      BY <1>a, <2>0, <3>2 DEF Counted, OneRunner
    <3> QED
      BY <1>a, <2>0, <2>1, <2>2, <3>1, <3>3 DEF BInv, BTypes, ReadOrEdited, Counted, NotBeforeEdit
  <2> QED
    BY <2>3, <2>4
<1>7. ASSUME NEW w \in Runners, CrashRunner(w) PROVE BInv'
  <2>1. Leave4(w) /\ bpc[w] # "idle"
    BY <1>7 DEF CrashRunner
  <2> QED
    BY <1>7, <1>a, <2>1, LeavesAlone
       DEF CrashRunner, BInv, BTypes, OneRunner, ReadOrEdited, Counted, NotBeforeEdit
<1>8. CASE UNCHANGED bvars
  BY <1>8, <1>a DEF bvars, BInv, BTypes, OneRunner, ReadOrEdited, Counted, NotBeforeEdit
<1> QED
  BY <1>1, <1>2, <1>3, <1>4, <1>5, <1>6, <1>7, <1>8, <1>9, <1>10, <1>11 DEF BNext, RunnerStep

\* schedule.go RunDue, UpdateSchedule and nextWallClock, for any number of
\* runners and edits: the next run is the first matching slot, an edit is not
\* overtaken, and a due slot is archived once, plus once for every pass that
\* died, was cancelled after Create or could not advance the row.
THEOREM BackupsComeOnTime == BSpec => []BackupsOnTime
<1>1. BInv => BackupsOnTime
  <2> SUFFICES ASSUME BInv PROVE BackupsOnTime
    OBVIOUS
  <2>1. plan.what \in Kinds /\ slot \in Nat
    BY DEF BInv, BTypes, Rows
  <2>2. NextRunIsFirst
    BY <2>1, NextRunFirst DEF NextRunIsFirst, SlotsPerDay
  <2>3. OncePerSlot
    BY DEF BInv, BTypes, Counted, OncePerSlot
  <2> QED
    BY <2>2, <2>3 DEF BInv, BackupsOnTime
<1> QED
  BY BInitial, BStep, <1>1, PTL DEF BSpec

-----------------------------------------------------------------------------
(* Restore: nothing half restored, nothing restored twice, nothing lost.    *)

RTypes ==
  /\ active \in Files /\ committed \in Files
  /\ txn = NoStage \/ txn \in Transactions
  /\ pending = NoStage \/ pending \in Stages
  /\ stage = NoStage \/ stage \in Stages
  /\ previews \subseteq Stages /\ done \subseteq 1..MaxStages
  /\ staged \in 0..MaxStages /\ writes \in 0..MaxWrites
  /\ who \in {"nobody", "node", "host"}

Replacing == {"db", "key", "wal", "prev", "pending", "rename"}

\* Who is inside apply or recoverPair, what the node and the host command may
\* do meanwhile, and when there is a stage and a transaction.
OneInside ==
  /\ rpc = "idle" <=> who = "nobody"
  /\ who = "host" => host = "applying"
  /\ who # "nobody" => ~opened
  /\ host \in {"stopped", "guarded", "applying", "applied", "failed"} =>
       ~service /\ ~opened /\ who # "node"
  /\ opened => txn = NoStage
  /\ rpc \in Replacing \cup {"protect"} => stage # NoStage
  /\ rpc = "protect" => txn = NoStage
  /\ rpc \notin {"idle", "protect"} => txn # NoStage

\* Which copies are good, and which files apply or recoverPair has reached.
Reached ==
  /\ rpc \in {"idle", "protect"} /\ txn = NoStage => active = committed
  /\ OriginalsKept
  /\ txn # NoStage /\ ~txn.whole => active = committed /\ rpc \in {"idle", "validate"}
  /\ rpc \in Replacing => txn.stage = stage
  /\ rpc \in {"db", "key"} => active.key = committed.key
  /\ rpc \in {"db", "key", "wal", "prev"} => active.prev = committed.prev
  /\ rpc \in Replacing \ {"db"} => active.db = stage.id
  /\ rpc \in {"wal", "prev", "pending", "rename"} =>
       active.key = IF stage.keyed THEN stage.id ELSE committed.key
  /\ rpc \in {"prev", "pending", "rename"} => active.wal = 0
  /\ rpc \in {"pending", "rename"} => active.prev = IF stage.keyed THEN 0 ELSE committed.prev
  /\ rpc \in {"backkey", "backwal", "backprev", "discard", "forget"} => active.db = committed.db
  /\ rpc \in {"backwal", "backprev", "discard", "forget"} => active.key = committed.key
  /\ rpc \in {"backprev", "discard", "forget"} => active.wal = committed.wal
  /\ rpc \in {"discard", "forget"} => active.prev = committed.prev

\* A stage is in one place, and gone from it when its restore is committed.
OnePlace ==
  /\ \A p \in previews : p.id <= staged /\ p.id \notin done
  /\ \A p, q \in previews : p.id = q.id => p = q
  /\ pending # NoStage =>
       pending.id <= staged /\ pending.id \notin done /\ \A p \in previews : p.id # pending.id
  /\ stage # NoStage => stage.id <= staged
  /\ \A n \in done : n <= staged
  /\ rpc \in {"protect", "db", "key", "wal", "prev", "pending"} => stage = pending \/ stage \in previews
  /\ rpc \in {"db", "key", "wal", "prev", "pending"} => (txn.approved <=> stage = pending)
  /\ rpc = "rename" =>
       (pending # NoStage => pending.id # stage.id) /\ \A p \in previews : p.id # stage.id

RestoreInv == RTypes /\ OneInside /\ Reached /\ OnePlace

\* The directories start empty.
LEMMA RInitial == RInit => RestoreInv
  BY RestoreBoundsAssumption
     DEF RInit, RestoreInv, RTypes, OneInside, Reached, OnePlace, OriginalsKept, Files, Replacing

\* Every step of the panel, the node, the host command and whoever is inside
\* keeps it, and so does a crash between any two of them.
LEMMA RStep == RestoreInv /\ [RNext]_rvars => RestoreInv'
<1> SUFFICES ASSUME RestoreInv, [RNext]_rvars PROVE RestoreInv'
  OBVIOUS
<1>a. RTypes /\ OneInside /\ Reached /\ OnePlace
  BY DEF RestoreInv
<1> USE NoStageAssumption, RestoreBoundsAssumption
    DEF RTypes, Stages, Files, Transactions, OneInside, Reached, OriginalsKept, OnePlace, Replacing,
        reviewVars, hostVars, ghosts, Then, Return, LeaveInside
<1>1. ASSUME NEW k \in BOOLEAN, NEW o \in BOOLEAN, Stage(k, o) PROVE RestoreInv'
  BY <1>1 DEF Stage, RestoreInv
<1>2. ASSUME NEW p \in previews, Approve(p) PROVE RestoreInv'
  BY <1>2 DEF Approve, RestoreInv
<1>3. ASSUME NEW p \in previews, DiscardPreview(p) PROVE RestoreInv'
  BY <1>3 DEF DiscardPreview, RestoreInv
<1>4. ASSUME NEW p \in previews, HostPrepare(p) PROVE RestoreInv'
  BY <1>4 DEF HostPrepare, RestoreInv
<1>5. ASSUME NEW w \in BOOLEAN, CancelPending(w) PROVE RestoreInv'
  BY <1>5 DEF CancelPending, RestoreInv
<1>6. CASE PrepareOpen
  BY <1>6 DEF PrepareOpen, RestoreInv
<1>7. CASE Write
  BY <1>7 DEF Write, RestoreInv
<1>8. CASE StopNode
  BY <1>8 DEF StopNode, RestoreInv
<1>9. ASSUME NEW ok \in BOOLEAN, Protect(ok) PROVE RestoreInv'
  <2>1. stage \in Stages
    BY <1>9, <1>a DEF Protect
  <2>2. (stage = pending) \in BOOLEAN
    OBVIOUS
  <2>3. ok => txn' = [files |-> active, stage |-> stage, approved |-> stage = pending, whole |-> TRUE]
    BY <1>9 DEF Protect
  <2>4. [files |-> active, stage |-> stage, approved |-> stage = pending, whole |-> TRUE] \in Transactions
    BY <1>a, <2>1, <2>2
  <2>5. RTypes'
    BY <1>9, <1>a, <2>1, <2>3, <2>4 DEF Protect
  <2>6. OneInside'
    BY <1>9, <1>a, <2>1, <2>3, <2>4 DEF Protect
  <2>7. Reached'
    BY <1>9, <1>a, <2>1, <2>3, <2>4 DEF Protect
  <2>8. OnePlace'
    BY <1>9, <1>a, <2>1, <2>3, <2>4 DEF Protect
  <2> QED
    BY <2>5, <2>6, <2>7, <2>8 DEF RestoreInv
<1>10. CASE ReplaceDb
  BY <1>10 DEF ReplaceDb, RestoreInv
<1>11. CASE ReplaceKey
  BY <1>11 DEF ReplaceKey, RestoreInv
<1>12. CASE RemoveWal
  BY <1>12 DEF RemoveWal, RestoreInv
<1>13. CASE RemovePrevKey
  BY <1>13 DEF RemovePrevKey, RestoreInv
<1>14. CASE RemoveStage
  <2>1. RTypes'
    BY <1>14, <1>a DEF RemoveStage
  <2>2. OneInside'
    BY <1>14, <1>a DEF RemoveStage
  <2>3. Reached'
    BY <1>14, <1>a DEF RemoveStage
  <2>4. OnePlace'
    BY <1>14, <1>a DEF RemoveStage
  <2> QED
    BY <2>1, <2>2, <2>3, <2>4 DEF RestoreInv
<1>15. CASE RenamePrevious
  <2>1. stage \in Stages /\ txn \in Transactions /\ txn.stage = stage
    BY <1>15, <1>a DEF RenamePrevious
  <2>2. stage.id \in 1..MaxStages
    BY <2>1
  <2>3. committed' \in Files
    BY <1>15, <1>a, <2>1, <2>2 DEF RenamePrevious, Result
  <2>4. RTypes'
    BY <1>15, <1>a, <2>1, <2>2, <2>3, ZenonT(60) DEF RenamePrevious, Result
  <2>5. OneInside'
    BY <1>15, <1>a, <2>1, <2>2, <2>3 DEF RenamePrevious, Result
  <2>6. Reached'
    BY <1>15, <1>a, <2>1, <2>2, <2>3 DEF RenamePrevious, Result
  <2>7. OnePlace'
    BY <1>15, <1>a, <2>1, <2>2, <2>3 DEF RenamePrevious, Result
  <2> QED
    BY <2>4, <2>5, <2>6, <2>7 DEF RestoreInv
<1>16. CASE ApplyFails
  BY <1>16 DEF ApplyFails, RestoreInv
<1>17. CASE Validate
  BY <1>17 DEF Validate, RestoreInv
<1>18. CASE RecoverPair
  BY <1>18 DEF RecoverPair, PutBackDb, PutBackPrev, PutBack, RestoreInv
<1>19. CASE DiscardStage
  BY <1>19 DEF DiscardStage, RestoreInv
<1>20. CASE ForgetTransaction
  BY <1>20 DEF ForgetTransaction, RestoreInv
<1>21. CASE Crash
  <2>1. txn' = NoStage \/ txn' \in Transactions
    BY <1>21, <1>a, ZenonT(60) DEF Crash
  <2>2. RTypes'
    BY <1>21, <1>a, <2>1 DEF Crash
  <2>3. OneInside'
    BY <1>21, <1>a, <2>1 DEF Crash
  <2>4. Reached'
    BY <1>21, <1>a, <2>1 DEF Crash
  <2>5. OnePlace'
    BY <1>21, <1>a, <2>1 DEF Crash
  <2> QED
    BY <2>2, <2>3, <2>4, <2>5 DEF RestoreInv
<1>22. CASE HostStop
  BY <1>22 DEF HostStop, RestoreInv
<1>23. CASE HostGuard
  BY <1>23 DEF HostGuard, RestoreInv
<1>24. CASE HostApply
  <2>1. RTypes'
    BY <1>24, <1>a DEF HostApply
  <2>2. OneInside'
    BY <1>24, <1>a DEF HostApply
  <2>3. Reached'
    BY <1>24, <1>a DEF HostApply
  <2>4. OnePlace'
    BY <1>24, <1>a DEF HostApply
  <2> QED
    BY <2>1, <2>2, <2>3, <2>4 DEF RestoreInv
<1>25. CASE HostStart
  BY <1>25 DEF HostStart, RestoreInv
<1>26. CASE HostFails
  BY <1>26 DEF HostFails, RestoreInv
<1>27. CASE UNCHANGED rvars
  BY <1>27 DEF rvars, RestoreInv
<1> QED
  BY <1>1, <1>2, <1>3, <1>4, <1>5, <1>6, <1>7, <1>8, <1>9, <1>10, <1>11, <1>12, <1>13, <1>14,
     <1>15, <1>16, <1>17, <1>18, <1>19, <1>20, <1>21, <1>22, <1>23, <1>24, <1>25, <1>26,
     <1>27 DEF RNext

\* apply.go, restore.go, recovery.go and the host command, for any number of
\* stages, writes, faults and crashes: the node opens only whole files, a
\* committed restore is not applied again, and the originals are kept.
THEOREM RestoresAreSound == RSpec => []RestoreSound
<1>1. RestoreInv => RestoreSound
  BY DEF RestoreInv, OneInside, Reached, OnePlace, RestoreSound, OpenedIsWhole, NotReplayed
<1> QED
  BY RInitial, RStep, <1>1, PTL DEF RSpec

=============================================================================
