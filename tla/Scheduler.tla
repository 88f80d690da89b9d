------------------------------ MODULE Scheduler ------------------------------
(***************************************************************************)
(* internal/scheduler: one goroutine, a heap of recurring jobs ordered by  *)
(* their next run.  Jobs run one at a time, so a slow job delays the rest; *)
(* a job may change its own interval while it runs.                        *)
(*                                                                         *)
(* Times are relative to the present: due[j] is next minus now and goes    *)
(* down as time passes, so unbounded time needs finitely many states.      *)
(***************************************************************************)
EXTENDS Integers, FiniteSets

CONSTANTS Jobs,        \* job names, as numbers for the heap's tie-break
          Intervals,   \* intervals a job may have
          None,        \* no job is running
          MaxRun,      \* bound: ticks one run takes
          MaxChanges,  \* bound: interval changes from outside the job
          Horizon      \* bound: where the ghost clocks stop

ASSUME JobsAssumption == Jobs \subseteq Nat /\ IsFiniteSet(Jobs) /\ None \notin Jobs
ASSUME IntervalsAssumption == Intervals \subseteq Nat \ {0} /\ Intervals # {}
ASSUME BoundsAssumption ==
  /\ MaxRun \in Nat \ {0} /\ MaxChanges \in Nat
  /\ Horizon \in Nat /\ \A i \in Intervals : i <= Horizon

VARIABLES interval,   \* interval[j]: entry.interval
          due,        \* due[j]: entry.next - now
          queue,      \* jobs in the heap
          running,    \* the job being run, or None
          age,        \* now minus the time step was called with
          state,      \* "on", "stopping" (context cancelled) or "stopped"
          changes,    \* interval changes from outside so far
          since       \* ghost: ticks since j last started, up to Horizon

vars == <<interval, due, queue, running, age, state, changes, since>>

TypeOK ==
  /\ interval \in [Jobs -> Intervals]
  /\ due \in [Jobs -> Int]
  /\ queue \subseteq Jobs
  /\ running \in Jobs \cup {None}
  /\ age \in 0..MaxRun
  /\ state \in {"on", "stopping", "stopped"}
  /\ changes \in 0..MaxChanges
  /\ since \in [Jobs -> 0..Horizon]

\* Every, for each job, then Start.
Init ==
  /\ interval \in [Jobs -> Intervals]
  /\ due = interval
  /\ queue = Jobs
  /\ running = None
  /\ age = 0
  /\ state = "on"
  /\ changes = 0
  /\ since = [j \in Jobs |-> Horizon]

\* Variant: the heap is ordered by name.
LessByName(i, j) == i < j

\* entryHeap.Less
Less(i, j) == due[i] < due[j] \/ (due[i] = due[j] /\ i < j)

Earliest(j) == j \in queue /\ \A i \in queue \ {j} : Less(j, i)

SomeoneDue == \E j \in queue : due[j] <= 0

\* step, up to the job's body: the loop woke because j is due.
Begin(j) ==
  /\ state = "on" /\ running = None
  /\ Earliest(j) /\ due[j] <= 0
  /\ queue' = queue \ {j}
  /\ running' = j
  /\ age' = 0
  /\ since' = [since EXCEPT ![j] = 0]
  /\ UNCHANGED <<interval, due, state, changes>>

\* Variant: a late job makes up for the runs it missed.
FinishFromTarget ==
  /\ running # None
  /\ due' = [due EXCEPT ![running] = due[running] + interval[running]]
  /\ queue' = queue \cup {running}
  /\ running' = None
  /\ age' = 0
  /\ UNCHANGED <<interval, state, changes, since>>

\* step, after the job's body: whether the registration changed during the
\* run or not, the next run is one interval after the time step was called
\* with, which loop read before the run.
Finish ==
  /\ running # None
  /\ due' = [due EXCEPT ![running] = interval[running] - age]
  /\ queue' = queue \cup {running}
  /\ running' = None
  /\ age' = 0
  /\ UNCHANGED <<interval, state, changes, since>>

\* Time passes in a run or in the wait for the next one.  The wait ends when
\* a job is due.
Tick ==
  /\ \/ running # None /\ age < MaxRun /\ age' = age + 1
     \/ running = None /\ state = "on" /\ ~SomeoneDue /\ UNCHANGED age
  /\ due' = [j \in Jobs |-> due[j] - 1]
  /\ since' = [j \in Jobs |-> IF since[j] < Horizon THEN since[j] + 1 ELSE Horizon]
  /\ UNCHANGED <<interval, queue, running, state, changes>>

\* A job live-applies its own interval: the finish path schedules it.
SetOwnInterval(i) ==
  /\ running # None
  /\ interval' = [interval EXCEPT ![running] = i]
  /\ UNCHANGED <<due, queue, running, age, state, changes, since>>

\* SetInterval or Every for a job that is not running.
SetInterval(j, i) ==
  /\ j \in queue
  /\ changes < MaxChanges
  /\ changes' = changes + 1
  /\ interval' = [interval EXCEPT ![j] = i]
  /\ due' = [due EXCEPT ![j] = i]
  /\ UNCHANGED <<queue, running, age, state, since>>

\* Stop cancels, and returns once the loop has left.
Stop ==
  /\ state = "on"
  /\ state' = "stopping"
  /\ UNCHANGED <<interval, due, queue, running, age, changes, since>>

\* The loop sees the cancelled context and returns.
Leave ==
  /\ state = "stopping" /\ running = None
  /\ state' = "stopped"
  /\ UNCHANGED <<interval, due, queue, running, age, changes, since>>

Next ==
  \/ \E j \in Jobs : Begin(j)
  \/ Finish
  \/ Tick
  \/ \E i \in Intervals : SetOwnInterval(i)
  \/ \E j \in Jobs, i \in Intervals : SetInterval(j, i)
  \/ Stop
  \/ Leave

Spec == Init /\ [][Next]_vars

\* Time passes, the loop goes round, and every job returns: bodies are short
\* or honour their context.
FairSpec ==
  /\ Spec
  /\ WF_vars(Tick)
  /\ WF_vars(Finish)
  /\ WF_vars(\E j \in Jobs : Begin(j))
  /\ WF_vars(Leave)

-----------------------------------------------------------------------------
(* Properties.                                                             *)

\* "a slow job delays the rest", and by how much: a due job starts after less
\* than one longest run per registered job.
LatenessBounded ==
  state = "on" => \A j \in queue : due[j] > -(Cardinality(Jobs) * MaxRun)

\* Two starts of a job are at least its interval apart, after any backlog and
\* any interval change: missed intervals are not made up for.  The distance is
\* from start to start, as step anchors the next run at the time loop read
\* before the run.  scheduler.go:9-13 and serve.go:841-843 say finish+interval:
\* that is not what the code does, and a job that runs for its interval or
\* longer is due again as soon as it returns.
StartsApart ==
  [][\A j \in Jobs : Begin(j) => since[j] >= interval[j]]_vars

\* Every registered job runs again and again until the scheduler is stopped,
\* however slow the others are.
EveryJobRuns ==
  \A j \in Jobs : (state = "on" /\ running # j) ~> (running = j \/ state # "on")

\* Stop returns.
StopReturns == state = "stopping" ~> state = "stopped"
=============================================================================
