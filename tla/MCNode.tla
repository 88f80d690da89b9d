------------------------------- MODULE MCNode -------------------------------
(***************************************************************************)
(* The node process: the loop of its scheduler, its slow workers and its   *)
(* shutdown, the scheduled backups, and the restore that runs before it    *)
(* opens its data.  A behaviour exercises one of them, which `subject'     *)
(* names; the others keep their initial state.                             *)
(***************************************************************************)
EXTENDS Scheduler, Node, BackupSchedule, Restore

VARIABLE subject

allVars == <<subject, vars, nvars, bvars, rvars>>

NodeInit ==
  /\ subject \in {"scheduler", "node", "backup", "restore"}
  /\ Init /\ NInit /\ BInit /\ RInit
  /\ subject # "scheduler" => \A j \in Jobs : interval[j] = 1
  /\ subject # "backup" => plan.what.kind = "daily"
  /\ active.prev = 1   \* a retained key is there to lose

InScheduler(A) == subject = "scheduler" /\ A /\ UNCHANGED <<subject, nvars, bvars, rvars>>
InNode(A) == subject = "node" /\ A /\ UNCHANGED <<subject, vars, bvars, rvars>>
InBackup(A) == subject = "backup" /\ A /\ UNCHANGED <<subject, vars, nvars, rvars>>
InRestore(A) == subject = "restore" /\ A /\ UNCHANGED <<subject, vars, nvars, bvars>>

NodeNext == InScheduler(Next) \/ InNode(NNext) \/ InBackup(BNext) \/ InRestore(RNext)

\* `subject' never changes, so weak fairness of a disjunction of steps of
\* different subjects is weak fairness of each subject's own step.
NodeSpec ==
  /\ NodeInit /\ [][NodeNext]_allVars
  /\ WF_allVars(InScheduler(Tick) \/ InNode(JobEnds) \/ InRestore(Inside))
  /\ WF_allVars(\/ InScheduler(Finish) \/ InRestore(PrepareOpen)
                \/ InNode(handlers > 0 /\ \E w \in Workers : HandlerEnds(w, FALSE)))
  /\ WF_allVars(InScheduler(\E j \in Jobs : Begin(j)) \/ InNode(ShutdownStep))
  /\ WF_allVars(InScheduler(Leave))
  /\ \A w \in Workers : SF_allVars(InNode(WakeUp(w))) /\ WF_allVars(InNode(WorkerStep(w)))
  /\ \A w \in Runners : WF_allVars(InBackup(RunnerStep(w)))

\* Work goes on: rows for a slow worker are taken though wake-ups are
\* coalesced (slow_work.go), every job of the scheduler runs again and Stop
\* returns (scheduler.go), a due backup runs (backup/schedule.go RunDue).
WorkGoesOn ==
  /\ subject = "node" => RowsTaken
  /\ subject = "scheduler" => EveryJobRuns /\ StopReturns
  /\ subject = "backup" => DueRuns

\* backup/apply.go PrepareOpen: the node opens its data in the end, whatever a
\* crash of a restore interrupted.
NodeOpensAgain == subject = "restore" => OpensAgain
=============================================================================
