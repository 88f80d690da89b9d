------------------------------ MODULE MCQueues ------------------------------
(***************************************************************************)
(* What the panel, the host helper and the host commands share through     *)
(* files: the two request queues (each with the other's helper as a        *)
(* competitor for the runner's lock) and the installation that the helper  *)
(* and the commands change.  A behaviour exercises one of them, which      *)
(* `subject' names.                                                        *)
(***************************************************************************)
EXTENDS UpdateQueue, DomainQueue, Deployment

VARIABLE subject

allVars == <<subject, vars, dvars, ivars>>

QueuesInit ==
  /\ subject \in {"update", "domain", "install"}
  /\ Init /\ DInit /\ IInit
  /\ subject # "install" => state = Absent

InUpdate(A) == subject = "update" /\ A /\ UNCHANGED <<subject, dvars, ivars>>
InDomain(A) == subject = "domain" /\ A /\ UNCHANGED <<subject, vars, ivars>>
InInstall(A) == subject = "install" /\ A /\ UNCHANGED <<subject, vars, dvars>>

\* The bound on operations ends an installation's behaviour; nothing else may end.
OutOfOps == subject = "install" /\ Doing("idle") /\ Closed(journal) /\ UNCHANGED allVars

QueuesNext == InUpdate(Next) \/ InDomain(DNext) \/ InInstall(INext) \/ OutOfOps

\* `subject' never changes, so weak fairness of a disjunction of steps of
\* different subjects is weak fairness of each subject's own step.
QueuesSpec ==
  /\ QueuesInit /\ [][QueuesNext]_allVars
  /\ WF_allVars(InUpdate(PanelSteps) \/ InDomain(PanelStep) \/ InInstall(Operations))
  /\ SF_allVars(InUpdate(LockMaintenanceRunner) \/ InDomain(StartRun) \/ InInstall(Recovery))
  /\ SF_allVars(InInstall(BeginRestore))
  /\ WF_allVars(InUpdate(BrokerSteps) \/ InDomain(HelperStep))
  /\ WF_allVars(\/ InUpdate(runner = "domain" /\ OtherHelper)
                \/ InDomain(lock = "update" /\ UpdateHelper))
  /\ WF_allVars(InUpdate(\E i \in 1..MaxIds : Tick(i)))

\* Whatever a dead helper left, certificate renewals go on, unless a request
\* that was not claimed within its hour blocks them (RenewalsContinue), and
\* provided the helper keeps getting the lock (domainqueue RecoverInterrupted).
KeepsRenewing == subject = "domain" => RenewalsContinue

\* An interrupted operation other than a change of domains is brought to its
\* end by its recovery command, and a recovery in which nothing fails succeeds
\* (install: Recover, RecoverExposure).
RecoveryEnds == (subject = "install" => Recovers) /\ RecoveryHolds
=============================================================================
