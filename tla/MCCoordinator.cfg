SPECIFICATION FairSpec
CONSTANTS
  Callers = {c1, c2}
  Repair = repair
  MaxCommits = 2
  MaxFaults = 2
INVARIANTS AppliedMeansLive ReadyMeansApplied OutcomeHonest
PROPERTIES KeepsPromises
CHECK_DEADLOCK FALSE
