SPECIFICATION QueuesSpec
CONSTANTS
  None = None
  Absent = Absent
  NoRequest = NoRequest
  MaxIds = 2
  MaxCrashes = 1
  MaxRequests = 2
  MaxImports = 1
  MaxHelperCrashes = 1
  Versions = {1, 2, 3}
  FirstNew = 3
  MaxArtifacts = 6
  MaxOps = 2
  MaxFaults = 2
INVARIANTS WorkIsSound SettledAgrees RollbackSafe
PROPERTIES Settles DomainWorkSound KeepsRenewing RecoveryEnds
