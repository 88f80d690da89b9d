SPECIFICATION IFairSpec
CONSTANTS
  Versions = {1, 2, 3}
  FirstNew = 3
  Absent = Absent
  MaxArtifacts = 6
  MaxOps = 2
  MaxFaults = 2
PROPERTY DomainsRecovered
CHECK_DEADLOCK FALSE
