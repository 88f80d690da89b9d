SPECIFICATION FairSpec
CONSTANTS
  Events = {ev1, ev2}
  Endpoints = {e1, e2}
  Unreadable = {e2}
  AttemptLimits = {1}
  MaxBatch = 1
  MaxRequeues = 0
  MaxFaults = 0
PROPERTY BrokenBlocksNobody
CHECK_DEADLOCK FALSE
