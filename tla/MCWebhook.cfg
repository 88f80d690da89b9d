SPECIFICATION WorkersSpec
CONSTANTS
  Events = {ev1}
  Endpoints = {e1, e2}
  Unreadable = {e2}
  AttemptLimits = {1, 2}
  MaxBatch = 1
  MaxRequeues = 1
  MaxFaults = 1
  Outbounds = {o1}
  Identities = {i1, i2}
  Rests = {r1, r2}
  None = None
  Half = Half
  MaxEdits = 2
  MaxEgressFaults = 1
  MaxFlips = 2
INVARIANTS DeliveredWasReceived ResentOnlyWithCause KernelAgrees
PROPERTIES DeliveriesSettle Converges
CHECK_DEADLOCK FALSE
