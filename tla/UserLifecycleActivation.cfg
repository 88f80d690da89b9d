SPECIFICATION Spec
CONSTANTS
  Admins = {a1}
  Limits = {1}
  Amounts = {1}
  Durations = {1}
  None = None
  Idle = Idle
  MaxInt = 3
  MaxUsed = 2
  MaxTime = 2
PROPERTY ActivationStands
