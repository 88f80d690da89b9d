SPECIFICATION SoldSpec
CONSTANTS
  Admins = {a1}
  Limits = {1}
  Amounts = {1}
  Durations = {1}
  None = None
  Idle = Idle
  MaxInt = 2
  MaxUsed = 1
  MaxTime = 2
  Keys = {k1}
  Bodies = {b1}
  Clients = {q1, q2}
  NoBody = NoBody
  Plans = {pa, pb}
  NoEdit = NoEdit
  MaxLate = 1
  MaxAuths = 2
  MaxHours = 1
  MaxUnits = 3
  MaxWindows = 1
INVARIANTS ExpiredIsDue OneEffectPerKey TrafficConserved
PROPERTIES OverQuotaStops DueStops ReplacedAtBoundary
