SPECIFICATION Spec
CONSTANTS
  Ifaces = {awg0}
  Devices = {d1}
  Keys = {k1, k2}
  Foreign = {}
  Kinds = {plain}
  Params = {p1}
  Policy = "report"
  NoRow = NoRow
  NoLink = NoLink
  MaxFaults = 1
PROPERTY AckOnlyAbsent
