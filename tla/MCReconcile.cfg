SPECIFICATION LinksSpec
CONSTANTS
  Ifaces = {awg0}
  Devices = {d1}
  Keys = {k1, k2}
  Foreign = {f1}
  Kinds = {plain, obfuscated}
  Params = {p1, p2}
  Policy = "report"
  NoRow = NoRow
  NoLink = NoLink
  MaxFaults = 1
  TwoIfaces = {wg1, wg2}
  PlainKind = {kind}
  OneParam = {param}
  Strangers = {f2}
SYMMETRY Symmetry
INVARIANTS FormerKeysTracked GoodPassApplied
PROPERTY ForeignKept
