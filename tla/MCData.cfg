SPECIFICATION DataSpec
CONSTANTS
  Devices = {d1, d2}
  Keys = {k1, k2}
  Dirs = {rx, tx}
  NoKey = NoKey
  MaxFlow = 3
  Ifaces = {w1, w2}
  Clients = {c1, c2}
  Handlers = {h1, h2}
  PoolLists <- PoolChoices
  Slots = 1
  NoRow = NoRow
  MaxCalls = 3
  MaxPassFaults = 1
  Devs = {a, b}
  MaxBytes = 3
  Procs = {p1, p2}
  NoProc = NoProc
  MaxKeys = 2
  Rows = {r1, r2, r3}
  MaxKeyIds = 3
  MaxFailures = 2
  Sets = {s1, s2}
  None = None
  FeedQueue = 1
  FeedBatch = 2
  MaxRemembered = 1
  MaxTime = 2
  MaxApplies = 2
  MaxFeedFaults = 1
SYMMETRY KeySymmetry
INVARIANTS ChargesSound LedgerBalanced ProfilesSound SamplesAccounted KnownIsPresent AloneWhenExclusive LeaseProtects SecretsReadable
