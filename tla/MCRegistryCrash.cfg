SPECIFICATION Spec
CONSTANTS
  w1 = w1 w2 = w2 i1 = i1 i2 = i2
  k8s = k8s kv = kv harness = harness adhoc = adhoc other = other
  Workers = {w1, w2}
  Reaper = Reaper Main = Main Whatever = Whatever NoId = NoId
  Ids = {i1, i2}
  Caps = {k8s} RevocableCaps = {k8s}
  Callers = {adhoc, other} AnchoredCallers = {}
  Session <- OneSession
  Ttl <- OneTtl
  AskedTtls <- NoTtl
  ReuseMin = 1
  MaxTime = 1 MaxExits = 1 MaxDiskFaults = 0
SYMMETRY Symmetry
INVARIANTS TypeOK DiskCoversMemory LentOnRecord ValueOnlyWhileUsable NothingStranded HeldIsRegistered RevokedMeansEnded
PROPERTIES ImplementsLifecycle LentFitsRequest NoRevival
