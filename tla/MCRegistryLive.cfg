SPECIFICATION FairSpec
CONSTANTS
  w1 = w1 w2 = w2 i1 = i1 i2 = i2
  k8s = k8s kv = kv harness = harness adhoc = adhoc other = other
  Workers = {w1}
  Reaper = Reaper Main = Main Whatever = Whatever NoId = NoId
  Ids = {i1}
  Caps = {k8s, kv} RevocableCaps = {k8s}
  Callers = {harness} AnchoredCallers = {harness}
  Session <- OwnSession
  Ttl <- TwoTtl
  AskedTtls <- NoTtl
  ReuseMin = 1
  MaxTime = 2 MaxExits = 1 MaxDiskFaults = 1
PROPERTIES DueIsRevoked RequestsAnswered StopsAndStarts
