SPECIFICATION FairSpec
CONSTANTS
  c1 = c1 c2 = c2 c3 = c3
  Conns = {c1, c2, c3}
  MaxWorkers = 2
  NoConn = NoConn
  ThreadsMayFail = TRUE
INVARIANTS SlotsBalance DrainIsComplete
PROPERTIES ShutdownEnds
CHECK_DEADLOCK FALSE
