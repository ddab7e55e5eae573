SPECIFICATION Spec
CONSTANTS
  t1 = t1 t2 = t2 a1 = a1 a2 = a2
  Threads = {t1, t2}
  Ids = {a1, a2}
  Ttls = {1, 2}
  NumUses = 3
  NoId = NoId
  MaxTime = 3 MaxRestarts = 1
SYMMETRY Symmetry
INVARIANTS ReleasedMeansDead
PROPERTIES ReadKeepsToken ImplementsContract
