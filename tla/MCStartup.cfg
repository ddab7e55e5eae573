SPECIFICATION Spec
CONSTANTS
  b1 = b1 b2 = b2 b3 = b3 i1 = i1 i2 = i2
  Brokers = {b1, b2, b3}
  Ids = {i1, i2}
  Nobody = Nobody
SYMMETRY Symmetry
INVARIANTS OneOwner SoundInTurn
