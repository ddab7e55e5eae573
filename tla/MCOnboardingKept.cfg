SPECIFICATION Spec
CONSTANTS
  h1 = h1 h2 = h2
  Harnesses = {h1, h2}
  NoHarness = NoHarness
  MaxRuns = 2
SYMMETRY Symmetry
INVARIANTS PreexistingKept
CHECK_DEADLOCK FALSE
