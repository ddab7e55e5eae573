SPECIFICATION FairSpec
CONSTANTS
  f = f g = g h = h c = c p = p q = q
  Names = {"A", "B", "C", "LANG", "9"}
  Reserved = {"LANG", "ACB_CHECKOUT_RECEIPT"} Malformed = {"9"} Allowlisted = {"LANG"}
  Fields = {f, g, h}
  BareName <- SomeBareNames
  Decls <- SomeDecls
  CapTokens = {"cap1", "cap2"}
  Hosts <- SomeHosts
  Procs = {c, p, q} Child = c
  MaxTokens = 4 MaxInterrupts = 2 MaxSinkFaults = 1
INVARIANTS TypeOK EnvSound NoDowngrade RecordTruthful ValuesGone NothingOutlives
PROPERTIES BoundaryHolds SuiteEnds
CHECK_DEADLOCK FALSE
