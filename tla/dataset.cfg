SPECIFICATION Spec
CONSTANTS
  MaxTotal = 9
INVARIANTS
  PrefixesAreExact
  WorkloadIsWhole
