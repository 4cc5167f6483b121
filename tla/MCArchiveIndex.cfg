SPECIFICATION Spec
CONSTANTS
  a1 = a1
  a2 = a2
  Archivers <- MCArchivers
  MaxCalls = 2
SYMMETRY MCSymmetry
INVARIANTS TypeOK EntryHasReport LostNeedsRace
PROPERTY DamageIsKept
CHECK_DEADLOCK FALSE
