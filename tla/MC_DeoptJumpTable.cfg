CONSTANTS
  p1 = p1
  p2 = p2
  p3 = p3
  Points <- MC_Points
  kMinNumberOfEntries = 1
  kMaxNumberOfEntries = 2
  MaxSites = 3
  DeoptEveryNTimes = 0
  OptCount = 0

SYMMETRY MC_Symmetry

SPECIFICATION Spec

INVARIANTS
  TypeOK
  DeoptReachesOwnEntry
  DeoptCalledWithOneFrame
  EntryCodeExists
