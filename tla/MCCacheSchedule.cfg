\* Caches of 3 and 5 rows (shard capacity 0 and 1), start intervals 1, 2 and 5, 46 iteration ends (three regenerations from 5).
CONSTANTS
  w1 = w1
  w2 = w2
  Workers <- mcWorkers
  Rows <- mcRows
  Part <- mcPart
  CacheSizes = {3, 5}
  StartInterval = {1, 2, 5}
  MaxCalls = 46
  MaxEntries = 1
SPECIFICATION Spec
INVARIANT
  TypeOK
PROPERTY
  GenerationFrozenBeforeReplaced
