\* Two calls in one process: the first with a 5-row cache and start interval
\* 2, the second with or without a cache; eight iteration ends in all.
CONSTANTS
  w1 = w1
  w2 = w2
  Workers <- mcWorkers
  Rows <- mcRows
  Part <- mcPart
  CacheSizes = {5}
  StartInterval = {2}
  MaxCalls = 8
  MaxEntries = 2
SPECIFICATION CallSpec
INVARIANT
  CacheServesThisCall
