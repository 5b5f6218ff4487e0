\* Four keys in a cache for three; an average above two ages the cache, so
\* ageing meets one, two and three cached keys and frequencies at the floor.
\* The bound on the accesses ends every behaviour.
CONSTANTS
  Keys = {k1, k2, k3, k4}
  Values = {v1, v2}
  Absent = absent
  Capacity = 3
  MaxAverage = 2
  Int8Max = 8
  MaxAccesses = 12
SPECIFICATION CacheSpec
PROPERTIES EvictsLeastUsed RefinesCachePromise
CHECK_DEADLOCK FALSE
