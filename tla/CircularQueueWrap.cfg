\* Three threads, two slots, and indices that wrap after the second item.
SPECIFICATION FairSpec
CONSTANTS
  Threads = {t1, t2, t3}
  Capacity = 2
  Modulus = 8
  Seed = 6
  MaxItems = 3
  MaxPops = 2
INVARIANTS TypeOK IndicesOrdered SlotsExclusive PoppedInOrder
PROPERTIES RefusedRightly SlotsAreGivenBack
\* Calls are bounded.
CHECK_DEADLOCK FALSE
