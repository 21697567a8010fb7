SPECIFICATION FairCatalogSpec
CONSTANTS
  Scanners = {s1}
  MaxHead = 2
  MaxQueued = 1
  MaxEdits = 1
INVARIANT NeverHarvestedUnasked
PROPERTY EventuallyHarvested
