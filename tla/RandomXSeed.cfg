SPECIFICATION Spec
CONSTANTS
  s1 = s1  s2 = s2  NULL = NULL
  opt_n_threads = 1
  ItemCount = 3
  Seeds <- MCSeeds
  Ids = {1, 2}
  SeedOf <- MCSeedOf
  Exhausts = FALSE
  MaxFaults = 0
INVARIANT DatasetMatchesSeed
