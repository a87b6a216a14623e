SPECIFICATION FairSpec
CONSTANTS
  s1 = s1  s2 = s2  NULL = NULL
  opt_n_threads = 2
  ItemCount = 3
  Seeds <- MCSeeds
  Ids = {1, 2}
  SeedOf <- MCSeedOf
  Exhausts = TRUE
  MaxFaults = 1
INVARIANTS TypeOK HashesWholeDataset PublishedJobWhole
PROPERTIES RebuildFinishes FeedSpec
