SPECIFICATION Spec
CONSTANTS
  t1 = t1  t2 = t2  NULL = NULL
  Threads <- MCThreads
  s_stats_size = 2
  RejectLimit = 2
  Variants = {"plain", "veil"}
  Builds = {TRUE, FALSE}
  MaxShares = 3
  MaxPending = 3
  MaxResets = 1
  MaxSwitches = 1
  Answers = {"rejected"}
SYMMETRY Symmetry
INVARIANTS TypeOK CreditedOnce MonoNeverOverstates
PROPERTY MonoKeepsCarried
